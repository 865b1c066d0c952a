------------------------- MODULE FileDeliveryProofs -------------------------
(***************************************************************************)
(* What is proved of FileInput about the lines it delivers: no line of a   *)
(* file is skipped, a checkpoint skips only what was delivered, and a      *)
(* reader's fingerprint stays the beginning of its file, for every number  *)
(* of paths, files, lines, moves, copies, stops and crashes, and with a    *)
(* persister that may fail.  Three hypotheses are needed, each of which    *)
(* the code does not do without: start_at is beginning, no file is         *)
(* truncated, and no watched path names a directory.                       *)
(***************************************************************************)
EXTENDS FileInputProofs

Undisturbed ==
  DirPaths = {} /\ "truncate" \notin EnvOps /\ StartAtBeginning = TRUE

-----------------------------------------------------------------------------
(* The inductive invariant: files.  Every line has a place of its own, at    *)
(* which it is in a file and in its copies; the copies of a file are the     *)
(* beginning of the one that is still written to.                            *)

\* The two files begin with the same line: one is a copy of the other.
Akin(i, j) == Len(data[i]) > 0 /\ Len(data[j]) > 0 /\ data[i][1] = data[j][1]

LinesPast ==
  /\ \A i \in Inodes : \A k \in 1..Len(data[i]) : data[i][k] < nextLine
  /\ \A l \in Lines : l >= nextLine => emitted[l] = 0

FilesPast == \A i \in Inodes : i >= nextIno => data[i] = <<>>

OnePlace ==
  \A i, j \in Inodes : \A k \in 1..Len(data[i]) : \A m \in 1..Len(data[j]) :
    data[i][k] = data[j][m] => k = m /\ Akin(i, j)

CopiesAgree ==
  \A i, j \in Inodes : Akin(i, j) =>
    \A k \in 1..Len(data[i]) : k <= Len(data[j]) => data[i][k] = data[j][k]

OriginalLongest ==
  \A i, j \in Inodes : Akin(i, j) /\ i \notin archives /\ i # j =>
    j \in archives /\ Len(data[j]) <= Len(data[i])

Lineage == LinesPast /\ FilesPast /\ OnePlace /\ CopiesAgree /\ OriginalLongest

(* ... and readers.  Of a file that begins with the fingerprint everything   *)
(* before the offset was delivered, and the offset is not past the end of    *)
(* the file that is written to: what will be appended is not skipped.        *)

Promise(fp, off) ==
  \A i \in Inodes : StartsWith(data[i], fp) =>
    /\ \A k \in 1..Len(data[i]) : k <= off => emitted[data[i][k]] > 0
    /\ i \notin archives => off <= Len(data[i])

\* A fingerprint that is not complete reaches at least to the offset.
Covers(fp, n) == Len(fp) = FingerprintSize \/ n <= Len(fp)

Kept(fp, off) ==
  /\ Len(fp) > 0
  /\ Covers(fp, off)
  /\ \A k \in 1..Len(fp) : fp[k] < nextLine
  /\ Promise(fp, off)

\* The scanner's buffer holds what follows the offset in the file.
Buffered(r) ==
  r.buf # <<>> =>
    /\ r.st = "reading"
    /\ r.off + Len(r.buf) <= Len(data[r.file])
    /\ \A k \in 1..Len(r.buf) : r.buf[k] = data[r.file][r.off + k]
    /\ Covers(r.fp, r.off + Len(r.buf))

Sound(r) ==
  /\ Kept(r.fp, r.off)
  /\ Len(r.fp) <= r.cap
  /\ r.file \in Inodes => StartsWith(data[r.file], r.fp)
  /\ r.st = "reading" => r.file \in Inodes
  /\ Buffered(r)

ReadersSound ==
  /\ \A i \in 1..Len(known) : Sound(known[i])
  /\ \A i \in 1..Len(readers) : Sound(readers[i]) /\ readers[i].file \in Inodes
  /\ \A i \in 1..Len(persisted) : Kept(persisted[i].fp, persisted[i].off)

\* The old readers of the unix roller are open; when the lost ones are read the
\* readers of this poll are done.
RollerSound ==
  /\ DetectLost => \A i \in 1..Len(known) : IsOld(i) => known[i].file \in Inodes
  /\ phase = "lost" => \A i \in 1..Len(readers) : readers[i].st = "done"

\* fps[i] is the beginning of files[i].
Beginning(fp, s) == Len(fp) <= Len(s) /\ \A k \in 1..Len(fp) : fp[k] = s[k]

Paired ==
  /\ Len(files) = Len(fps) + Len(unread)
  /\ \A n \in 1..Len(files) : files[n] \in Inodes
  /\ \A n \in 1..Len(unread) : unread[n] = files[Len(fps) + n]
  /\ \A n \in 1..Len(fps) : Beginning(fps[n], data[files[n]])

NoDirPath == \A p \in Paths : fs[p] # Dir

\* With Typing and AllSmall, this is inductive.
Delivering ==
  /\ NoDirPath /\ Lineage /\ NoGaps
  /\ ReadersSound /\ RollerSound /\ Paired /\ ~panicked

-----------------------------------------------------------------------------
(* Reading *)

\* What follows the first n elements of a sequence, element by element.
LEMMA RestElements ==
  ASSUME NEW S, NEW s \in Seq(S), NEW n \in 0..Len(s)
  PROVE  /\ SubSeq(s, n + 1, Len(s)) \in Seq(S)
         /\ Len(SubSeq(s, n + 1, Len(s))) = Len(s) - n
         /\ \A k \in 1..(Len(s) - n) : SubSeq(s, n + 1, Len(s))[k] = s[n + k]
<1>1. Len(s) \in Nat
  OBVIOUS
<1>2. SubSeq(s, n + 1, Len(s)) = [i \in 1..(Len(s) - n) |-> s[n + i]]
  BY <1>1
<1>3. [i \in 1..(Len(s) - n) |-> s[n + i]] \in [1..(Len(s) - n) -> S]
  BY <1>1
<1> QED
  BY <1>1, <1>2, <1>3, FunctionIsSeq

\* The elements of two sequences one after the other.
LEMMA ConcatElements ==
  ASSUME NEW S, NEW s \in Seq(S), NEW t \in Seq(S)
  PROVE  /\ s \o t \in Seq(S) /\ Len(s \o t) = Len(s) + Len(t)
         /\ \A k \in 1..Len(s) : (s \o t)[k] = s[k]
         /\ \A k \in 1..Len(t) : (s \o t)[Len(s) + k] = t[k]
  BY ConcatProperties

\* The fingerprint after a read, at the end of the file too, is the beginning of
\* the file, not shorter than before, and complete or as long as the file.
LEMMA FingerprintRead ==
  ASSUME TypeOK, NEW r \in Reader, Sound(r), Small(r), r.file \in Inodes,
         NEW c, c = data[r.file],
         NEW fp, fp = FirstBytesAfter(r, Unconsumed(r))
  PROVE  /\ fp \in Bytes
         /\ StartsWith(c, fp)
         /\ Len(r.fp) <= Len(fp)
         /\ Len(fp) = FingerprintSize \/ Len(fp) = Len(c)
         /\ Len(r.fp) = FingerprintSize => fp = r.fp
<1>1. /\ c \in Seq(Lines) /\ Len(c) \in Nat
      /\ r.fp \in Bytes /\ Len(r.fp) \in Nat /\ r.off \in Nat
      /\ FingerprintSize \in Nat /\ FingerprintSize > 0
  BY ConfigAssumption DEF TypeOK, FilesystemOK, Logs, Reader, Bytes
<1>2. fp \in Bytes
  BY UnconsumedType, FirstBytesType
<1>3. StartsWith(c, r.fp) /\ Len(r.fp) > 0 /\ Len(r.fp) <= Len(c)
  BY DEF Sound, StartsWith, Kept
<1>4. CASE Len(r.fp) = FingerprintSize
  BY <1>1, <1>2, <1>3, <1>4 DEF FirstBytesAfter
<1>5. CASE Len(r.fp) # FingerprintSize
  <2> DEFINE old == Resliced(r.fp, r.off)
             un  == Unconsumed(r)
             new == First(un, FingerprintSize - r.off)
  <2>1. r.off <= Len(r.fp) /\ r.off <= Len(c) /\ r.off <= FingerprintSize
    BY <1>1, <1>3, <1>5 DEF Sound, Kept, Covers, Small
  <2>2. /\ old \in Seq(Cells) /\ Len(old) = r.off
        /\ \A k \in 1..r.off : old[k] = c[k]
    <3>1. old \in Bytes /\ Len(old) = r.off
      BY <1>1, ReslicedType
    <3>2. \A k \in 1..r.off : old[k] = r.fp[k]
      BY <1>1, <2>1 DEF Resliced
    <3>3. \A k \in 1..r.off : k \in 1..Len(r.fp) /\ r.fp[k] = c[k]
      BY <1>1, <1>3, <2>1 DEF StartsWith
    <3> QED
      BY <3>1, <3>2, <3>3 DEF Bytes
  <2>3. /\ un \in Seq(Lines) /\ Len(un) = Len(c) - r.off
        /\ \A k \in 1..Len(un) : un[k] = c[r.off + k]
    <3>1. Contents(r.file) = c
      BY DEF Contents
    <3>2. CASE r.off < Len(c)
      <4>1. un = SubSeq(c, r.off + 1, Len(c))
        BY <3>1, <3>2 DEF Unconsumed
      <4>2. r.off \in 0..Len(c)
        BY <1>1, <3>2
      <4>3. /\ SubSeq(c, r.off + 1, Len(c)) \in Seq(Lines)
            /\ Len(SubSeq(c, r.off + 1, Len(c))) = Len(c) - r.off
            /\ \A k \in 1..(Len(c) - r.off) :
                 SubSeq(c, r.off + 1, Len(c))[k] = c[r.off + k]
        BY <1>1, <4>2, RestElements
      <4> HIDE DEF un
      <4> QED
        BY <4>1, <4>3
    <3>3. CASE r.off = Len(c)
      <4>1. un = <<>>
        BY <1>1, <3>1, <3>3 DEF Unconsumed
      <4> QED
        BY <1>1, <3>3, <4>1
    <3> QED
      BY <1>1, <2>1, <3>2, <3>3
  <2> HIDE DEF old, un
  <2>4. /\ new \in Seq(Lines)
        /\ Len(new) = Least(FingerprintSize - r.off, Len(c) - r.off)
        /\ \A k \in 1..Len(new) : new[k] = un[k]
    <3>1. FingerprintSize - r.off \in Nat
      BY <1>1, <2>1
    <3> QED
      BY <2>3, <3>1, FirstType
  <2> HIDE DEF new
  <2>5. fp = old \o new
    <3>1. Most(0, FingerprintSize - r.off) = FingerprintSize - r.off
      BY <1>1, <2>1 DEF Most
    <3> QED
      BY <1>5, <3>1 DEF FirstBytesAfter, old, new, un
  <2>6. new \in Seq(Cells)
    BY <2>4, LinesAreCells DEF Logs, Bytes
  <2>7. /\ Len(fp) = r.off + Len(new)
        /\ \A k \in 1..r.off : fp[k] = old[k]
        /\ \A k \in 1..Len(new) : fp[r.off + k] = new[k]
    <3>1. /\ Len(old \o new) = Len(old) + Len(new)
          /\ \A k \in 1..Len(old) : (old \o new)[k] = old[k]
          /\ \A k \in 1..Len(new) : (old \o new)[Len(old) + k] = new[k]
      <4>1. old \in Seq(Cells) /\ new \in Seq(Cells)
        BY <2>2, <2>6
      <4> QED
        BY <4>1, ConcatElements
    <3> QED
      BY <2>2, <2>5, <3>1
  <2>8. Len(new) \in Nat /\ Len(new) <= Len(un) /\ Len(un) \in Nat
    BY <1>1, <2>1, <2>3, <2>4 DEF Least
  <2>9. ASSUME NEW k \in 1..Len(fp) PROVE c[k] = fp[k]
    <3>0. r.off \in Nat /\ k \in Nat /\ k >= 1 /\ k <= r.off + Len(new)
      BY <1>1, <2>7, <2>8, SMTT(30)
    <3>1. CASE k <= r.off
      <4>1. k \in 1..r.off
        BY <3>0, <3>1
      <4> QED
        BY <2>2, <2>7, <4>1, SMTT(30)
    <3>2. CASE k > r.off
      <4>1. k - r.off \in 1..Len(new) /\ k - r.off \in 1..Len(un) /\ r.off + (k - r.off) = k
        BY <2>8, <3>0, <3>2, SMTT(30)
      <4> QED
        BY <2>3, <2>4, <2>7, <4>1
    <3> QED
      BY <3>0, <3>1, <3>2
  <2>10. /\ Len(fp) = FingerprintSize \/ Len(fp) = Len(c)
         /\ Len(fp) <= Len(c) /\ Len(r.fp) <= Len(fp)
    BY <1>1, <1>3, <2>1, <2>4, <2>7, SMTT(30) DEF Least, Small
  <2> QED
    BY <1>1, <1>2, <1>3, <1>5, <2>9, <2>10 DEF StartsWith
<1> QED
  BY <1>4, <1>5

\* What the scanner returns next is the line at the offset, and the rest of what
\* it has read follows.
LEMMA PendingRead ==
  ASSUME TypeOK, NEW r \in Reader, Sound(r), Small(r), r.st = "reading",
         NEW c, c = data[r.file]
  PROVE  /\ Pending(r) \in Seq(Lines)
         /\ Pending(r) # <<>> =>
              /\ r.off + Len(Pending(r)) <= Len(c)
              /\ \A k \in 1..Len(Pending(r)) : Pending(r)[k] = c[r.off + k]
<1>1. /\ r.file \in Inodes /\ Contents(r.file) = c /\ c \in Seq(Lines) /\ Len(c) \in Nat
      /\ r.off \in Nat
  BY DEF Sound, Contents, TypeOK, FilesystemOK, Logs, Reader
<1>2. Pending(r) \in Seq(Lines)
  BY PendingType DEF Logs
<1>3. CASE r.buf # <<>>
  BY <1>1, <1>2, <1>3 DEF Pending, Sound, Buffered
<1>4. CASE r.buf = <<>> /\ r.off < Len(c)
  <2>0. Unconsumed(r) = SubSeq(c, r.off + 1, Len(c))
    BY <1>1, <1>4 DEF Unconsumed
  <2>1. Pending(r) = SubSeq(c, r.off + 1, Len(c)) /\ r.off \in 0..Len(c)
    BY <1>1, <1>4, <2>0 DEF Pending
  <2>2. /\ Len(SubSeq(c, r.off + 1, Len(c))) = Len(c) - r.off
        /\ \A k \in 1..(Len(c) - r.off) : SubSeq(c, r.off + 1, Len(c))[k] = c[r.off + k]
    BY <1>1, <2>1, RestElements
  <2>3. /\ Len(Pending(r)) = Len(c) - r.off
        /\ \A k \in 1..(Len(c) - r.off) : Pending(r)[k] = c[r.off + k]
    BY <2>1, <2>2
  <2> QED
    BY <1>1, <1>2, <2>3
<1>5. CASE r.buf = <<>> /\ ~(r.off < Len(c))
  BY <1>1, <1>2, <1>5 DEF Pending, Unconsumed
<1> QED
  BY <1>3, <1>4, <1>5

\* One turn of ReadToEnd, when it goes on reading.
LEMMA Turn ==
  ASSUME TypeOK, NEW r \in Reader, Sound(r), Small(r), r.st = "reading",
         NEW c, c = data[r.file], NEW s, s = Scanned(r)
  PROVE  /\ s \in Reader /\ s.file = r.file
         /\ StartsWith(c, s.fp) /\ Len(r.fp) <= Len(s.fp) /\ Len(s.fp) <= s.cap
         /\ \/ /\ cancelled \/ Pending(r) = <<>>
               /\ s.off = r.off /\ s.buf = <<>> /\ Covers(s.fp, s.off)
            \/ /\ ~(cancelled \/ Pending(r) = <<>>)
               /\ s.off = r.off + 1 /\ s.st = "reading" /\ s.buf = Tail(Pending(r))
               /\ Covers(s.fp, r.off + Len(Pending(r)))
<1> DEFINE fp  == IF r.buf = <<>> THEN FirstBytesAfter(r, Unconsumed(r)) ELSE r.fp
           cap == Most(r.cap, Len(fp))
<1>1. /\ r.file \in Inodes /\ c \in Seq(Lines) /\ Len(c) \in Nat
      /\ r.fp \in Bytes /\ Len(r.fp) \in Nat /\ r.off \in Nat /\ r.cap \in Nat
      /\ FingerprintSize \in Nat
  BY Numbers DEF Sound, TypeOK, FilesystemOK, Logs, Reader, Bytes
<1>2. s \in Reader /\ s.file = r.file
  BY ScannedType
<1>3. StartsWith(c, r.fp) /\ Len(r.fp) <= r.cap /\ Covers(r.fp, r.off)
  BY <1>1 DEF Sound, Kept
<1>4. /\ fp \in Bytes /\ StartsWith(c, fp) /\ Len(r.fp) <= Len(fp)
      /\ r.buf = <<>> => Len(fp) = FingerprintSize \/ Len(fp) = Len(c)
      /\ Len(r.fp) = FingerprintSize => fp = r.fp
  <2>1. CASE r.buf = <<>>
    BY <1>1, <2>1, FingerprintRead
  <2>2. CASE r.buf # <<>>
    BY <1>1, <1>3, <2>2
  <2> QED
    BY <2>1, <2>2
<1>5. Scanned(r) = IF cancelled
                   THEN [r EXCEPT !.st = "done", !.buf = <<>>]
                   ELSE IF Pending(r) = <<>>
                   THEN [r EXCEPT !.fp = fp, !.cap = cap, !.st = "done"]
                   ELSE [r EXCEPT !.fp = fp, !.cap = cap, !.off = r.off + 1,
                                  !.buf = Tail(Pending(r))]
  BY DEF Scanned
<1>6. r.buf = <<>> \/ fp = r.fp
  OBVIOUS
<1> HIDE DEF fp
<1>7. Len(fp) <= cap /\ Len(fp) \in Nat
  BY <1>1, <1>4 DEF Most, Bytes
<1> HIDE DEF cap
<1>8. CASE cancelled
  <2>1. s.fp = r.fp /\ s.off = r.off /\ s.buf = <<>> /\ s.cap = r.cap
    BY <1>5, <1>8 DEF Reader
  <2> QED
    BY <1>1, <1>2, <1>3, <1>8, <2>1
<1>9. CASE ~cancelled /\ Pending(r) = <<>>
  <2>1. s.fp = fp /\ s.off = r.off /\ s.buf = r.buf /\ s.cap = cap
    BY <1>5, <1>9 DEF Reader
  <2>2. r.buf = <<>>
    BY <1>9 DEF Pending
  <2>3. Covers(fp, r.off)
    BY <1>1, <1>3, <1>4, <1>7 DEF Covers
  <2> QED
    BY <1>2, <1>4, <1>7, <1>9, <2>1, <2>2, <2>3
<1>10. CASE ~cancelled /\ Pending(r) # <<>>
  <2>1. /\ s.fp = fp /\ s.off = r.off + 1 /\ s.buf = Tail(Pending(r)) /\ s.cap = cap
        /\ s.st = "reading"
    BY <1>5, <1>10 DEF Reader
  <2>2. Covers(fp, r.off + Len(Pending(r)))
    <3>1. CASE r.buf # <<>>
      BY <1>6, <3>1 DEF Pending, Sound, Buffered
    <3>2. CASE r.buf = <<>>
      <4>1. r.off + Len(Pending(r)) <= Len(c)
        BY <1>10, PendingRead
      <4> QED
        BY <1>1, <1>4, <3>2, <4>1 DEF Covers
    <3> QED
      BY <3>1, <3>2
  <2> QED
    BY <1>2, <1>4, <1>7, <1>10, <2>1, <2>2
<1> QED
  BY <1>8, <1>9, <1>10

\* A turn emits the line at the offset, or nothing.
LEMMA Emits ==
  ASSUME TypeOK, NEW r \in Reader, Sound(r), Small(r), r.st = "reading", emit(r),
         NEW c, c = data[r.file]
  PROVE  /\ \A l \in Lines : emitted[l] > 0 => emitted'[l] > 0
         /\ cancelled \/ Pending(r) = <<>> => emitted' = emitted
         /\ ~(cancelled \/ Pending(r) = <<>>) =>
              /\ r.off + 1 \in 1..Len(c)
              /\ emitted'[c[r.off + 1]] > 0
              /\ \A l \in Lines : l # c[r.off + 1] => emitted'[l] = emitted[l]
<1>1. CASE cancelled \/ Pending(r) = <<>>
  BY <1>1 DEF emit
<1>2. CASE ~(cancelled \/ Pending(r) = <<>>)
  <2>1. /\ Pending(r) \in Seq(Lines)
        /\ r.off + Len(Pending(r)) <= Len(c)
        /\ \A k \in 1..Len(Pending(r)) : Pending(r)[k] = c[r.off + k]
        /\ r.off \in Nat /\ Len(c) \in Nat /\ emitted \in [Lines -> 0..2]
    <3>1. r.off \in Nat /\ Len(c) \in Nat /\ emitted \in [Lines -> 0..2]
      BY DEF Reader, Sound, TypeOK, FilesystemOK, Logs, ReadersOK
    <3> QED
      BY <1>2, <3>1, PendingRead
  <2>2. Len(Pending(r)) \in Nat /\ Len(Pending(r)) > 0 /\ Head(Pending(r)) = Pending(r)[1]
    BY <1>2, <2>1
  <2>3. r.off + 1 \in 1..Len(c) /\ Head(Pending(r)) = c[r.off + 1] /\ Head(Pending(r)) \in Lines
    BY <2>1, <2>2
  <2>4. emitted' = [emitted EXCEPT ![c[r.off + 1]] = Least(emitted[c[r.off + 1]] + 1, 2)]
    BY <1>2, <2>3 DEF emit
  <2>5. Least(emitted[c[r.off + 1]] + 1, 2) > 0
    BY <2>1, <2>3, SMTT(30) DEF Least
  <2> QED
    BY <1>2, <2>1, <2>3, <2>4, <2>5
<1> QED
  BY <1>1, <1>2

\* What was delivered stays delivered.
LEMMA PromiseKept ==
  ASSUME TypeOK, NEW fp, NEW off, Promise(fp, off),
         \A l \in Lines : emitted[l] > 0 => emitted'[l] > 0,
         data' = data, archives' = archives
  PROVE  Promise(fp, off)'
<1>1. \A i \in Inodes : \A k \in 1..Len(data[i]) : data[i][k] \in Lines
  BY DEF TypeOK, FilesystemOK, Logs
<1> QED
  BY <1>1 DEF Promise, StartsWith

\* A reader that stays the same while another one emits stays sound.
LEMMA SoundKept ==
  ASSUME TypeOK, NEW r, Sound(r),
         \A l \in Lines : emitted[l] > 0 => emitted'[l] > 0,
         data' = data, archives' = archives, nextLine' = nextLine
  PROVE  Sound(r)'
  BY PromiseKept DEF Sound, Kept, Covers, Buffered, StartsWith

\* If two files begin with the same nonempty fingerprint, one is a copy of the
\* other.
LEMMA CommonBeginning ==
  ASSUME TypeOK, Lineage, NEW fp \in Bytes, Len(fp) > 0,
         NEW i \in Inodes, NEW j \in Inodes,
         StartsWith(data[i], fp), StartsWith(data[j], fp)
  PROVE  /\ Akin(i, j)
         /\ \A k \in 1..Len(data[i]) : k <= Len(data[j]) => data[i][k] = data[j][k]
         /\ i \notin archives => Len(data[j]) <= Len(data[i])
<1>1. Len(data[i]) \in Nat /\ Len(data[j]) \in Nat /\ Len(fp) \in Nat
  BY DEF TypeOK, FilesystemOK, Logs, Bytes
<1>2. 1 \in 1..Len(fp)
  BY <1>1
<1>3. Akin(i, j)
  BY <1>1, <1>2 DEF Akin, StartsWith
<1> QED
  BY <1>1, <1>3 DEF Lineage, CopiesAgree, OriginalLongest

\* The place of a byte of a buffer, counted from one byte further on.
LEMMA NextPlace ==
  ASSUME NEW a \in Nat, NEW p \in Nat, NEW k \in 1..(p - 1)
  PROVE  k + 1 \in 1..p /\ a + (k + 1) = (a + 1) + k
OBVIOUS

\* A turn of ReadToEnd keeps the reader sound: what its offset passes has been
\* delivered, of its own file and of every copy that has the same fingerprint.
LEMMA ScannedSound ==
  ASSUME TypeOK, Lineage, NEW r \in Reader, Sound(r), Small(r), r.st = "reading",
         emit(r), data' = data, archives' = archives, nextLine' = nextLine,
         NEW s, s = Scanned(r)
  PROVE  Sound(s)' /\ s.file = r.file
<1> DEFINE c == data[r.file]
<1>1. /\ s \in Reader /\ s.file = r.file
      /\ StartsWith(c, s.fp) /\ Len(r.fp) <= Len(s.fp) /\ Len(s.fp) <= s.cap
      /\ \/ /\ cancelled \/ Pending(r) = <<>>
            /\ s.off = r.off /\ s.buf = <<>> /\ Covers(s.fp, s.off)
         \/ /\ ~(cancelled \/ Pending(r) = <<>>)
            /\ s.off = r.off + 1 /\ s.st = "reading" /\ s.buf = Tail(Pending(r))
            /\ Covers(s.fp, r.off + Len(Pending(r)))
  BY Turn
<1>2. /\ r.file \in Inodes /\ c \in Seq(Lines) /\ Len(c) \in Nat
      /\ StartsWith(c, r.fp) /\ Promise(r.fp, r.off) /\ Len(r.fp) > 0
      /\ r.off \in Nat /\ r.fp \in Bytes /\ Len(r.fp) \in Nat
      /\ s.fp \in Bytes /\ Len(s.fp) \in Nat /\ s.off \in Nat
  BY <1>1, SMTT(30) DEF Sound, Kept, TypeOK, FilesystemOK, Logs, Reader, Bytes
<1>3. /\ \A l \in Lines : emitted[l] > 0 => emitted'[l] > 0
      /\ cancelled \/ Pending(r) = <<>> => emitted' = emitted
      /\ ~(cancelled \/ Pending(r) = <<>>) =>
           /\ r.off + 1 \in 1..Len(c)
           /\ emitted'[c[r.off + 1]] > 0
  BY Emits
<1>4. s.off = r.off \/ /\ s.off = r.off + 1
                       /\ s.off \in 1..Len(c) /\ emitted'[c[s.off]] > 0
  BY <1>1, <1>3
<1>5. ASSUME NEW i \in Inodes, StartsWith(data[i], s.fp)
      PROVE  /\ \A k \in 1..Len(data[i]) : k <= s.off => emitted'[data[i][k]] > 0
             /\ i \notin archives => s.off <= Len(data[i])
  <2>1. StartsWith(data[i], r.fp)
    <3>1. \A k \in 1..Len(r.fp) : k \in 1..Len(s.fp) /\ r.fp[k] = c[k] /\ s.fp[k] = c[k]
      BY <1>1, <1>2 DEF StartsWith
    <3>2. Len(data[i]) \in Nat /\ Len(r.fp) <= Len(data[i])
      BY <1>1, <1>2, <1>5 DEF StartsWith, TypeOK, FilesystemOK, Logs
    <3>3. \A k \in 1..Len(r.fp) : data[i][k] = r.fp[k]
      BY <1>5, <3>1 DEF StartsWith
    <3> QED
      BY <1>2, <3>2, <3>3 DEF StartsWith
  <2>2. /\ \A k \in 1..Len(data[i]) : k <= r.off => emitted[data[i][k]] > 0
        /\ i \notin archives => r.off <= Len(data[i])
    BY <1>2, <2>1 DEF Promise
  <2>3. /\ \A k \in 1..Len(data[i]) : k <= Len(c) => data[i][k] = c[k]
        /\ i \notin archives => Len(c) <= Len(data[i])
    BY <1>2, <2>1, CommonBeginning
  <2>4. Len(data[i]) \in Nat /\ \A k \in 1..Len(data[i]) : data[i][k] \in Lines
    BY DEF TypeOK, FilesystemOK, Logs
  <2> HIDE DEF c
  <2>5. ASSUME NEW k \in 1..Len(data[i]), k <= s.off PROVE emitted'[data[i][k]] > 0
    <3>1. CASE k <= r.off
      BY <1>3, <2>2, <2>4, <3>1
    <3>2. CASE k > r.off
      <4>1. k = s.off /\ k <= Len(c)
        BY <1>2, <1>4, <2>5, <3>2
      <4> QED
        BY <1>2, <1>4, <2>3, <3>2, <4>1
    <3> QED
      BY <1>2, <3>1, <3>2
  <2>6. i \notin archives => s.off <= Len(data[i])
    BY <1>2, <1>4, <2>2, <2>3, <2>4
  <2> QED
    BY <2>5, <2>6
<1>6. Promise(s.fp, s.off)'
  BY <1>5 DEF Promise, StartsWith
<1>7. \A k \in 1..Len(s.fp) : s.fp[k] < nextLine
  <2>1. \A k \in 1..Len(s.fp) : k \in 1..Len(c) /\ s.fp[k] = c[k]
    BY <1>1, <1>2 DEF StartsWith
  <2> QED
    BY <1>2, <2>1 DEF Lineage, LinesPast
<1>8. CASE s.off = r.off /\ s.buf = <<>> /\ Covers(s.fp, s.off)
  BY <1>1, <1>2, <1>6, <1>7, <1>8 DEF Sound, Kept, Covers, Buffered, StartsWith
<1>9. CASE /\ ~(cancelled \/ Pending(r) = <<>>)
           /\ s.off = r.off + 1 /\ s.st = "reading" /\ s.buf = Tail(Pending(r))
           /\ Covers(s.fp, r.off + Len(Pending(r)))
  <2>1. /\ Pending(r) \in Seq(Lines) /\ Pending(r) # <<>>
        /\ r.off + Len(Pending(r)) <= Len(c)
        /\ \A k \in 1..Len(Pending(r)) : Pending(r)[k] = c[r.off + k]
    BY <1>9, PendingRead
  <2>2. /\ Len(s.buf) = Len(Pending(r)) - 1 /\ Len(Pending(r)) \in Nat
        /\ \A k \in 1..Len(s.buf) : s.buf[k] = Pending(r)[k + 1]
    BY <1>9, <2>1
  <2>3. s.off + Len(s.buf) = r.off + Len(Pending(r))
    BY <1>2, <1>9, <2>2
  <2>4. ASSUME NEW k \in 1..Len(s.buf) PROVE s.buf[k] = c[s.off + k]
    <3>0. s.off = r.off + 1 /\ r.off \in Nat
      BY <1>2, <1>9
    <3>1. Len(Pending(r)) \in Nat /\ Len(s.buf) = Len(Pending(r)) - 1
      BY <2>2
    <3>2. k + 1 \in 1..Len(Pending(r)) /\ r.off + (k + 1) = s.off + k
      <4>1. k \in 1..(Len(Pending(r)) - 1)
        BY <3>1
      <4> QED
        BY <3>0, <3>1, <4>1, NextPlace
    <3> QED
      BY <2>1, <2>2, <3>2, SMTT(30)
  <2>5. Covers(s.fp, s.off) /\ Covers(s.fp, s.off + Len(s.buf))
    BY <1>2, <1>9, <2>2, <2>3 DEF Covers
  <2> QED
    BY <1>1, <1>2, <1>6, <1>7, <1>9, <2>1, <2>3, <2>4, <2>5
       DEF Sound, Kept, Covers, Buffered, StartsWith
<1> QED
  BY <1>1, <1>8, <1>9

\* The line a turn emits is the next one of its file: no gap, nothing too early.
LEMMA TurnDelivery ==
  ASSUME TypeOK, Lineage, NoGaps, NEW r \in Reader, Sound(r), Small(r),
         r.st = "reading", emit(r),
         UNCHANGED <<data, archives, nextLine, nextIno>>
  PROVE  Lineage' /\ NoGaps'
<1> DEFINE c == data[r.file]
<1>1. /\ \A l \in Lines : emitted[l] > 0 => emitted'[l] > 0
      /\ cancelled \/ Pending(r) = <<>> => emitted' = emitted
      /\ ~(cancelled \/ Pending(r) = <<>>) =>
           /\ r.off + 1 \in 1..Len(c)
           /\ \A l \in Lines : l # c[r.off + 1] => emitted'[l] = emitted[l]
  BY Emits
<1>2. /\ r.file \in Inodes /\ Len(c) \in Nat /\ r.off \in Nat
      /\ \A k \in 1..Len(c) : k <= r.off => emitted[c[k]] > 0
      /\ \A i \in Inodes : \A k \in 1..Len(data[i]) : data[i][k] \in Lines
      /\ \A i \in Inodes : Len(data[i]) \in Nat
      /\ nextLine \in Nat
  BY Numbers DEF Sound, Kept, Promise, TypeOK, FilesystemOK, Logs, Reader
<1>3. CASE emitted' = emitted
  BY <1>3, SMTT(30) DEF Lineage, LinesPast, FilesPast, OnePlace, CopiesAgree, OriginalLongest, Akin, NoGaps
<1>4. CASE /\ r.off + 1 \in 1..Len(c)
           /\ \A l \in Lines : l # c[r.off + 1] => emitted'[l] = emitted[l]
  <2>1. c[r.off + 1] < nextLine /\ c[r.off + 1] \in Lines
    BY <1>2, <1>4 DEF Lineage, LinesPast
  <2>2. \A l \in Lines : l >= nextLine => l # c[r.off + 1]
    BY <1>2, <2>1, Numbers DEF Lines
  <2>3. LinesPast'
    BY <1>4, <2>2 DEF Lineage, LinesPast
  <2>4. ASSUME NEW i \in Inodes, NEW k \in 2..Len(data[i]), emitted'[data[i][k]] > 0
        PROVE  emitted'[data[i][k - 1]] > 0
    <3>1. k \in 1..Len(data[i]) /\ k - 1 \in 1..Len(data[i])
      BY <1>2
    <3>2. CASE data[i][k] = c[r.off + 1]
      <4>1. k = r.off + 1 /\ Akin(i, r.file)
        BY <1>2, <1>4, <3>1, <3>2 DEF Lineage, OnePlace
      <4>2. k - 1 \in 1..Len(c) /\ k - 1 <= r.off
        BY <1>2, <1>4, <3>1, <4>1
      <4>3. data[i][k - 1] = c[k - 1]
        BY <1>2, <3>1, <4>1, <4>2 DEF Lineage, CopiesAgree
      <4> QED
        BY <1>1, <1>2, <4>2, <4>3
    <3>3. CASE data[i][k] # c[r.off + 1]
      <4>1. emitted[data[i][k]] > 0
        BY <1>2, <1>4, <2>4, <3>1, <3>3
      <4>2. emitted[data[i][k - 1]] > 0
        BY <4>1 DEF NoGaps
      <4> QED
        BY <1>1, <1>2, <3>1, <4>2
    <3> QED
      BY <3>2, <3>3
  <2>5. NoGaps'
    BY <2>4 DEF NoGaps
  <2> QED
    BY <2>3, <2>5 DEF Lineage, FilesPast, OnePlace, CopiesAgree, OriginalLongest, Akin
<1> QED
  BY <1>1, <1>3, <1>4

-----------------------------------------------------------------------------
(* The filesystem *)

\* Without truncation files only grow, at their end.
Grows ==
  \A j \in Inodes :
    /\ Len(data[j]) <= Len(data'[j])
    /\ \A k \in 1..Len(data[j]) : data'[j][k] = data[j][k]

\* A reader of a file that grows stays sound if its promise does.
LEMMA SoundGrows ==
  ASSUME Typing, Typing', Grows, nextLine <= nextLine',
         NEW r \in Reader, Sound(r), Promise(r.fp, r.off)'
  PROVE  Sound(r)'
<1>1. /\ r.fp \in Bytes /\ r.off \in Nat /\ r.buf \in Seq(Lines)
      /\ Len(r.fp) \in Nat /\ Len(r.buf) \in Nat
      /\ nextLine \in Nat /\ nextLine' \in Nat
      /\ \A k \in 1..Len(r.fp) : r.fp[k] \in Nat
      /\ \A j \in Inodes : Len(data[j]) \in Nat /\ Len(data'[j]) \in Nat
  BY Numbers, SMTT(30) DEF Reader, Logs, Bytes, Cells, Typing, TypeOK, FilesystemOK
<1>2. Kept(r.fp, r.off)'
  BY <1>1 DEF Sound, Kept, Covers
<1>2a. r.file \in Inodes =>
         /\ Len(data[r.file]) \in Nat /\ Len(data'[r.file]) \in Nat
         /\ Len(data[r.file]) <= Len(data'[r.file])
         /\ \A k \in 1..Len(data[r.file]) : data'[r.file][k] = data[r.file][k]
  BY <1>1 DEF Grows
<1>3. ASSUME r.file \in Inodes PROVE StartsWith(data'[r.file], r.fp)
  <2>1. /\ Len(r.fp) # 0 /\ Len(r.fp) <= Len(data[r.file])
        /\ \A k \in 1..Len(r.fp) : data[r.file][k] = r.fp[k]
    BY <1>3 DEF Sound, StartsWith
  <2>2. \A k \in 1..Len(r.fp) : k \in 1..Len(data[r.file])
    BY <1>1, <1>2a, <1>3, <2>1
  <2>3. \A k \in 1..Len(r.fp) : data'[r.file][k] = r.fp[k]
    BY <1>2a, <1>3, <2>1, <2>2
  <2>4. Len(r.fp) <= Len(data'[r.file])
    BY <1>1, <1>2a, <1>3, <2>1
  <2> QED
    BY <2>1, <2>3, <2>4 DEF StartsWith
<1>4. Buffered(r)'
  <2> SUFFICES ASSUME r.buf # <<>>
               PROVE  /\ r.st = "reading"
                      /\ r.off + Len(r.buf) <= Len(data'[r.file])
                      /\ \A k \in 1..Len(r.buf) : r.buf[k] = data'[r.file][r.off + k]
                      /\ Covers(r.fp, r.off + Len(r.buf))
    BY DEF Buffered, Covers
  <2>1. /\ r.st = "reading" /\ r.file \in Inodes
        /\ r.off + Len(r.buf) <= Len(data[r.file])
        /\ \A k \in 1..Len(r.buf) : r.buf[k] = data[r.file][r.off + k]
        /\ Covers(r.fp, r.off + Len(r.buf))
    BY DEF Sound, Buffered
  <2>2. \A k \in 1..Len(r.buf) : r.off + k \in 1..Len(data[r.file])
    BY <1>1, <2>1
  <2>3. \A k \in 1..Len(r.buf) : r.buf[k] = data'[r.file][r.off + k]
    BY <1>2a, <2>1, <2>2
  <2>4. r.off + Len(r.buf) <= Len(data'[r.file])
    BY <1>1, <1>2a, <2>1
  <2> QED
    BY <2>1, <2>3, <2>4
<1> QED
  BY <1>2, <1>3, <1>4 DEF Sound

\* A line is appended to a file.
LEMMA WriteLineData ==
  ASSUME Typing, NEW i \in Inodes, WriteLine(i)
  PROVE  /\ \A j \in Inodes : j # i => data'[j] = data[j]
         /\ Len(data'[i]) = Len(data[i]) + 1
         /\ \A k \in 1..Len(data[i]) : data'[i][k] = data[i][k]
         /\ data'[i][Len(data[i]) + 1] = nextLine
         /\ nextLine \in Lines /\ nextLine' = nextLine + 1 /\ nextLine \in Nat
         /\ i \notin archives /\ i < nextIno
         /\ UNCHANGED <<archives, nextIno, emitted>>
         /\ \A j \in Inodes : Len(data[j]) \in Nat /\ Len(data'[j]) \in Nat
         /\ \A j \in Inodes : \A k \in 1..Len(data[j]) : data[j][k] \in Nat
<1>1. data \in [Inodes -> Seq(Lines)] /\ nextLine \in Nat /\ nextLine \in 1..(MaxLines + 1)
  BY Numbers DEF Typing, TypeOK, FilesystemOK, Logs
<1>2. /\ data' = [data EXCEPT ![i] = Append(data[i], nextLine)]
      /\ nextLine' = nextLine + 1 /\ nextLine <= MaxLines
      /\ i \notin archives /\ i < nextIno /\ UNCHANGED <<archives, nextIno, emitted>>
  BY DEF WriteLine, opVars
<1>3. nextLine \in Lines
  BY <1>1, <1>2, Numbers DEF Lines
<1>4. data[i] \in Seq(Lines) /\ data'[i] = Append(data[i], nextLine)
  BY <1>1, <1>2
<1>5. /\ Len(data'[i]) = Len(data[i]) + 1
      /\ \A k \in 1..Len(data[i]) : data'[i][k] = data[i][k]
      /\ data'[i][Len(data[i]) + 1] = nextLine
  BY <1>3, <1>4, AppendProperties
<1>6. \A j \in Inodes : \A k \in 1..Len(data[j]) : data[j][k] \in Nat
  BY <1>1, Numbers DEF Lines
<1>7. \A j \in Inodes : j # i => data'[j] = data[j]
  BY <1>1, <1>2
<1>8. \A j \in Inodes : Len(data[j]) \in Nat /\ Len(data'[j]) \in Nat
  BY <1>1, <1>5, <1>7
<1> QED
  BY <1>1, <1>2, <1>3, <1>5, <1>6, <1>7, <1>8

\* Appending a line that is in no file yet, to a file that is not a copy.
LEMMA WriteLineLineage ==
  ASSUME Typing, Lineage, NoGaps, NEW i \in Inodes, WriteLine(i)
  PROVE  Lineage' /\ NoGaps' /\ Grows
<1> DEFINE n == Len(data[i]) + 1
<1>1. /\ \A j \in Inodes : j # i => data'[j] = data[j]
      /\ Len(data'[i]) = n
      /\ \A k \in 1..Len(data[i]) : data'[i][k] = data[i][k]
      /\ data'[i][n] = nextLine
      /\ nextLine \in Lines /\ nextLine' = nextLine + 1 /\ nextLine \in Nat
      /\ i \notin archives /\ i < nextIno
      /\ UNCHANGED <<archives, nextIno, emitted>>
      /\ \A j \in Inodes : Len(data[j]) \in Nat /\ Len(data'[j]) \in Nat
      /\ \A j \in Inodes : \A k \in 1..Len(data[j]) : data[j][k] \in Nat
  BY WriteLineData
<1>1a. nextLine \in Nat
  BY <1>1
<1>2. /\ \A j \in Inodes : \A k \in 1..Len(data[j]) : data[j][k] < nextLine
      /\ \A l \in Lines : l >= nextLine => emitted[l] = 0
  BY DEF Lineage, LinesPast
<1> HIDE DEF n
<1>3. n = Len(data[i]) + 1 /\ n \in Nat
  BY <1>1 DEF n
\* A cell is the new one, or is where it was.
<1>4. ASSUME NEW j \in Inodes, NEW k \in 1..Len(data'[j])
      PROVE  \/ j = i /\ k = n /\ data'[j][k] = nextLine
             \/ /\ k \in 1..Len(data[j]) /\ data'[j][k] = data[j][k]
                /\ data'[j][k] < nextLine
  <2>1. CASE j # i
    BY <1>1, <1>2, <2>1
  <2>2. CASE j = i /\ k # n
    <3>1. k \in 1..Len(data[j])
      BY <1>1, <1>3, <2>2
    <3> QED
      BY <1>1, <1>2, <2>2, <3>1
  <2>3. CASE j = i /\ k = n
    BY <1>1, <2>3
  <2> QED
    BY <2>1, <2>2, <2>3
<1>5. ASSUME NEW j \in Inodes, Len(data[j]) > 0
      PROVE  Len(data'[j]) > 0 /\ data'[j][1] = data[j][1]
  BY <1>1, <1>3, <1>5, SMTT(30)
<1>6. ASSUME NEW a \in Inodes, NEW b \in Inodes, Akin(a, b)
      PROVE  Akin(a, b)'
  <2>1. Len(data[a]) > 0 /\ Len(data[b]) > 0 /\ data[a][1] = data[b][1]
    BY <1>6 DEF Akin
  <2> QED
    BY <1>5, <2>1 DEF Akin
<1>7. ASSUME NEW a \in Inodes, NEW b \in Inodes, a # b, Akin(a, b)'
      PROVE  Akin(a, b)
  <2>1. Len(data'[a]) > 0 /\ Len(data'[b]) > 0 /\ data'[a][1] = data'[b][1]
    BY <1>7 DEF Akin
  <2>2. 1 \in 1..Len(data'[a]) /\ 1 \in 1..Len(data'[b])
    BY <1>1, <2>1
  <2>3. 1 \in 1..Len(data[a]) /\ data'[a][1] = data[a][1]
    BY <1>1, <1>4, <1>7, <2>1, <2>2
  <2>4. 1 \in 1..Len(data[b]) /\ data'[b][1] = data[b][1]
    BY <1>1, <1>4, <1>7, <2>1, <2>2
  <2>5. Len(data[a]) > 0 /\ Len(data[b]) > 0 /\ data[a][1] = data[b][1]
    <3>1. Len(data[a]) \in Nat /\ Len(data[b]) \in Nat
      BY <1>1
    <3>2. Len(data[a]) > 0 /\ Len(data[b]) > 0
      BY <2>3, <2>4, <3>1
    <3>3. data[a][1] = data[b][1]
      BY <2>1, <2>3, <2>4
    <3> QED
      BY <3>2, <3>3
  <2> QED
    BY <2>5 DEF Akin
<1>8. LinesPast'
  <2>1. ASSUME NEW j \in Inodes, NEW k \in 1..Len(data'[j]) PROVE data'[j][k] < nextLine'
    <3>1. data'[j][k] = nextLine \/ (data'[j][k] < nextLine /\ data'[j][k] \in Nat)
      <4>1. CASE j = i /\ k = n /\ data'[j][k] = nextLine
        BY <4>1
      <4>2. CASE /\ k \in 1..Len(data[j]) /\ data'[j][k] = data[j][k]
                 /\ data'[j][k] < nextLine
        <5>1. data[j][k] \in Nat
          BY <1>1, <4>2
        <5> QED
          BY <4>2, <5>1
      <4> QED
        BY <1>4, <4>1, <4>2
    <3>2. nextLine' = nextLine + 1
      BY <1>1
    <3> QED
      BY <3>1, <3>2, <1>1a
  <2>2. ASSUME NEW l \in Lines, l >= nextLine' PROVE emitted'[l] = 0
    BY <1>1, <1>2, <2>2, Numbers DEF Lines
  <2> QED
    BY <2>1, <2>2 DEF LinesPast
<1>9. FilesPast'
  <2>1. ASSUME NEW j \in Inodes, j >= nextIno PROVE j # i
    BY <1>1, <2>1, Numbers DEF Inodes, Typing, TypeOK, FilesystemOK
  <2> QED
    BY <1>1, <2>1 DEF Lineage, FilesPast
<1>10. OnePlace'
  <2> SUFFICES ASSUME NEW a \in Inodes, NEW b \in Inodes,
                      NEW k \in 1..Len(data'[a]), NEW m \in 1..Len(data'[b]),
                      data'[a][k] = data'[b][m]
               PROVE  k = m /\ Akin(a, b)'
    BY DEF OnePlace
  <2>1. CASE a = i /\ k = n /\ data'[a][k] = nextLine
    <3>1. b = i /\ m = n
      BY <1>1, <1>4, <2>1
    <3> QED
      BY <1>1, <1>3, <2>1, <3>1 DEF Akin
  <2>2. CASE /\ k \in 1..Len(data[a]) /\ data'[a][k] = data[a][k]
             /\ data'[a][k] < nextLine
    <3>0. data'[b][m] # nextLine
      BY <1>1a, <2>2
    <3>1. m \in 1..Len(data[b]) /\ data'[b][m] = data[b][m]
      BY <1>4, <3>0
    <3>2. k = m /\ Akin(a, b)
      BY <2>2, <3>1 DEF Lineage, OnePlace
    <3> QED
      BY <1>6, <3>2
  <2> QED
    BY <1>4, <2>1, <2>2
<1>11. OriginalLongest'
  <2> SUFFICES ASSUME NEW a \in Inodes, NEW b \in Inodes, Akin(a, b)', a \notin archives, a # b
               PROVE  b \in archives /\ Len(data'[b]) <= Len(data'[a])
    BY <1>1 DEF OriginalLongest
  <2>1. b \in archives /\ Len(data[b]) <= Len(data[a])
    BY <1>7 DEF Lineage, OriginalLongest
  <2> QED
    BY <1>1, <1>3, <2>1
<1>12. CopiesAgree'
  <2> SUFFICES ASSUME NEW a \in Inodes, NEW b \in Inodes, Akin(a, b)', a # b,
                      NEW k \in 1..Len(data'[a]), k <= Len(data'[b])
               PROVE  data'[a][k] = data'[b][k]
    BY DEF CopiesAgree
  <2>1. Akin(a, b) /\ Akin(b, a) /\ k \in 1..Len(data'[b])
    BY <1>1, <1>7 DEF Akin
  <2>2. CASE a = i /\ k = n
    <3>1. Len(data[b]) <= Len(data[a]) /\ data'[b] = data[b]
      BY <1>1, <2>1, <2>2 DEF Lineage, OriginalLongest
    <3> QED
      BY <1>1, <1>3, <2>2, <3>1
  <2>3. CASE b = i /\ k = n
    <3>1. Len(data[a]) <= Len(data[b]) /\ data'[a] = data[a]
      BY <1>1, <2>1, <2>3 DEF Lineage, OriginalLongest
    <3> QED
      BY <1>1, <1>3, <2>3, <3>1
  <2>4. CASE ~(a = i /\ k = n) /\ ~(b = i /\ k = n)
    <3>1. /\ k \in 1..Len(data[a]) /\ data'[a][k] = data[a][k]
          /\ k \in 1..Len(data[b]) /\ data'[b][k] = data[b][k]
      BY <1>4, <2>1, <2>4
    <3>2. data[a][k] = data[b][k]
      BY <1>1, <2>1, <3>1 DEF Lineage, CopiesAgree
    <3> QED
      BY <3>1, <3>2
  <2> QED
    BY <2>2, <2>3, <2>4
<1>13. NoGaps'
  <2> SUFFICES ASSUME NEW j \in Inodes, NEW k \in 2..Len(data'[j]), emitted[data'[j][k]] > 0
               PROVE  emitted[data'[j][k - 1]] > 0
    BY <1>1 DEF NoGaps
  <2>1. k \in 1..Len(data'[j]) /\ k - 1 \in 1..Len(data'[j])
    BY <1>1
  <2>2. k \in 1..Len(data[j]) /\ data'[j][k] = data[j][k]
    BY <1>1, <1>2, <1>4, <2>1
  <2>3. k - 1 \in 1..Len(data[j]) /\ k \in 2..Len(data[j])
    BY <1>1, <2>2
  <2>4. data'[j][k - 1] = data[j][k - 1]
    BY <1>1, <2>3
  <2> QED
    BY <2>2, <2>3, <2>4 DEF NoGaps
<1>14. Grows
  BY <1>1, <1>3 DEF Grows
<1> QED
  BY <1>8, <1>9, <1>10, <1>11, <1>12, <1>13, <1>14 DEF Lineage

\* No fingerprint has the new line, and no offset is past it.
LEMMA WriteLinePromise ==
  ASSUME Typing, NEW i \in Inodes, WriteLine(i), NEW fp \in Bytes, NEW off \in Nat,
         Kept(fp, off)
  PROVE  Promise(fp, off)'
<1>1. /\ \A j \in Inodes : j # i => data'[j] = data[j]
      /\ Len(data'[i]) = Len(data[i]) + 1
      /\ \A k \in 1..Len(data[i]) : data'[i][k] = data[i][k]
      /\ data'[i][Len(data[i]) + 1] = nextLine
      /\ nextLine \in Nat
      /\ i \notin archives
      /\ UNCHANGED <<archives, emitted>>
      /\ \A j \in Inodes : Len(data[j]) \in Nat
  BY WriteLineData
<1>2. /\ \A k \in 1..Len(fp) : fp[k] < nextLine /\ fp[k] \in Nat
      /\ Promise(fp, off) /\ Len(fp) \in Nat /\ Len(fp) > 0
  BY Numbers DEF Kept, Bytes, Cells
<1> SUFFICES ASSUME NEW j \in Inodes, StartsWith(data'[j], fp)
             PROVE  /\ \A k \in 1..Len(data'[j]) : k <= off => emitted[data'[j][k]] > 0
                    /\ j \notin archives => off <= Len(data'[j])
  BY <1>1 DEF Promise
<1>3. CASE j # i
  BY <1>1, <1>2, <1>3 DEF Promise
<1>4. CASE j = i
  <2>1. /\ Len(fp) <= Len(data[i]) + 1
        /\ \A k \in 1..Len(fp) : data'[i][k] = fp[k]
    BY <1>1, <1>4 DEF StartsWith
  <2>2. Len(fp) # Len(data[i]) + 1
    BY <1>1, <1>2, <2>1
  <2>3. \A k \in 1..Len(fp) : k \in 1..Len(data[i])
    BY <1>1, <1>2, <2>1, <2>2
  <2>4. StartsWith(data[i], fp)
    BY <1>1, <1>2, <2>1, <2>2, <2>3 DEF StartsWith
  <2>5. /\ \A k \in 1..Len(data[i]) : k <= off => emitted[data[i][k]] > 0
        /\ off <= Len(data[i])
    BY <1>1, <1>2, <2>4 DEF Promise
  <2>6. ASSUME NEW k \in 1..Len(data'[i]), k <= off PROVE emitted[data'[i][k]] > 0
    <3>1. k \in 1..Len(data[i])
      BY <1>1, <2>5, <2>6
    <3> QED
      BY <1>1, <2>5, <2>6, <3>1
  <2> QED
    BY <1>1, <1>4, <2>5, <2>6
<1> QED
  BY <1>3, <1>4

\* A new file that nobody writes to gets what another one holds.
LEMMA CopyFileData ==
  ASSUME Typing, Lineage, NEW p \in Paths, NEW q \in Paths, CopyFile(p, q)
  PROVE  /\ fs[p] \in Inodes /\ nextIno \in Inodes
         /\ data[nextIno] = <<>> /\ data'[nextIno] = data[fs[p]]
         /\ \A j \in Inodes : j # nextIno => data'[j] = data[j]
         /\ archives' = archives \cup {nextIno} /\ nextIno' = nextIno + 1
         /\ UNCHANGED <<nextLine, emitted>>
         /\ \A j \in Inodes : Len(data[j]) \in Nat /\ Len(data'[j]) \in Nat
<1>1. data \in [Inodes -> Seq(Lines)] /\ nextIno \in 1..(MaxInodes + 1)
  BY DEF Typing, TypeOK, FilesystemOK, Logs
<1>2. /\ fs[p] \in Inodes /\ nextIno <= MaxInodes /\ nextIno' = nextIno + 1
      /\ data' = [data EXCEPT ![nextIno] = data[fs[p]]]
      /\ archives' = archives \cup {nextIno} /\ UNCHANGED <<nextLine, emitted>>
  BY DEF CopyFile, opVars
<1>3. nextIno \in Inodes
  BY <1>1, <1>2, Numbers DEF Inodes
<1>4. data[nextIno] = <<>>
  BY <1>3, Numbers DEF Lineage, FilesPast, Inodes
<1> QED
  BY <1>1, <1>2, <1>3, <1>4

\* A copy has the lines of the original in their places.
LEMMA CopyFileLineage ==
  ASSUME Typing, Lineage, NoGaps, NEW p \in Paths, NEW q \in Paths, CopyFile(p, q)
  PROVE  Lineage' /\ NoGaps' /\ Grows
<1> DEFINE o == [j \in Inodes |-> IF j = nextIno THEN fs[p] ELSE j]
<1>1. /\ fs[p] \in Inodes /\ nextIno \in Inodes
      /\ data[nextIno] = <<>> /\ data'[nextIno] = data[fs[p]]
      /\ \A j \in Inodes : j # nextIno => data'[j] = data[j]
      /\ archives' = archives \cup {nextIno} /\ nextIno' = nextIno + 1
      /\ UNCHANGED <<nextLine, emitted>>
      /\ \A j \in Inodes : Len(data[j]) \in Nat /\ Len(data'[j]) \in Nat
  BY CopyFileData
\* Every file holds what some file held.
<1>2. \A j \in Inodes : o[j] \in Inodes /\ data'[j] = data[o[j]] /\ (j # nextIno => o[j] = j)
  BY <1>1
<1> HIDE DEF o
<1>3. \A a, b \in Inodes : Akin(a, b)' <=> Akin(o[a], o[b])
  BY <1>2 DEF Akin
<1>4. LinesPast'
  BY <1>1, <1>2 DEF Lineage, LinesPast
<1>5. FilesPast'
  <2>1. ASSUME NEW j \in Inodes, j >= nextIno + 1 PROVE j # nextIno /\ j >= nextIno
    BY <2>1, Numbers DEF Inodes, Typing, TypeOK, FilesystemOK
  <2> QED
    BY <1>1, <2>1 DEF Lineage, FilesPast
<1>6. OnePlace'
  BY <1>2, <1>3 DEF Lineage, OnePlace
<1>7. CopiesAgree'
  BY <1>2, <1>3 DEF Lineage, CopiesAgree
<1>8. OriginalLongest'
  <2> SUFFICES ASSUME NEW a \in Inodes, NEW b \in Inodes, Akin(a, b)', a \notin archives',
                      a # b
               PROVE  b \in archives' /\ Len(data'[b]) <= Len(data'[a])
    BY DEF OriginalLongest
  <2>1. a # nextIno /\ o[a] = a /\ a \notin archives /\ Akin(a, o[b])
    BY <1>1, <1>2, <1>3
  <2>2. CASE o[b] = a
    BY <1>1, <1>2, <2>1, <2>2
  <2>3. CASE o[b] # a
    <3>1. o[b] \in archives /\ Len(data[o[b]]) <= Len(data[a])
      BY <1>2, <2>1, <2>3 DEF Lineage, OriginalLongest
    <3> QED
      BY <1>1, <1>2, <2>1, <3>1
  <2> QED
    BY <2>2, <2>3
<1>9. NoGaps'
  BY <1>1, <1>2 DEF NoGaps
<1>10. Grows
  <2>1. ASSUME NEW j \in Inodes
        PROVE  /\ Len(data[j]) <= Len(data'[j])
               /\ \A k \in 1..Len(data[j]) : data'[j][k] = data[j][k]
    BY <1>1
  <2> QED
    BY <2>1 DEF Grows
<1> QED
  BY <1>4, <1>5, <1>6, <1>7, <1>8, <1>9, <1>10 DEF Lineage

\* A fingerprint the copy begins with is one the original begins with.
LEMMA CopyFilePromise ==
  ASSUME Typing, Lineage, NEW p \in Paths, NEW q \in Paths, CopyFile(p, q),
         NEW fp, NEW off, Promise(fp, off)
  PROVE  Promise(fp, off)'
<1>1. /\ fs[p] \in Inodes /\ data'[nextIno] = data[fs[p]]
      /\ \A j \in Inodes : j # nextIno => data'[j] = data[j]
      /\ archives' = archives \cup {nextIno} /\ emitted' = emitted
  BY CopyFileData
<1> SUFFICES ASSUME NEW j \in Inodes, StartsWith(data'[j], fp)
             PROVE  /\ \A k \in 1..Len(data'[j]) : k <= off => emitted[data'[j][k]] > 0
                    /\ j \notin archives' => off <= Len(data'[j])
  BY <1>1 DEF Promise
<1>2. CASE j = nextIno
  BY <1>1, <1>2 DEF Promise
<1>3. CASE j # nextIno
  BY <1>1, <1>3 DEF Promise
<1> QED
  BY <1>2, <1>3

\* A step of the filesystem other than a truncation, for files ...
LEMMA FilesystemLineage ==
  ASSUME Typing, Lineage, NoGaps, NoDirPath, Undisturbed, Filesystem
  PROVE  /\ Lineage' /\ NoGaps' /\ NoDirPath' /\ Grows
         /\ nextLine <= nextLine'
         /\ UNCHANGED opVars
<1>1. UNCHANGED opVars
  BY FilesystemTyping
<1>2. NoDirPath'
  BY FilesystemNoDir DEF NoDirPath
<1>3. nextLine \in Nat /\ emitted' = emitted
  BY <1>1, Numbers DEF Typing, TypeOK, FilesystemOK, opVars
<1>4. ASSUME NEW i \in Inodes, WriteLine(i)
      PROVE  Lineage' /\ NoGaps' /\ Grows /\ nextLine <= nextLine'
  <2>1. nextLine <= nextLine'
    BY <1>3, <1>4 DEF WriteLine
  <2> QED
    BY <1>4, <2>1, WriteLineLineage
<1>5. ASSUME NEW p \in Paths, NEW q \in Paths, CopyFile(p, q)
      PROVE  Lineage' /\ NoGaps' /\ Grows /\ nextLine <= nextLine'
  <2>1. nextLine <= nextLine'
    BY <1>3, <1>5 DEF CopyFile
  <2> QED
    BY <1>5, <2>1, CopyFileLineage
<1>6. ASSUME data' = data, archives' = archives, nextLine' = nextLine,
             nextIno' = nextIno \/ nextIno' = nextIno + 1
      PROVE  Lineage' /\ NoGaps' /\ Grows /\ nextLine <= nextLine'
  <2>1. FilesPast'
    BY <1>6, Numbers DEF Lineage, FilesPast, Inodes, Typing, TypeOK, FilesystemOK
  <2>2. LinesPast' /\ OnePlace' /\ CopiesAgree' /\ OriginalLongest'
    BY <1>3, <1>6 DEF Lineage, LinesPast, OnePlace, CopiesAgree, OriginalLongest, Akin
  <2>3. NoGaps'
    BY <1>3, <1>6 DEF NoGaps
  <2>4. Grows
    BY <1>6 DEF Grows, Typing, TypeOK, FilesystemOK, Logs
  <2> QED
    BY <1>3, <1>6, <2>1, <2>2, <2>3, <2>4 DEF Lineage
<1>7. ASSUME NEW p \in Paths, CreateFile(p) \/ RemoveFile(p)
      PROVE  Lineage' /\ NoGaps' /\ Grows /\ nextLine <= nextLine'
  <2>1. /\ data' = data /\ archives' = archives /\ nextLine' = nextLine
        /\ (nextIno' = nextIno \/ nextIno' = nextIno + 1)
    BY <1>7 DEF CreateFile, RemoveFile
  <2> QED
    BY <1>6, <2>1
<1>8. ASSUME NEW p \in Paths, NEW q \in Paths, MoveFile(p, q)
      PROVE  Lineage' /\ NoGaps' /\ Grows /\ nextLine <= nextLine'
  <2>1. /\ data' = data /\ archives' = archives /\ nextLine' = nextLine
        /\ nextIno' = nextIno
    BY <1>8 DEF MoveFile
  <2> QED
    BY <1>6, <2>1
<1>9. \A p \in Paths : ~TruncateFile(p)
  BY DEF Undisturbed, TruncateFile, Operation
<1> QED
  BY <1>1, <1>2, <1>4, <1>5, <1>7, <1>8, <1>9 DEF Filesystem

\* ... and for what is known of them.
LEMMA FilesystemPromise ==
  ASSUME Typing, Lineage, Undisturbed, Filesystem, NEW fp \in Bytes, NEW off \in Nat,
         Kept(fp, off)
  PROVE  Promise(fp, off)'
<1>1. ASSUME NEW i \in Inodes, WriteLine(i) PROVE Promise(fp, off)'
  BY <1>1, WriteLinePromise
<1>2. ASSUME NEW p \in Paths, NEW q \in Paths, CopyFile(p, q) PROVE Promise(fp, off)'
  BY <1>2, CopyFilePromise DEF Kept
<1>3. CASE UNCHANGED <<data, archives, emitted>>
  BY <1>3 DEF Kept, Promise, StartsWith
<1>4. emitted' = emitted
  BY FilesystemTyping DEF opVars
<1>5. ASSUME NEW p \in Paths, NEW q \in Paths, CreateFile(p) \/ RemoveFile(p) \/ MoveFile(p, q)
      PROVE  Promise(fp, off)'
  BY <1>3, <1>4, <1>5 DEF CreateFile, RemoveFile, MoveFile
<1>6. \A p \in Paths : ~TruncateFile(p)
  BY DEF Undisturbed, TruncateFile, Operation
<1> QED
  BY <1>1, <1>2, <1>5, <1>6 DEF Filesystem

-----------------------------------------------------------------------------
(* Readers from one state to the next *)

\* A reader that is sound in the next state is so wherever it is found there.
LEMMA SoundNext ==
  ASSUME NEW s, Sound(s)', NEW i
  PROVE  /\ s = known'[i] => Sound(known[i])'
         /\ s = readers'[i] => Sound(readers[i])'
  BY DEF Sound, Kept, Promise, Covers, Buffered, StartsWith

\* Nothing about files or deliveries changes.
Quiet == UNCHANGED <<fsVars, emitted>>

\* Then what is said of the files and of their lines stays true ...
LEMMA QuietFiles ==
  ASSUME Lineage, NoGaps, NoDirPath, Quiet
  PROVE  Lineage' /\ NoGaps' /\ NoDirPath'
  BY DEF Quiet, fsVars, Lineage, LinesPast, FilesPast, OnePlace, CopiesAgree,
         OriginalLongest, Akin, NoGaps, NoDirPath

\* ... and so does what is said of a reader ...
LEMMA QuietSound ==
  ASSUME Quiet, NEW r, Sound(r)
  PROVE  Sound(r)'
  BY DEF Quiet, fsVars, Sound, Kept, Promise, Covers, Buffered, StartsWith

\* What is stored, and is true in the next state, is so in the list.
LEMMA KeptNext ==
  ASSUME NEW fp, NEW off, Kept(fp, off)', NEW i
  PROVE  fp = persisted'[i].fp /\ off = persisted'[i].off =>
           Kept(persisted[i].fp, persisted[i].off)'
  BY DEF Kept, Promise, Covers, StartsWith

\* ... and of all of them, whichever the lists hold.
LEMMA QuietReaders ==
  ASSUME Quiet, persisted' = persisted, ReadersSound,
         \A i \in 1..Len(known') : Sound(known'[i]),
         \A i \in 1..Len(readers') : Sound(readers'[i]) /\ readers'[i].file \in Inodes
  PROVE  ReadersSound'
<1>1. ASSUME NEW i \in 1..Len(known') PROVE Sound(known[i])'
  <2>1. PICK s : s = known'[i]
    OBVIOUS
  <2>2. Sound(s)
    BY <2>1
  <2>3. Sound(s)'
    BY <2>2, QuietSound
  <2> QED
    BY <2>1, <2>3, SoundNext
<1>2. ASSUME NEW i \in 1..Len(readers')
      PROVE  Sound(readers[i])' /\ readers'[i].file \in Inodes
  <2>1. PICK s : s = readers'[i]
    OBVIOUS
  <2>2. Sound(s)
    BY <2>1
  <2>3. Sound(s)'
    BY <2>2, QuietSound
  <2> QED
    BY <2>1, <2>3, SoundNext
<1>3. \A i \in 1..Len(persisted') : Kept(persisted[i].fp, persisted[i].off)'
  BY DEF ReadersSound, Quiet, fsVars, Kept, Promise, Covers, StartsWith
<1> QED
  BY <1>1, <1>2, <1>3 DEF ReadersSound

\* Ageing, closing and starting to read.
LEMMA UpdatesSound ==
  ASSUME NEW r \in Reader, Sound(r)
  PROVE  /\ Sound(Aged(r)) /\ Aged(r).file = r.file
         /\ r.st # "reading" => Sound(Closed(r))
         /\ r.file \in Inodes => Sound(Reading(r)) /\ Reading(r).file = r.file
<1>1. NoFile \notin Inodes
  BY Numbers DEF NoFile, Inodes
<1> USE DEF Sound, Kept, Covers, Buffered
<1>2. Sound(Aged(r)) /\ Aged(r).file = r.file
  BY DEF Aged, Reader
<1>3. r.st # "reading" => Sound(Closed(r))
  BY <1>1 DEF Closed, Reader
<1>4. r.file \in Inodes => Sound(Reading(r)) /\ Reading(r).file = r.file
  BY DEF Reading, Reader
<1> QED
  BY <1>2, <1>3, <1>4

\* What comes from a checkpoint.
LEMMA LoadedSound ==
  ASSUME NEW p \in Encodings, Kept(p.fp, p.off)
  PROVE  Sound(Loaded(p))
<1>1. NoFile \notin Inodes
  BY Numbers DEF NoFile, Inodes
<1>2. Len(p.fp) \in Nat
  BY DEF Encodings, Bytes
<1> QED
  BY <1>1, <1>2 DEF Loaded, Sound, Buffered

\* A fingerprint that begins with a known one, of a file it is the beginning of.
LEMMA CopySound ==
  ASSUME Typing, NEW r \in Reader, Sound(r), NEW h \in Inodes, NEW fp \in Bytes,
         StartsWith(fp, r.fp), Beginning(fp, data[h])
  PROVE  Sound(CopyOf(r, h))
<1>1. /\ Len(r.fp) \in Nat /\ Len(fp) \in Nat /\ Len(data[h]) \in Nat
  BY DEF Reader, Bytes, Typing, TypeOK, FilesystemOK, Logs
<1>2. /\ Len(r.fp) # 0 /\ Len(r.fp) <= Len(data[h])
      /\ \A k \in 1..Len(r.fp) : data[h][k] = r.fp[k]
  BY <1>1 DEF StartsWith, Beginning
<1>3. StartsWith(data[h], r.fp)
  BY <1>2 DEF StartsWith
<1> QED
  BY <1>3 DEF CopyOf, Sound, Buffered

\* A reader from scratch, at the beginning of its file.
LEMMA FreshSound ==
  ASSUME Typing, Lineage, NEW h \in Inodes, NEW fp \in Bytes, fp # <<>>,
         Len(fp) <= FingerprintSize, Beginning(fp, data[h]),
         NEW r, r = [file |-> h, fp |-> fp, cap |-> FingerprintSize, off |-> 0,
                     gen |-> 0, st |-> "ready", buf |-> <<>>]
  PROVE  Sound(r)
<1>1. /\ Len(fp) \in Nat /\ Len(fp) > 0
      /\ \A i \in Inodes : Len(data[i]) \in Nat
  BY DEF Bytes, Typing, TypeOK, FilesystemOK, Logs
<1>2. StartsWith(data[h], fp)
  BY <1>1 DEF StartsWith, Beginning
<1>3. \A k \in 1..Len(fp) : fp[k] < nextLine
  <2>1. \A k \in 1..Len(fp) : k \in 1..Len(data[h]) /\ fp[k] = data[h][k]
    BY <1>1 DEF Beginning
  <2> QED
    BY <2>1 DEF Lineage, LinesPast
<1>4. Promise(fp, 0) /\ Covers(fp, 0)
  BY <1>1 DEF Promise, Covers
<1> QED
  BY <1>1, <1>2, <1>3, <1>4 DEF Sound, Kept, Buffered

-----------------------------------------------------------------------------
(* The steps of the operator *)

\* The lists of readers hold readers.
LEMMA ReaderTypes ==
  ASSUME Typing
  PROVE  /\ known \in Seq(Reader) /\ readers \in Seq(Reader) /\ persisted \in Seq(Encodings)
         /\ \A i \in 1..Len(known) : known[i] \in Reader
         /\ \A i \in 1..Len(readers) : readers[i] \in Reader
         /\ \A i \in 1..Len(persisted) : persisted[i] \in Encodings
         /\ Len(known) \in Nat /\ Len(readers) \in Nat /\ Len(persisted) \in Nat
         /\ nOld \in 0..Len(known)
  BY DEF Typing, TypeOK, ReadersOK

\* A sound reader is never resliced past its capacity.
LEMMA SoundNoPanic ==
  ASSUME NEW r \in Reader, Sound(r)
  PROVE  ~Panics(r)
<1>1. r.off \in Nat /\ r.cap \in Nat /\ Len(r.fp) \in Nat /\ FingerprintSize \in Nat
  BY Numbers DEF Reader, Bytes
<1> QED
  BY <1>1 DEF Panics, OutOfRange, Sound, Kept, Covers

\* No goroutine panics.
LEMMA NeverPanic ==
  ASSUME Typing, Delivering
  PROVE  ~Panic
<1>1. \A i \in 1..Len(known) : ~Panics(known[i])
  BY ReaderTypes, SoundNoPanic DEF Delivering, ReadersSound
<1>2. \A i \in 1..Len(readers) : ~Panics(readers[i])
  BY ReaderTypes, SoundNoPanic DEF Delivering, ReadersSound
<1> QED
  BY <1>1, <1>2 DEF Panic

\* Steps that touch none of the lists.
LEMMA IdleDelivers ==
  ASSUME Delivering, Quiet,
         UNCHANGED <<known, readers, persisted, nOld, files, unread, fps, panicked>>,
         phase' = phase \/ phase' # "lost"
  PROVE  Delivering'
<1>1. Lineage' /\ NoGaps' /\ NoDirPath'
  BY QuietFiles DEF Delivering
<1>2. ReadersSound'
  BY QuietReaders DEF Delivering, ReadersSound
<1>3. RollerSound'
  BY DEF Delivering, RollerSound, IsOld
<1>4. Paired'
  BY DEF Delivering, Paired, Quiet, fsVars, Beginning
<1> QED
  BY <1>1, <1>2, <1>3, <1>4 DEF Delivering

\* Start takes its readers from the checkpoint.
LEMMA StartDelivers ==
  ASSUME Typing, Delivering, Start
  PROVE  Delivering'
<1>1. /\ Quiet /\ phase' = "idle" /\ nOld' = 0 /\ readers' = <<>>
      /\ known' = [i \in 1..Len(persisted) |-> Loaded(persisted[i])]
      /\ UNCHANGED <<persisted, files, unread, fps, panicked>>
  BY DEF Start, Quiet, makeVars, Typing, Shape
<1>2. Lineage' /\ NoGaps' /\ NoDirPath'
  BY <1>1, QuietFiles DEF Delivering
<1>3. Len(known') = Len(persisted)
  BY <1>1, ReaderTypes
<1>4. ASSUME NEW i \in 1..Len(known') PROVE Sound(known'[i])
  <2>1. /\ i \in 1..Len(persisted) /\ known'[i] = Loaded(persisted[i])
        /\ persisted[i] \in Encodings
    BY <1>1, <1>3, ReaderTypes
  <2>2. Kept(persisted[i].fp, persisted[i].off)
    BY <2>1 DEF Delivering, ReadersSound
  <2> QED
    BY <2>1, <2>2, LoadedSound
<1>5. ReadersSound'
  BY <1>1, <1>4, QuietReaders DEF Delivering
<1>6. RollerSound'
  BY <1>1, <1>3, ReaderTypes DEF RollerSound, IsOld
<1>7. Paired'
  BY <1>1 DEF Delivering, Paired, Quiet, fsVars, Beginning
<1> QED
  BY <1>1, <1>2, <1>5, <1>6, <1>7 DEF Delivering

\* Stop and a crash forget every reader.
LEMMA StopDelivers ==
  ASSUME Typing, Delivering, Stopped \/ Crash
  PROVE  Delivering'
<1>1. /\ Quiet /\ phase' = "stopped" /\ nOld' = 0 /\ known' = <<>> /\ readers' = <<>>
      /\ files' = <<>> /\ unread' = <<>> /\ fps' = <<>>
      /\ UNCHANGED <<persisted, panicked>>
  BY DEF Stopped, Crash, Die, Quiet, makeVars, ghosts, Typing, Shape
<1>2. Lineage' /\ NoGaps' /\ NoDirPath'
  BY <1>1, QuietFiles DEF Delivering
<1>3. ReadersSound'
  BY <1>1, QuietReaders DEF Delivering
<1>4. RollerSound' /\ Paired'
  BY <1>1 DEF RollerSound, Paired
<1> QED
  BY <1>1, <1>2, <1>3, <1>4 DEF Delivering

\* A poll begins: the readers get a generation older.
LEMMA ListingDelivers ==
  ASSUME Typing, Delivering, PollListing
  PROVE  Delivering'
<1>1. /\ Quiet /\ phase' = "make"
      /\ known' = [i \in 1..Len(known) |-> Aged(known[i])]
      /\ UNCHANGED <<persisted, panicked, readers, nOld, files, unread, fps>>
  BY DEF PollListing, Quiet, ghosts
<1>2. Lineage' /\ NoGaps' /\ NoDirPath'
  BY <1>1, QuietFiles DEF Delivering
<1>3. Len(known') = Len(known)
  BY <1>1, ReaderTypes
<1>4. ASSUME NEW i \in 1..Len(known')
      PROVE  Sound(known'[i]) /\ known'[i].file = known[i].file
  <2>1. i \in 1..Len(known) /\ known'[i] = Aged(known[i]) /\ known[i] \in Reader
    BY <1>1, <1>3, ReaderTypes
  <2> QED
    BY <2>1, UpdatesSound DEF Delivering, ReadersSound
<1>5. ReadersSound'
  BY <1>1, <1>4, QuietReaders DEF Delivering, ReadersSound
<1>6. RollerSound'
  BY <1>1, <1>3, <1>4 DEF Delivering, RollerSound, IsOld
<1>7. Paired'
  BY <1>1 DEF Delivering, Paired, Quiet, fsVars, Beginning
<1> QED
  BY <1>1, <1>2, <1>5, <1>6, <1>7 DEF Delivering

\* A goroutine is started for every reader of the poll.
LEMMA StartReadingDelivers ==
  ASSUME Typing, Delivering, StartReading
  PROVE  Delivering'
<1>1. /\ Quiet /\ phase' = "read"
      /\ readers' = [i \in 1..Len(readers) |-> Reading(readers[i])]
      /\ unread = <<>> /\ fps = <<>> /\ files' = <<>>
      /\ UNCHANGED <<persisted, panicked, known, nOld, unread, fps>>
  BY DEF StartReading, Quiet, ghosts
<1>2. Lineage' /\ NoGaps' /\ NoDirPath'
  BY <1>1, QuietFiles DEF Delivering
<1>3. Len(readers') = Len(readers)
  BY <1>1, ReaderTypes
<1>4. ASSUME NEW i \in 1..Len(readers')
      PROVE  Sound(readers'[i]) /\ readers'[i].file \in Inodes
  <2>1. i \in 1..Len(readers) /\ readers'[i] = Reading(readers[i]) /\ readers[i] \in Reader
    BY <1>1, <1>3, ReaderTypes
  <2> QED
    BY <2>1, UpdatesSound DEF Delivering, ReadersSound
<1>5. ReadersSound'
  BY <1>1, <1>4, QuietReaders DEF Delivering, ReadersSound
<1>6. RollerSound'
  BY <1>1 DEF Delivering, RollerSound, IsOld
<1>7. Paired'
  BY <1>1 DEF Paired
<1> QED
  BY <1>1, <1>2, <1>5, <1>6, <1>7 DEF Delivering

\* A goroutine is started for every lost reader, whose file is still open.
LEMMA RollDelivers ==
  ASSUME Typing, Delivering, Roll
  PROVE  Delivering'
<1>1. /\ Quiet /\ phase' = "lost"
      /\ known' = [i \in 1..Len(known) |->
                     IF IsLost(i) THEN Reading(known[i]) ELSE known[i]]
      /\ \A i \in 1..Len(readers) : readers[i].st = "done"
      /\ UNCHANGED <<persisted, panicked, readers, nOld, files, unread, fps>>
  BY DEF Roll, Quiet, ghosts, makeVars
<1>2. Lineage' /\ NoGaps' /\ NoDirPath'
  BY <1>1, QuietFiles DEF Delivering
<1>3. Len(known') = Len(known)
  BY <1>1, ReaderTypes
<1>4. ASSUME NEW i \in 1..Len(known')
      PROVE  Sound(known'[i]) /\ known'[i].file = known[i].file
  <2>1. /\ i \in 1..Len(known) /\ known[i] \in Reader /\ Sound(known[i])
        /\ known'[i] = IF IsLost(i) THEN Reading(known[i]) ELSE known[i]
    BY <1>1, <1>3, ReaderTypes DEF Delivering, ReadersSound
  <2>2. IsLost(i) => known[i].file \in Inodes
    BY <2>1 DEF IsLost, Delivering, RollerSound
  <2> QED
    BY <2>1, <2>2, UpdatesSound
<1>5. ReadersSound'
  BY <1>1, <1>4, QuietReaders DEF Delivering, ReadersSound
<1>6. RollerSound'
  BY <1>1, <1>3, <1>4 DEF Delivering, RollerSound, IsOld
<1>7. Paired'
  BY <1>1 DEF Delivering, Paired, Quiet, fsVars, Beginning
<1> QED
  BY <1>1, <1>2, <1>5, <1>6, <1>7 DEF Delivering

\* The lists of makeReaders.
LEMMA MakeTypes ==
  ASSUME Typing
  PROVE  /\ matches \in Seq(Paths) /\ files \in Seq(Handles) /\ unread \in Seq(Handles)
         /\ fps \in Seq(Bytes)
         /\ Len(files) \in Nat /\ Len(unread) \in Nat /\ Len(fps) \in Nat
  BY DEF Typing, TypeOK, MakeReadersOK

\* A file is opened: it is last in files, and last of those to be fingerprinted.
LEMMA OpenPaired ==
  ASSUME Typing, Delivering, OpenFile
  PROVE  Paired'
<1>1. data' = data /\ fps' = fps /\ matches # <<>>
  BY DEF OpenFile, fsVars
<1>2. CASE files' = files /\ unread' = unread
  BY <1>1, <1>2 DEF Delivering, Paired, Beginning
<1>3. CASE /\ fs[Head(matches)] # NoFile
           /\ files' = Append(files, fs[Head(matches)])
           /\ unread' = Append(unread, fs[Head(matches)])
  <2>1. fs[Head(matches)] \in Handles /\ fs[Head(matches)] # Dir
    <3>1. Head(matches) \in Paths
      BY <1>1, MakeTypes
    <3> QED
      BY <3>1 DEF Delivering, NoDirPath, Typing, TypeOK, FilesystemOK
  <2>2. fs[Head(matches)] \in Inodes
    BY <1>3, <2>1, Numbers DEF Handles, Dir, NoFile, Inodes
  <2>3. /\ Len(files') = Len(files) + 1
        /\ \A n \in 1..Len(files) : files'[n] = files[n]
        /\ files'[Len(files) + 1] = fs[Head(matches)]
    BY <1>3, <2>1, MakeTypes, AppendProperties
  <2>4. /\ Len(unread') = Len(unread) + 1
        /\ \A n \in 1..Len(unread) : unread'[n] = unread[n]
        /\ unread'[Len(unread) + 1] = fs[Head(matches)]
    BY <1>3, <2>1, MakeTypes, AppendProperties
  <2>5. /\ Len(files) = Len(fps) + Len(unread)
        /\ \A n \in 1..Len(files) : files[n] \in Inodes
        /\ \A n \in 1..Len(unread) : unread[n] = files[Len(fps) + n]
        /\ \A n \in 1..Len(fps) : Beginning(fps[n], data[files[n]])
        /\ Len(files) \in Nat /\ Len(unread) \in Nat /\ Len(fps) \in Nat
    BY MakeTypes DEF Delivering, Paired
  <2>6. Len(files') = Len(fps') + Len(unread')
    BY <1>1, <2>3, <2>4, <2>5
  <2>7. ASSUME NEW n \in 1..Len(files') PROVE files'[n] \in Inodes
    <3>1. n \in 1..Len(files) \/ n = Len(files) + 1
      BY <2>3, <2>5
    <3> QED
      BY <2>2, <2>3, <2>5, <3>1
  <2>8. ASSUME NEW n \in 1..Len(unread') PROVE unread'[n] = files'[Len(fps') + n]
    <3>1. CASE n = Len(unread) + 1
      <4>1. Len(fps) + n = Len(files) + 1
        BY <2>5, <3>1
      <4> QED
        BY <1>1, <2>3, <2>4, <3>1, <4>1
    <3>2. CASE n \in 1..Len(unread)
      <4>1. Len(fps) + n \in 1..Len(files)
        BY <2>5, <3>2
      <4> QED
        BY <1>1, <2>3, <2>4, <2>5, <3>2, <4>1
    <3> QED
      BY <2>4, <2>5, <3>1, <3>2
  <2>9. ASSUME NEW n \in 1..Len(fps') PROVE Beginning(fps'[n], data'[files'[n]])
    <3>1. n \in 1..Len(fps) /\ n \in 1..Len(files)
      BY <1>1, <2>5
    <3>2. fps'[n] = fps[n] /\ data'[files'[n]] = data[files[n]]
      BY <1>1, <2>3, <3>1
    <3> QED
      BY <2>5, <3>1, <3>2
  <2> QED
    BY <2>6, <2>7, <2>8, <2>9 DEF Paired, Beginning
<1> QED
  BY <1>2, <1>3 DEF OpenFile

\* The next file is fingerprinted.
LEMMA FingerprintPaired ==
  ASSUME Typing, Delivering, NewFingerprint
  PROVE  Paired'
<1>1. data' = data /\ files' = files /\ unread # <<>> /\ unread' = Tail(unread)
  BY DEF NewFingerprint, fsVars
<1>2. /\ Len(files) = Len(fps) + Len(unread)
      /\ \A n \in 1..Len(files) : files[n] \in Inodes
      /\ \A n \in 1..Len(unread) : unread[n] = files[Len(fps) + n]
      /\ \A n \in 1..Len(fps) : Beginning(fps[n], data[files[n]])
      /\ Len(files) \in Nat /\ Len(unread) \in Nat /\ Len(fps) \in Nat
  BY MakeTypes DEF Delivering, Paired
<1>3. 1 \in 1..Len(unread) /\ Head(unread) = unread[1]
  BY <1>1, MakeTypes
<1>4. Len(fps) + 1 \in 1..Len(files)
  BY <1>2, <1>3
<1>5. Head(unread) = files[Len(fps) + 1] /\ Head(unread) \in Inodes
  BY <1>2, <1>3, <1>4
<1> DEFINE c  == data[Head(unread)]
           fp == First(c, FingerprintSize)
<1>6. fps' = Append(fps, fp)
  BY <1>5, FilesNotDir DEF NewFingerprint, Contents
<1>7. c \in Seq(Lines) /\ Len(c) \in Nat /\ FingerprintSize \in Nat
  BY <1>5, Numbers DEF Typing, TypeOK, FilesystemOK, Logs
<1>8. fp \in Seq(Lines) /\ Beginning(fp, c)
  BY <1>7, FirstType DEF Beginning, Least
<1> HIDE DEF c, fp
<1>9. fp \in Bytes
  BY <1>8, LinesAreCells DEF Logs
<1>10. /\ Len(fps') = Len(fps) + 1
       /\ \A n \in 1..Len(fps) : fps'[n] = fps[n]
       /\ fps'[Len(fps) + 1] = fp
  BY <1>6, <1>9, MakeTypes, AppendProperties
<1>11. /\ Len(unread') = Len(unread) - 1
       /\ \A n \in 1..Len(unread') : unread'[n] = unread[n + 1]
  BY <1>1, MakeTypes
<1>12. Len(files') = Len(fps') + Len(unread')
  BY <1>1, <1>2, <1>10, <1>11
<1>13. ASSUME NEW n \in 1..Len(unread') PROVE unread'[n] = files'[Len(fps') + n]
  <2>1. n + 1 \in 1..Len(unread) /\ Len(fps') + n = Len(fps) + (n + 1)
    BY <1>2, <1>10, <1>11
  <2> QED
    BY <1>1, <1>2, <1>11, <2>1
<1>14. ASSUME NEW n \in 1..Len(fps') PROVE Beginning(fps'[n], data'[files'[n]])
  <2>1. CASE n \in 1..Len(fps)
    BY <1>1, <1>2, <1>10, <2>1
  <2>2. CASE n = Len(fps) + 1
    <3>1. fps'[n] = fp /\ data'[files'[n]] = c
      BY <1>1, <1>5, <1>10, <2>2 DEF c
    <3> QED
      BY <1>8, <3>1
  <2> QED
    BY <1>2, <1>10, <2>1, <2>2
<1> QED
  BY <1>1, <1>2, <1>12, <1>13, <1>14 DEF Paired, Beginning

\* The first pair leaves both lists.
LEMMA TailPaired ==
  ASSUME Typing, Delivering, data' = data, unread = <<>>, fps # <<>>, unread' = unread,
         files' = Tail(files), fps' = Tail(fps)
  PROVE  /\ Paired' /\ files # <<>>
         /\ Head(files) \in Inodes /\ Head(fps) \in Bytes
         /\ Beginning(Head(fps), data[Head(files)])
<1>1. /\ Len(files) = Len(fps)
      /\ \A n \in 1..Len(files) : files[n] \in Inodes
      /\ \A n \in 1..Len(fps) : Beginning(fps[n], data[files[n]])
      /\ Len(files) \in Nat
  BY MakeTypes DEF Delivering, Paired
<1>2. fps \in Seq(Bytes) /\ files \in Seq(Handles)
  BY MakeTypes
<1>3. /\ Len(fps') = Len(fps) - 1 /\ Len(fps) > 0
      /\ \A n \in 1..Len(fps') : fps'[n] = fps[n + 1]
  BY <1>2
<1>4. files # <<>>
  BY <1>1, <1>2, <1>3
<1>5. /\ Len(files') = Len(files) - 1
      /\ \A n \in 1..Len(files') : files'[n] = files[n + 1]
  BY <1>2, <1>4
<1>6. Head(files) = files[1] /\ Head(fps) = fps[1] /\ fps[1] \in Bytes
  BY <1>1, <1>2, <1>3, <1>4
<1>7. Head(files) \in Inodes /\ Head(fps) \in Bytes /\ Beginning(Head(fps), data[Head(files)])
  BY <1>1, <1>3, <1>6
<1>8. \A n \in 1..Len(files') : n + 1 \in 1..Len(files) /\ n + 1 \in 1..Len(fps)
  BY <1>1, <1>5
<1>9. \A n \in 1..Len(fps') : n \in 1..Len(files')
  BY <1>1, <1>3, <1>5
<1>10. \A n \in 1..Len(fps') : Beginning(fps'[n], data'[files'[n]])
  BY <1>1, <1>3, <1>5, <1>8, <1>9
<1>11. Len(files') = Len(fps') + Len(unread')
  BY <1>1, <1>3, <1>5
<1>12. \A n \in 1..Len(files') : files'[n] \in Inodes
  BY <1>1, <1>5, <1>8
<1> QED
  BY <1>4, <1>7, <1>10, <1>11, <1>12 DEF Paired, Beginning

\* Opening, fingerprinting and dropping a copy.
LEMMA OpenDelivers ==
  ASSUME Typing, Delivering, OpenFile \/ NewFingerprint \/ ExcludeFile
  PROVE  Delivering'
<1>1. /\ Quiet /\ phase' = phase
      /\ UNCHANGED <<persisted, panicked, known, readers, nOld>>
  BY DEF OpenFile, NewFingerprint, ExcludeFile, Quiet, ghosts
<1>2. Lineage' /\ NoGaps' /\ NoDirPath'
  BY <1>1, QuietFiles DEF Delivering
<1>3. ReadersSound'
  BY <1>1, QuietReaders DEF Delivering, ReadersSound
<1>4. RollerSound'
  BY <1>1 DEF Delivering, RollerSound, IsOld
<1>5. ASSUME ExcludeFile PROVE Paired'
  <2>1. /\ data' = data /\ unread = <<>> /\ fps # <<>> /\ unread' = unread
        /\ files' = Tail(files) /\ fps' = Tail(fps)
    BY <1>5 DEF ExcludeFile, Pairing, fsVars
  <2> QED
    BY <2>1, TailPaired
<1>6. Paired'
  BY <1>5, OpenPaired, FingerprintPaired
<1> QED
  BY <1>1, <1>2, <1>3, <1>4, <1>6 DEF Delivering

\* A reader for the first pair: a copy of a known one, or one from scratch.
LEMMA NewReaderDelivers ==
  ASSUME Typing, AllSmall, Undisturbed, Delivering, MatchedReader \/ FreshReader
  PROVE  Delivering'
<1>1. /\ Quiet /\ phase' = phase
      /\ UNCHANGED <<persisted, panicked, known, nOld, unread, data>>
      /\ unread = <<>> /\ fps # <<>> /\ ~Excluded
      /\ files' = Tail(files) /\ fps' = Tail(fps)
      /\ phase = "make"
  BY DEF MatchedReader, FreshReader, Pairing, Quiet, ghosts, fsVars
<1>2. Lineage' /\ NoGaps' /\ NoDirPath'
  BY <1>1, QuietFiles DEF Delivering
<1>3. /\ Paired' /\ files # <<>>
      /\ Head(files) \in Inodes /\ Head(fps) \in Bytes
      /\ Beginning(Head(fps), data[Head(files)])
  BY <1>1, TailPaired
<1>4. Head(fps) # <<>> /\ Len(Head(fps)) <= FingerprintSize
  <2>1. Head(fps) = fps[1] /\ 1 \in 1..Len(fps)
    BY <1>1, MakeTypes
  <2> QED
    BY <1>1, <2>1 DEF Excluded, AllSmall, SmallStored
<1>5. PICK r : /\ readers' = Append(readers, r) /\ r \in Reader
               /\ Sound(r) /\ r.file \in Inodes
  <2>1. CASE MatchedReader
    <3>1. PICK i \in 1..Len(known) :
            /\ findFingerprintMatch(i)
            /\ readers' = Append(readers, CopyOf(known[i], Head(files)))
      BY <2>1 DEF MatchedReader
    <3>2. StartsWith(Head(fps), known[i].fp)
      BY <3>1 DEF findFingerprintMatch, Matching
    <3>3. known[i] \in Reader /\ Sound(known[i])
      BY ReaderTypes DEF Delivering, ReadersSound
    <3>4. Sound(CopyOf(known[i], Head(files))) /\ CopyOf(known[i], Head(files)).file \in Inodes
      BY <1>3, <3>2, <3>3, CopySound DEF CopyOf
    <3>5. CopyOf(known[i], Head(files)) \in Reader
      BY <1>3, <3>3, Empty DEF CopyOf, Reader
    <3> QED
      BY <3>1, <3>4, <3>5
  <2>2. CASE FreshReader
    <3> DEFINE r == [file |-> Head(files), fp |-> Head(fps), cap |-> FingerprintSize,
                     off |-> 0, gen |-> 0, st |-> "ready", buf |-> <<>>]
    <3>1. readers' = Append(readers, r)
      BY <2>2 DEF FreshReader, InitializeOffset, Undisturbed
    <3>2. Sound(r)
      BY <1>3, <1>4, FreshSound DEF Delivering
    <3>3. r \in Reader /\ r.file \in Inodes
      BY <1>3, Empty, Numbers DEF Reader
    <3> QED
      BY <3>1, <3>2, <3>3
  <2> QED
    BY <2>1, <2>2
<1>6. /\ Len(readers') = Len(readers) + 1
      /\ \A i \in 1..Len(readers) : readers'[i] = readers[i]
      /\ readers'[Len(readers) + 1] = r
  BY <1>5, ReaderTypes, AppendProperties
<1>7. ASSUME NEW i \in 1..Len(readers')
      PROVE  Sound(readers'[i]) /\ readers'[i].file \in Inodes
  <2>1. i \in 1..Len(readers) \/ i = Len(readers) + 1
    BY <1>6, ReaderTypes
  <2> QED
    BY <1>5, <1>6, <2>1 DEF Delivering, ReadersSound
<1>8. ReadersSound'
  BY <1>1, <1>7, QuietReaders DEF Delivering, ReadersSound
<1>9. RollerSound'
  BY <1>1 DEF Delivering, RollerSound, IsOld
<1> QED
  BY <1>1, <1>2, <1>3, <1>8, <1>9 DEF Delivering

\* A turn of a reader of this poll, or of a lost one.
LEMMA TurnDelivers ==
  ASSUME Typing, AllSmall, Delivering, NEW r \in Reader, Sound(r), Small(r),
         r.st = "reading", emit(r), UNCHANGED <<fsVars, persisted>>,
         NEW s, s = Scanned(r)
  PROVE  /\ Lineage' /\ NoGaps' /\ NoDirPath'
         /\ Sound(s)' /\ s.file = r.file
         /\ \A i \in 1..Len(persisted') : Kept(persisted[i].fp, persisted[i].off)'
         /\ \A i \in 1..Len(known) : known'[i] = known[i] => Sound(known[i])'
         /\ \A i \in 1..Len(readers) : readers'[i] = readers[i] => Sound(readers[i])'
<1>1. /\ data' = data /\ archives' = archives /\ nextLine' = nextLine
      /\ nextIno' = nextIno /\ fs' = fs /\ persisted' = persisted
  BY DEF fsVars
<1>2. TypeOK /\ Lineage /\ NoGaps
  BY DEF Typing, Delivering
<1>3. Lineage' /\ NoGaps'
  BY <1>1, <1>2, TurnDelivery
<1>4. NoDirPath'
  BY <1>1 DEF Delivering, NoDirPath
<1>5. Sound(s)' /\ s.file = r.file
  BY <1>1, <1>2, ScannedSound
<1>6. \A l \in Lines : emitted[l] > 0 => emitted'[l] > 0
  BY <1>2, Emits
<1>7. ASSUME NEW x, Sound(x) PROVE Sound(x)'
  BY <1>1, <1>2, <1>6, <1>7, SoundKept
<1>8. ASSUME NEW i \in 1..Len(persisted') PROVE Kept(persisted[i].fp, persisted[i].off)'
  <2>1. PICK fp, off : fp = persisted[i].fp /\ off = persisted[i].off
    OBVIOUS
  <2>2. Kept(fp, off)
    BY <1>1, <2>1 DEF Delivering, ReadersSound
  <2>3. Promise(fp, off)'
    BY <1>1, <1>2, <1>6, <2>2, PromiseKept DEF Kept
  <2>4. Kept(fp, off)'
    BY <1>1, <2>2, <2>3 DEF Kept, Covers
  <2> QED
    BY <1>1, <2>1, <2>4, KeptNext
<1>9. ASSUME NEW i \in 1..Len(known), known'[i] = known[i] PROVE Sound(known[i])'
  <2>1. PICK x : x = known[i]
    OBVIOUS
  <2>2. Sound(x)
    BY <2>1 DEF Delivering, ReadersSound
  <2> QED
    BY <1>7, <1>9, <2>1, <2>2, SoundNext
<1>10. ASSUME NEW i \in 1..Len(readers), readers'[i] = readers[i] PROVE Sound(readers[i])'
  <2>1. PICK x : x = readers[i]
    OBVIOUS
  <2>2. Sound(x)
    BY <2>1 DEF Delivering, ReadersSound
  <2> QED
    BY <1>7, <1>10, <2>1, <2>2, SoundNext
<1> QED
  BY <1>3, <1>4, <1>5, <1>8, <1>9, <1>10

\* A reader of this poll reads.
LEMMA ReadDelivers ==
  ASSUME Typing, AllSmall, Delivering, NEW n \in 1..Len(readers), ReadToEnd(n)
  PROVE  Delivering'
<1>1. /\ readers[n].st = "reading" /\ emit(readers[n]) /\ phase = "read"
      /\ readers' = [readers EXCEPT ![n] = Scanned(readers[n])]
      /\ UNCHANGED <<fsVars, persisted>>
      /\ UNCHANGED <<phase, panicked, known, nOld, files, unread, fps>>
  BY DEF ReadToEnd, ghosts, makeVars
<1>2. PICK r, s : r = readers[n] /\ s = Scanned(r)
  OBVIOUS
<1>3. /\ r \in Reader /\ Sound(r) /\ Small(r) /\ r.st = "reading" /\ emit(r)
      /\ r.file \in Inodes
  BY <1>1, <1>2, ReaderTypes DEF Delivering, ReadersSound, AllSmall, SmallReaders
<1>4. /\ Lineage' /\ NoGaps' /\ NoDirPath'
      /\ Sound(s)' /\ s.file = r.file
      /\ \A i \in 1..Len(persisted') : Kept(persisted[i].fp, persisted[i].off)'
      /\ \A i \in 1..Len(known) : known'[i] = known[i] => Sound(known[i])'
      /\ \A i \in 1..Len(readers) : readers'[i] = readers[i] => Sound(readers[i])'
  BY <1>1, <1>2, <1>3, TurnDelivers
<1>5. /\ Len(readers') = Len(readers) /\ readers'[n] = s
      /\ \A i \in 1..Len(readers) : i # n => readers'[i] = readers[i]
  BY <1>1, <1>2, ReaderTypes
<1>6. ASSUME NEW i \in 1..Len(readers')
      PROVE  Sound(readers[i])' /\ readers'[i].file \in Inodes
  <2>1. CASE i = n
    BY <1>3, <1>4, <1>5, <2>1, SoundNext
  <2>2. CASE i # n
    BY <1>4, <1>5, <2>2 DEF Delivering, ReadersSound
  <2> QED
    BY <2>1, <2>2
<1>7. \A i \in 1..Len(known') : Sound(known[i])'
  BY <1>1, <1>4
<1>8. ReadersSound'
  BY <1>4, <1>6, <1>7 DEF ReadersSound
<1>9. RollerSound'
  BY <1>1 DEF Delivering, RollerSound, IsOld
<1>10. Paired'
  BY <1>1 DEF Delivering, Paired, fsVars, Beginning
<1> QED
  BY <1>1, <1>4, <1>8, <1>9, <1>10 DEF Delivering

\* A lost reader is drained.
LEMMA LostDelivers ==
  ASSUME Typing, AllSmall, Delivering, NEW n \in 1..Len(known), ReadLost(n)
  PROVE  Delivering'
<1>1. /\ known[n].st = "reading" /\ emit(known[n])
      /\ known' = [known EXCEPT ![n] = Scanned(known[n])]
      /\ UNCHANGED <<fsVars, persisted>>
      /\ UNCHANGED <<phase, panicked, readers, nOld, files, unread, fps>>
  BY DEF ReadLost, ghosts, makeVars
<1>2. PICK r, s : r = known[n] /\ s = Scanned(r)
  OBVIOUS
<1>3. r \in Reader /\ Sound(r) /\ Small(r) /\ r.st = "reading" /\ emit(r)
  BY <1>1, <1>2, ReaderTypes DEF Delivering, ReadersSound, AllSmall, SmallReaders
<1>4. /\ Lineage' /\ NoGaps' /\ NoDirPath'
      /\ Sound(s)' /\ s.file = r.file
      /\ \A i \in 1..Len(persisted') : Kept(persisted[i].fp, persisted[i].off)'
      /\ \A i \in 1..Len(known) : known'[i] = known[i] => Sound(known[i])'
      /\ \A i \in 1..Len(readers) : readers'[i] = readers[i] => Sound(readers[i])'
  BY <1>1, <1>2, <1>3, TurnDelivers
<1>5. /\ Len(known') = Len(known) /\ known'[n] = s
      /\ \A i \in 1..Len(known) : i # n => known'[i] = known[i]
      /\ \A i \in 1..Len(known) : known'[i].file = known[i].file
  BY <1>1, <1>2, <1>4, ReaderTypes
<1>6. ASSUME NEW i \in 1..Len(known') PROVE Sound(known[i])'
  <2>1. CASE i = n
    BY <1>4, <1>5, <2>1, SoundNext
  <2>2. CASE i # n
    BY <1>4, <1>5, <2>2
  <2> QED
    BY <2>1, <2>2
<1>7. \A i \in 1..Len(readers') : Sound(readers[i])' /\ readers'[i].file \in Inodes
  BY <1>1, <1>4 DEF Delivering, ReadersSound
<1>8. ReadersSound'
  BY <1>4, <1>6, <1>7 DEF ReadersSound
<1>9. RollerSound'
  BY <1>1, <1>5 DEF Delivering, RollerSound, IsOld
<1>10. Paired'
  BY <1>1 DEF Delivering, Paired, fsVars, Beginning
<1> QED
  BY <1>1, <1>4, <1>8, <1>9, <1>10 DEF Delivering

\* What a poll leaves behind, and what is stored of it.
LEMMA SaveDelivers ==
  ASSUME Typing, Delivering, SaveCurrent
  PROVE  Delivering'
<1>1. /\ Quiet /\ phase = "lost" /\ phase' = "idle"
      /\ \A i \in 1..Len(known) : known[i].st = "done"
      /\ nOld' = (IF DetectLost THEN Len(readers) ELSE 0) /\ readers' = <<>>
      /\ UNCHANGED <<panicked, files, unread, fps>>
  BY DEF SaveCurrent, Quiet, makeVars
<1>2. PICK k \in 1..(Len(Rolled) + 1) :
        /\ \A j \in 1..(k - 1) : Rolled[j].gen > MaxGeneration
        /\ known' = KeptFrom(k)
  BY DEF SaveCurrent
<1>3. /\ known' \in Seq(Reader) /\ Len(readers) <= Len(known')
      /\ \E d \in 0..Len(Rolled) :
           /\ Len(known') = Len(Rolled) - d
           /\ \A i \in 1..Len(known') : known'[i] = Rolled[i + d]
  BY <1>2, KeptType
<1>4. PICK d \in 0..Len(Rolled) :
        /\ Len(known') = Len(Rolled) - d
        /\ \A i \in 1..Len(known') : known'[i] = Rolled[i + d]
  BY <1>3
<1>5. /\ Len(Rolled) = Len(known) + Len(readers)
      /\ Len(known) \in Nat /\ Len(readers) \in Nat
  BY RolledType, ReaderTypes
<1>6. ASSUME NEW i \in 1..Len(Rolled)
      PROVE  /\ Sound(Rolled[i])
             /\ DetectLost /\ i > Len(known) => Rolled[i].file \in Inodes
  <2>1. CASE i <= Len(known)
    <3>1. i \in 1..Len(known)
      BY <1>5, <2>1
    <3>2. known[i] \in Reader /\ Sound(known[i]) /\ known[i].st # "reading"
      BY <1>1, <3>1, ReaderTypes DEF Delivering, ReadersSound
    <3>3. Rolled[i] = known[i] \/ Rolled[i] = Closed(known[i])
      BY <3>1, RolledType
    <3> QED
      BY <1>5, <2>1, <3>2, <3>3, UpdatesSound
  <2>2. CASE i > Len(known)
    <3>1. i - Len(known) \in 1..Len(readers) /\ Len(known) + (i - Len(known)) = i
      BY <1>5, <2>2
    <3>2. PICK j \in 1..Len(readers) : i = Len(known) + j
      BY <3>1
    <3>3. /\ readers[j] \in Reader /\ Sound(readers[j]) /\ readers[j].file \in Inodes
          /\ readers[j].st # "reading"
      BY <1>1, ReaderTypes DEF Delivering, ReadersSound, RollerSound
    <3>4. Rolled[i] = IF DetectLost THEN readers[j] ELSE Closed(readers[j])
      BY <3>2, RolledType
    <3> QED
      BY <3>3, <3>4, UpdatesSound
  <2> QED
    BY <1>5, <2>1, <2>2
<1>7. ASSUME NEW i \in 1..Len(known')
      PROVE  /\ Sound(known'[i])
             /\ DetectLost /\ i > Len(known') - Len(readers) => known'[i].file \in Inodes
  <2>1. /\ i + d \in 1..Len(Rolled) /\ known'[i] = Rolled[i + d]
        /\ i > Len(known') - Len(readers) => i + d > Len(known)
    BY <1>4, <1>5
  <2> QED
    BY <1>6, <2>1
<1>8. Lineage' /\ NoGaps' /\ NoDirPath'
  BY <1>1, QuietFiles DEF Delivering
<1>9. ASSUME NEW i \in 1..Len(known') PROVE Sound(known[i])'
  <2>1. PICK s : s = known'[i]
    OBVIOUS
  <2>2. Sound(s)
    BY <1>7, <2>1
  <2> QED
    BY <1>1, <2>1, <2>2, QuietSound, SoundNext
<1>10. ASSUME NEW i \in 1..Len(persisted') PROVE Kept(persisted[i].fp, persisted[i].off)'
  <2>1. CASE persisted' = persisted
    BY <1>1, <2>1 DEF Delivering, ReadersSound, Quiet, fsVars, Kept, Promise, Covers, StartsWith
  <2>2. CASE persisted' = [j \in 1..Len(known') |-> Encoded(known'[j])]
    <3>1. Len(persisted') = Len(known')
      BY <1>3, <2>2
    <3>2. PICK s : s = known'[i]
      OBVIOUS
    <3>3. persisted'[i].fp = s.fp /\ persisted'[i].off = s.off
      BY <2>2, <3>1, <3>2 DEF Encoded
    <3>4. Sound(s)
      BY <1>7, <3>1, <3>2
    <3>5. Kept(s.fp, s.off)'
      BY <1>1, <3>4, QuietSound DEF Sound
    <3> QED
      BY <3>3, <3>5, KeptNext
  <2> QED
    BY <2>1, <2>2 DEF SaveCurrent
<1>11. ReadersSound'
  BY <1>1, <1>9, <1>10 DEF ReadersSound
<1>12. RollerSound'
  <2>1. ASSUME DetectLost, NEW i \in 1..Len(known'), i > Len(known') - nOld'
        PROVE  known'[i].file \in Inodes
    BY <1>1, <1>7, <2>1
  <2> QED
    BY <1>1, <2>1 DEF RollerSound, IsOld
<1>13. Paired'
  BY <1>1 DEF Delivering, Paired, Quiet, fsVars, Beginning
<1> QED
  BY <1>1, <1>8, <1>11, <1>12, <1>13 DEF Delivering

\* The filesystem changes underneath the operator.
LEMMA FilesystemDelivers ==
  ASSUME Typing, Undisturbed, Delivering, Filesystem
  PROVE  Delivering'
<1>1. /\ Lineage' /\ NoGaps' /\ NoDirPath' /\ Grows
      /\ nextLine <= nextLine' /\ UNCHANGED opVars
  BY FilesystemLineage DEF Delivering
<1>2. UNCHANGED <<known, readers, persisted, nOld, files, unread, fps, panicked, phase>>
  BY <1>1 DEF opVars, makeVars
<1>3. Typing' /\ Lineage
  BY FilesystemTyping DEF Delivering
<1>4. ASSUME NEW fp \in Bytes, NEW off \in Nat, Kept(fp, off) PROVE Kept(fp, off)'
  <2>1. Promise(fp, off)'
    BY <1>3, <1>4, FilesystemPromise
  <2>2. /\ \A k \in 1..Len(fp) : fp[k] \in Nat
        /\ nextLine \in Nat /\ nextLine' \in Nat
    BY <1>3, Numbers DEF Bytes, Cells, Typing, TypeOK, FilesystemOK
  <2> QED
    BY <1>1, <1>4, <2>1, <2>2 DEF Kept, Covers
<1>5. ASSUME NEW r \in Reader, Sound(r) PROVE Sound(r)'
  <2>1. Kept(r.fp, r.off) /\ r.fp \in Bytes /\ r.off \in Nat
    BY <1>5 DEF Sound, Reader
  <2>2. PICK fp \in Bytes, off \in Nat : fp = r.fp /\ off = r.off
    BY <2>1
  <2>3. Promise(fp, off)'
    BY <1>3, <2>1, <2>2, FilesystemPromise
  <2>4. Promise(r.fp, r.off)'
    BY <2>2, <2>3
  <2> QED
    BY <1>1, <1>3, <1>5, <2>4, SoundGrows
<1>6. ASSUME NEW i \in 1..Len(known') PROVE Sound(known[i])'
  <2>1. PICK s \in Reader : s = known[i] /\ s = known'[i]
    BY <1>2, ReaderTypes
  <2>2. Sound(s)
    BY <1>2, <2>1 DEF Delivering, ReadersSound
  <2> QED
    BY <1>5, <2>1, <2>2, SoundNext
<1>7. ASSUME NEW i \in 1..Len(readers') PROVE Sound(readers[i])' /\ readers'[i].file \in Inodes
  <2>1. PICK s \in Reader : s = readers[i] /\ s = readers'[i]
    BY <1>2, ReaderTypes
  <2>2. Sound(s) /\ s.file \in Inodes
    BY <1>2, <2>1 DEF Delivering, ReadersSound
  <2> QED
    BY <1>5, <2>1, <2>2, SoundNext
<1>8. ASSUME NEW i \in 1..Len(persisted') PROVE Kept(persisted[i].fp, persisted[i].off)'
  <2>1. persisted[i] \in Encodings
    BY <1>2, ReaderTypes
  <2>2. PICK fp \in Bytes, off \in Nat : fp = persisted[i].fp /\ off = persisted[i].off
    BY <2>1 DEF Encodings
  <2>3. Kept(fp, off)
    BY <1>2, <2>2 DEF Delivering, ReadersSound
  <2> QED
    BY <1>2, <1>4, <2>2, <2>3, KeptNext
<1>9. ReadersSound'
  BY <1>6, <1>7, <1>8 DEF ReadersSound
<1>10. RollerSound'
  BY <1>2 DEF Delivering, RollerSound, IsOld
<1>11. Paired'
  <2>1. ASSUME NEW n \in 1..Len(fps) PROVE Beginning(fps[n], data'[files[n]])
    <3>1. Beginning(fps[n], data[files[n]]) /\ files[n] \in Inodes /\ fps[n] \in Bytes
      BY MakeTypes DEF Delivering, Paired
    <3>2. /\ Len(data[files[n]]) \in Nat /\ Len(data'[files[n]]) \in Nat
          /\ Len(data[files[n]]) <= Len(data'[files[n]])
          /\ \A k \in 1..Len(data[files[n]]) : data'[files[n]][k] = data[files[n]][k]
      BY <1>1, <1>3, <3>1 DEF Grows, Typing, TypeOK, FilesystemOK, Logs
    <3> QED
      BY <3>1, <3>2, SMTT(30) DEF Beginning, Bytes
  <2> QED
    BY <1>2, <2>1 DEF Delivering, Paired, Beginning
<1> QED
  BY <1>1, <1>2, <1>9, <1>10, <1>11 DEF Delivering

-----------------------------------------------------------------------------
(* The theorems *)

\* Nothing was written, read or stored at first.
LEMMA InitDelivers ==
  ASSUME Undisturbed, Init
  PROVE  Delivering
<1> USE DEF Init
<1>1. \A i \in Inodes : data[i] = <<>>
  OBVIOUS
<1>2. Lineage /\ NoGaps
  BY <1>1 DEF Lineage, LinesPast, FilesPast, OnePlace, CopiesAgree, OriginalLongest, Akin,
              NoGaps
<1>3. NoDirPath
  BY FilesNotDir DEF NoDirPath, Undisturbed
<1>4. ReadersSound /\ RollerSound /\ Paired
  BY DEF ReadersSound, RollerSound, Paired
<1> QED
  BY <1>2, <1>3, <1>4 DEF Delivering

\* Every step of the operator and of the filesystem keeps the invariant.
LEMMA NextDelivers ==
  ASSUME Undisturbed
  PROVE  Typing /\ AllSmall /\ Delivering /\ [Next]_vars => Delivering'
<1> SUFFICES ASSUME Typing, AllSmall, Delivering, [Next]_vars PROVE Delivering'
  OBVIOUS
<1>1. CASE Cancel \/ CollectGarbage \/ UNCHANGED vars
  <2>1. /\ Quiet /\ phase' = phase
        /\ UNCHANGED <<known, readers, persisted, nOld, files, unread, fps, panicked>>
    BY <1>1 DEF Cancel, CollectGarbage, vars, Quiet, makeVars, ghosts
  <2> QED
    BY <2>1, IdleDelivers
<1>2. CASE PollQueued
  <2>1. /\ Quiet /\ phase' = "make"
        /\ UNCHANGED <<known, readers, persisted, nOld, files, unread, fps, panicked>>
    BY <1>2 DEF PollQueued, Quiet, ghosts
  <2> QED
    BY <2>1, IdleDelivers
<1>3. ASSUME NEW i \in 1..Len(readers), ReadToEnd(i) PROVE Delivering'
  BY <1>3, ReadDelivers
<1>4. ASSUME NEW i \in 1..Len(known), ReadLost(i) PROVE Delivering'
  BY <1>4, LostDelivers
<1> QED
  BY <1>1, <1>2, <1>3, <1>4, StartDelivers, StopDelivers, ListingDelivers, OpenDelivers,
     NewReaderDelivers, StartReadingDelivers, RollDelivers, NeverPanic, SaveDelivers,
     FilesystemDelivers
     DEF Next, Poller, makeReaders

\* The invariant holds from the start.
LEMMA AlwaysDelivering ==
  ASSUME Undisturbed
  PROVE  Spec => [](Typing /\ AllSmall /\ Delivering)
<1>1. Init => Typing /\ AllSmall /\ Delivering
  <2>1. Init => AllSmall
    BY DEF Init, AllSmall, SmallReaders, SmallStored
  <2> QED
    BY <2>1, InitTyping, InitDelivers
<1>2. Typing /\ AllSmall /\ Delivering /\ [Next]_vars => (Typing /\ AllSmall /\ Delivering)'
  BY NextTyping, NextSmall, NextDelivers
<1> QED
  BY <1>1, <1>2, PTL DEF Spec

\* A line is delivered only after the lines before it in its file, however files
\* are renamed, removed, copied and written to while they are listed, opened,
\* matched and read, whenever the operator stops or the process dies, and
\* whether or not its checkpoints are stored.
THEOREM NoGapsCorrect == Undisturbed => (Spec => []NoGaps)
<1> SUFFICES ASSUME Undisturbed PROVE Spec => []NoGaps
  OBVIOUS
<1>1. Delivering => NoGaps
  BY DEF Delivering
<1> QED
  BY <1>1, AlwaysDelivering, PTL

\* What a stored offset skips of a file that has the stored fingerprint was
\* delivered, whichever moment the process dies at.
THEOREM CheckpointDeliveredCorrect == Undisturbed => (Spec => []CheckpointDelivered)
<1> SUFFICES ASSUME Undisturbed PROVE Spec => []CheckpointDelivered
  OBVIOUS
<1>1. ASSUME Typing, Delivering PROVE CheckpointDelivered
  <2> SUFFICES ASSUME NEW c \in 1..Len(persisted), NEW i \in Inodes,
                      StartsWith(data[i], persisted[c].fp),
                      NEW k \in 1..Least(persisted[c].off, Len(data[i]))
               PROVE  emitted[data[i][k]] > 0
    BY DEF CheckpointDelivered
  <2>1. Promise(persisted[c].fp, persisted[c].off)
    BY <1>1 DEF Delivering, ReadersSound, Kept
  <2>2. persisted[c].off \in Nat /\ Len(data[i]) \in Nat
    BY <1>1, ReaderTypes, SMTT(30) DEF Encodings, Typing, TypeOK, FilesystemOK, Logs
  <2>3. k \in 1..Len(data[i]) /\ k <= persisted[c].off
    BY <2>2 DEF Least
  <2> QED
    BY <2>1, <2>3 DEF Promise
<1> QED
  BY <1>1, AlwaysDelivering, PTL

\* The fingerprint of a reader is the beginning of its file, through every read
\* from any offset, copy and checkpoint, and no read reslices it past its
\* capacity.
THEOREM FingerprintsSoundCorrect == Undisturbed => (Spec => []FingerprintsSound)
<1> SUFFICES ASSUME Undisturbed PROVE Spec => []FingerprintsSound
  OBVIOUS
<1>1. ASSUME Typing, Delivering PROVE FingerprintsSound
  <2>1. ASSUME NEW r \in Reader, Sound(r), r.file \in Inodes
        PROVE  r.fp = First(Contents(r.file), Len(r.fp))
    <3> DEFINE c == Contents(r.file)
    <3>1. /\ r.fp \in Seq(Cells) /\ Len(r.fp) \in Nat /\ c = data[r.file]
          /\ c \in Seq(Lines) /\ Len(c) \in Nat
      BY <1>1, <2>1 DEF Reader, Bytes, Contents, Typing, TypeOK, FilesystemOK, Logs
    <3>2. Len(r.fp) <= Len(c) /\ \A k \in 1..Len(r.fp) : c[k] = r.fp[k]
      BY <2>1, <3>1 DEF Sound, StartsWith
    <3> HIDE DEF c
    <3>3. /\ First(c, Len(r.fp)) \in Seq(Lines)
          /\ Len(First(c, Len(r.fp))) = Len(r.fp)
          /\ \A k \in 1..Len(r.fp) : First(c, Len(r.fp))[k] = c[k]
      BY <3>1, <3>2, FirstType DEF Least
    <3>4. r.fp = First(c, Len(r.fp))
      <4>1. \A k \in 1..Len(r.fp) : r.fp[k] = First(c, Len(r.fp))[k]
        BY <3>2, <3>3
      <4>2. First(c, Len(r.fp)) \in Seq(Cells)
        BY <3>3, LinesAreCells DEF Logs, Bytes
      <4> QED
        BY <3>1, <3>3, <4>1, <4>2, SeqEqual
    <3> QED
      BY <3>4 DEF c
  <2>2. FingerprintOfFile
    BY <1>1, <2>1, ReaderTypes DEF FingerprintOfFile, Delivering, ReadersSound
  <2> QED
    BY <1>1, <2>2 DEF Delivering, FingerprintsSound
<1> QED
  BY <1>1, AlwaysDelivering, PTL

=============================================================================
