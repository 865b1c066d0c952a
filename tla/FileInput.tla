------------------------------ MODULE FileInput ------------------------------
(***************************************************************************)
(* The file_input operator: one poller goroutine that lists the watched    *)
(* paths, opens and fingerprints the files, matches them against the files *)
(* it already knows, reads every one of them in a goroutine of its own,    *)
(* drains files that were rotated away, and checkpoints what it knows.     *)
(* The filesystem changes underneath it between any two of its steps.      *)
(*                                                                         *)
(* Abstraction.  A log line is one cell of a file: lines are appended      *)
(* whole, offsets and fingerprint lengths count lines, and every line has  *)
(* an identity of its own, so two files have a common prefix only if one   *)
(* is a copy of the other.  (Module FileReader models one reader with      *)
(* bytes, partial lines and the scanner.)  A path that names a directory   *)
(* opens, but every read of it fails.                                      *)
(***************************************************************************)
EXTENDS Integers, Sequences, FiniteSets

CONSTANTS
  NumPaths,            \* the watched paths are 1..NumPaths, in glob order
  DirPaths,            \* the watched paths that name a directory
  DirSize,             \* what the system says is the size of a directory
  MaxInodes,           \* bound: files ever created
  MaxLines,            \* bound: lines ever written
  MaxOps,              \* bound: moves, removals, copies and truncations
  EnvOps,              \* which of them happen
  MaxStarts,           \* bound: starts of the operator; the last is not
                       \* interrupted
  Interrupts,          \* whether the operator is stopped, the process crashes
  PersisterFails,      \* whether persister.Set may return an error
  FingerprintSize,     \* fingerprint_size
  MaxConcurrentFiles,  \* max_concurrent_files
  StartAtBeginning,    \* start_at = beginning
  MaxGeneration,       \* polls for which an unseen file stays known (3)
  DetectLost           \* the unix roller; FALSE is the windows one

ASSUME BoundsAssumption ==
  /\ {NumPaths, DirSize, MaxInodes, MaxLines, MaxOps, MaxStarts} \subseteq Nat
  /\ DirPaths \subseteq 1..NumPaths
  /\ EnvOps \subseteq {"move", "remove", "copy", "truncate"}
  /\ Interrupts \subseteq {"stop", "crash"}

\* Build() of config.go refuses max_concurrent_files <= 1 and a fingerprint
\* smaller than minFingerprintSize.
ASSUME ConfigAssumption ==
  /\ MaxConcurrentFiles \in Nat /\ MaxConcurrentFiles > 1
  /\ FingerprintSize \in Nat /\ FingerprintSize > 0
  /\ MaxGeneration \in Nat
  /\ {PersisterFails, StartAtBeginning, DetectLost} \subseteq BOOLEAN

Paths  == 1..NumPaths
Inodes == 1..MaxInodes
Lines  == 1..MaxLines
Cells  == 0..MaxLines            \* 0 is a cell of zero bytes, never a line
NoFile == 0                      \* no handle, or a path that names nothing
Dir    == MaxInodes + 1          \* a directory, or a handle of one
Handles == NoFile..Dir

Bytes  == Seq(Cells)            \* the beginning of a file
Logs   == Seq(Lines)            \* what a file, or a piece of it, holds

Reader == [file : Handles,       \* os.File, NoFile once it is closed
           fp   : Bytes,         \* Fingerprint.FirstBytes
           cap  : Nat,           \* cap(Fingerprint.FirstBytes)
           off  : Nat,           \* Offset
           gen  : 0..(MaxGeneration + 1),
           st   : {"ready", "reading", "done"},   \* of ReadToEnd
           buf  : Logs]          \* what the scanner has read and not returned

VARIABLES
  fs, data, archives, nextIno, nextLine, ops,     \* the filesystem
  phase,       \* where the poller goroutine is
  cancelled,   \* the operator's context
  firstCheck,
  queued,      \* queuedMatches
  matches,     \* paths of this batch that are still to be opened
  files,       \* files[i:] of makeReaders: opened, without a reader yet
  unread,      \* the ones still to be fingerprinted
  fps,         \* fps[i:] of makeReaders
  known,       \* knownFiles
  nOld,        \* roller.oldReaders is the last nOld elements of knownFiles
  readers,     \* the readers of this poll
  leaked,      \* handles no variable of the program refers to, to MaxLeaked
  persisted,   \* what the persister holds under knownFilesKey
  starts, panicked,
  lossy,       \* the process died, a checkpoint was not stored, or a file
               \* was truncated: lines may be repeated from here on
  emitted      \* how often each line was written downstream (2: twice or more)

fsVars   == <<fs, data, archives, nextIno, nextLine, ops>>
makeVars == <<matches, files, unread, fps>>
ghosts   == <<starts, panicked, lossy>>
vars == <<fsVars, makeVars, ghosts, phase, cancelled, firstCheck, queued,
          known, nOld, readers, leaked, persisted, emitted>>

-----------------------------------------------------------------------------
(* Fingerprints and offsets *)

Least(a, b) == IF a <= b THEN a ELSE b
Most(a, b)  == IF a >= b THEN a ELSE b

\* Mutant: the old batch is forgotten when the limit is shared out.
MutWholeBatch == MaxConcurrentFiles

maxBatchFiles == MaxConcurrentFiles \div 2

\* Bound: leaked handles are counted until they alone exceed the limit.
MaxLeaked == MaxConcurrentFiles + 1

\* What a read of the file through handle h finds.
Contents(h) == IF h \in Inodes THEN data[h] ELSE <<>>

First(s, n) == SubSeq(s, 1, Least(n, Len(s)))

\* (Fingerprint).StartsWith
StartsWith(new, old) ==
  /\ Len(old) # 0
  /\ Len(old) <= Len(new)
  /\ \A i \in 1..Len(old) : new[i] = old[i]

\* The Go slice expression s[:n] for n <= cap(s): reslicing past the length
\* uncovers the zeroes of the backing array.
Resliced(s, n) == [i \in 1..n |-> IF i <= Len(s) THEN s[i] ELSE 0]

\* (Reader).Read is about to reslice FirstBytes past its capacity.
OutOfRange(r) == Len(r.fp) # FingerprintSize /\ r.off > r.cap

\* Mutant: what is read is appended to the whole fingerprint.
MutFirstBytes(r, chunk) ==
  IF Len(r.fp) = FingerprintSize
  THEN r.fp
  ELSE r.fp \o First(chunk, Most(0, FingerprintSize - r.off))

\* Mutant: appendCount does not take the offset into account.
MutAppendCount(r, chunk) ==
  IF Len(r.fp) = FingerprintSize
  THEN r.fp
  ELSE Resliced(r.fp, r.off) \o First(chunk, FingerprintSize)

\* FirstBytes after (Reader).Read returned the cells in chunk, which is empty
\* at the end of the file.
FirstBytesAfter(r, chunk) ==
  IF Len(r.fp) = FingerprintSize
  THEN r.fp
  ELSE Resliced(r.fp, r.off)
         \o First(chunk, Most(0, FingerprintSize - r.off))

\* The file position is Offset when the buffer is empty, so a read returns
\* what the file holds from there on.
Unconsumed(r) ==
  IF r.off < Len(Contents(r.file))
  THEN SubSeq(Contents(r.file), r.off + 1, Len(Contents(r.file)))
  ELSE <<>>

\* (Reader).Copy of r for a newly opened handle.
CopyOf(r, h) ==
  [file |-> h, fp |-> r.fp, cap |-> r.cap, off |-> r.off, gen |-> 0,
   st |-> "ready", buf |-> <<>>]

Closed(r)  == [r EXCEPT !.file = NoFile]
Reading(r) == [r EXCEPT !.st = "reading"]

\* oldReaders
IsOld(i) == i > Len(known) - nOld

-----------------------------------------------------------------------------
Init ==
  /\ fs = [p \in Paths |-> IF p \in DirPaths THEN Dir ELSE NoFile]
  /\ data = [i \in Inodes |-> <<>>]
  /\ archives = {}
  /\ nextIno = 1 /\ nextLine = 1 /\ ops = 0
  /\ phase = "stopped" /\ cancelled = FALSE /\ firstCheck = FALSE
  /\ queued = <<>> /\ matches = <<>> /\ files = <<>> /\ unread = <<>>
  /\ fps = <<>> /\ known = <<>> /\ nOld = 0 /\ readers = <<>> /\ leaked = 0
  /\ persisted = <<>>
  /\ starts = 0 /\ panicked = FALSE /\ lossy = FALSE
  /\ emitted = [l \in Lines |-> 0]

-----------------------------------------------------------------------------
(* Start and Stop *)

\* Mutant: the offset is not restored.
MutLoaded(p) ==
  [file |-> NoFile, fp |-> p.fp, cap |-> Len(p.fp), off |-> 0, gen |-> 0,
   st |-> "done", buf |-> <<>>]

\* loadLastPollFiles: readers without a file, of generation 0, whose
\* fingerprint has no capacity to spare.
Loaded(p) ==
  [file |-> NoFile, fp |-> p.fp, cap |-> Len(p.fp), off |-> p.off, gen |-> 0,
   st |-> "done", buf |-> <<>>]

\* Either the same operator is started again, which kept its queue, or a new
\* one is.  The roller of the same operator still lists its old readers, but
\* Stop closed their files and seeking a closed file fails: they have no effect.
Start ==
  /\ phase = "stopped" /\ starts < MaxStarts
  /\ phase' = "idle"
  /\ cancelled' = FALSE
  /\ firstCheck' = TRUE
  /\ known' = [i \in 1..Len(persisted) |-> Loaded(persisted[i])]
  /\ queued' \in {queued, <<>>}
  /\ starts' = starts + 1
  /\ UNCHANGED <<fsVars, makeVars, nOld, readers, leaked, persisted, panicked,
                 lossy, emitted>>

\* Stop calls cancel, then waits for the poller.
Cancel ==
  /\ "stop" \in Interrupts /\ starts < MaxStarts
  /\ phase # "stopped" /\ ~cancelled
  /\ cancelled' = TRUE
  /\ UNCHANGED <<fsVars, makeVars, ghosts, phase, firstCheck, queued, known,
                 nOld, readers, leaked, persisted, emitted>>

\* The poller returns, and Stop closes every file.
Stopped ==
  /\ phase = "idle" /\ cancelled
  /\ phase' = "stopped"
  /\ known' = <<>> /\ nOld' = 0
  /\ UNCHANGED <<fsVars, makeVars, ghosts, cancelled, firstCheck, queued,
                 readers, leaked, persisted, emitted>>

\* The process ends: only the filesystem and the persister survive.
Die ==
  /\ phase' = "stopped" /\ cancelled' = FALSE /\ firstCheck' = FALSE
  /\ queued' = <<>> /\ matches' = <<>> /\ files' = <<>> /\ unread' = <<>>
  /\ fps' = <<>> /\ known' = <<>> /\ nOld' = 0 /\ readers' = <<>>
  /\ leaked' = 0 /\ lossy' = TRUE
  /\ UNCHANGED <<fsVars, persisted, starts, emitted>>

Crash ==
  /\ "crash" \in Interrupts /\ starts < MaxStarts /\ phase # "stopped"
  /\ Die
  /\ UNCHANGED panicked

-----------------------------------------------------------------------------
(* poll *)

\* Whether m lists, in glob order, the paths that exist.
FindFiles(m) ==
  /\ \A i, j \in 1..Len(m) : i < j => m[i] < m[j]
  /\ \A p \in Paths : fs[p] # NoFile <=> \E i \in 1..Len(m) : m[i] = p

\* The next batch of a non-empty queue.
PollQueued ==
  /\ phase = "idle" /\ queued # <<>>
  /\ phase' = "make"
  /\ matches' = First(queued, maxBatchFiles)
  /\ queued' = SubSeq(queued, Len(First(queued, maxBatchFiles)) + 1, Len(queued))
  /\ UNCHANGED <<fsVars, files, unread, fps, ghosts, cancelled, firstCheck,
                 known, nOld, readers, leaked, persisted, emitted>>

\* generation++, counted until it exceeds the limit.
Aged(r) == [r EXCEPT !.gen = Least(r.gen + 1, MaxGeneration + 1)]

\* Mutant: the paths that do not fit into the first batch are forgotten.
MutQueued(m) == <<>>

\* What of a listing has to wait for later polls.
Queued(m) == SubSeq(m, Len(First(m, maxBatchFiles)) + 1, Len(m))

\* The queue is empty: every known reader gets a generation older and the
\* paths are listed again.
PollListing ==
  /\ phase = "idle" /\ queued = <<>>
  /\ phase' = "make"
  /\ known' = [i \in 1..Len(known) |-> Aged(known[i])]
  /\ \E n \in 0..NumPaths : \E m \in [1..n -> Paths] :
       /\ FindFiles(m)
       /\ matches' = First(m, maxBatchFiles)
       /\ queued' = Queued(m)
  /\ UNCHANGED <<fsVars, files, unread, fps, ghosts, cancelled, firstCheck,
                 nOld, readers, leaked, persisted, emitted>>

(* makeReaders *)

\* os.Open: a path that is gone is skipped.
OpenFile ==
  /\ phase = "make" /\ matches # <<>>
  /\ matches' = Tail(matches)
  /\ IF fs[Head(matches)] = NoFile
     THEN UNCHANGED <<files, unread>>
     ELSE /\ files' = Append(files, fs[Head(matches)])
          /\ unread' = Append(unread, fs[Head(matches)])
  /\ UNCHANGED <<fsVars, fps, ghosts, phase, cancelled, firstCheck, queued,
                 known, nOld, readers, leaked, persisted, emitted>>

\* NewFingerprint: on an error the file stays in files and fps gets nothing.
NewFingerprint ==
  /\ phase = "make" /\ matches = <<>> /\ unread # <<>>
  /\ unread' = Tail(unread)
  /\ fps' = IF Head(unread) = Dir
            THEN fps
            ELSE Append(fps, First(Contents(Head(unread)), FingerprintSize))
  /\ UNCHANGED <<fsVars, matches, files, ghosts, phase, cancelled, firstCheck,
                 queued, known, nOld, readers, leaked, persisted, emitted>>

\* fps[i] is empty, or the file is a copy of one that comes later.
Excluded ==
  \/ Head(fps) = <<>>
  \/ \E j \in 2..Len(fps) :
       StartsWith(Head(fps), fps[j]) \/ StartsWith(fps[j], Head(fps))

\* files[i] and fps[i] are next.
Pairing ==
  phase = "make" /\ matches = <<>> /\ unread = <<>> /\ fps # <<>>

ExcludeFile ==
  /\ Pairing /\ Excluded
  /\ files' = Tail(files) /\ fps' = Tail(fps)
  /\ UNCHANGED <<fsVars, matches, unread, ghosts, phase, cancelled, firstCheck,
                 queued, known, nOld, readers, leaked, persisted, emitted>>

Matching(i) == StartsWith(Head(fps), known[i].fp)

\* Mutant: the oldest match is taken.
MutFindMatch(i) == Matching(i) /\ \A j \in 1..(i - 1) : ~Matching(j)

\* The newest known reader the fingerprint starts with.
findFingerprintMatch(i) ==
  Matching(i) /\ \A j \in (i + 1)..Len(known) : ~Matching(j)

MatchedReader ==
  /\ Pairing /\ ~Excluded
  /\ \E i \in 1..Len(known) :
       /\ findFingerprintMatch(i)
       /\ readers' = Append(readers, CopyOf(known[i], Head(files)))
  /\ files' = Tail(files) /\ fps' = Tail(fps)
  /\ UNCHANGED <<fsVars, matches, unread, ghosts, phase, cancelled, firstCheck,
                 queued, known, nOld, leaked, persisted, emitted>>

\* The size of what a handle is open on.
Size(h) == IF h = Dir THEN DirSize ELSE Len(Contents(h))

\* Mutant: the first check always starts at the end.
MutInitializeOffset == IF ~firstCheck THEN 0 ELSE Size(Head(files))

\* InitializeOffset asks for the size of the file now, after the fingerprint
\* was taken.
InitializeOffset ==
  IF ~firstCheck \/ StartAtBeginning THEN 0 ELSE Size(Head(files))

\* No match: a reader from scratch.
FreshReader ==
  /\ Pairing /\ ~Excluded
  /\ \A i \in 1..Len(known) : ~Matching(i)
  /\ readers' = Append(readers,
       [file |-> Head(files), fp |-> Head(fps), cap |-> FingerprintSize,
        off |-> InitializeOffset, gen |-> 0, st |-> "ready", buf |-> <<>>])
  /\ files' = Tail(files) /\ fps' = Tail(fps)
  /\ UNCHANGED <<fsVars, matches, unread, ghosts, phase, cancelled, firstCheck,
                 queued, known, nOld, leaked, persisted, emitted>>

\* makeReaders returns: what is left in files was never paired and is never
\* closed.  A goroutine is started for every reader.
StartReading ==
  /\ phase = "make" /\ matches = <<>> /\ unread = <<>> /\ fps = <<>>
  /\ phase' = "read"
  /\ leaked' = Least(leaked + Len(files), MaxLeaked)
  /\ files' = <<>>
  /\ firstCheck' = FALSE
  /\ readers' = [i \in 1..Len(readers) |-> Reading(readers[i])]
  /\ UNCHANGED <<fsVars, matches, unread, fps, ghosts, cancelled, queued, known,
                 nOld, persisted, emitted>>

\* The runtime's finalizer closes the files nothing refers to.
CollectGarbage ==
  /\ leaked > 0
  /\ leaked' = 0
  /\ UNCHANGED <<fsVars, makeVars, ghosts, phase, cancelled, firstCheck, queued,
                 known, nOld, readers, persisted, emitted>>

(* ReadToEnd *)

\* What the scanner has for its next call, after a read if its buffer is empty.
Pending(r) == IF r.buf = <<>> THEN Unconsumed(r) ELSE r.buf

\* Mutant: the offset moves when the file is read, not when a line is emitted.
MutScanned(r) ==
  LET fp == IF r.buf = <<>> THEN FirstBytesAfter(r, Unconsumed(r)) ELSE r.fp
  IN  IF cancelled
      THEN [r EXCEPT !.st = "done", !.buf = <<>>]
      ELSE IF Pending(r) = <<>>
      THEN [r EXCEPT !.fp = fp, !.st = "done"]
      ELSE [r EXCEPT !.fp = fp,
                     !.off = IF r.buf = <<>> THEN @ + Len(Unconsumed(r)) ELSE @,
                     !.buf = Tail(Pending(r))]

\* One turn of the loop of ReadToEnd.  If the context is done it returns where
\* it is; otherwise a line is emitted and the offset moves past it, or the end
\* of the file is reached.
Scanned(r) ==
  LET fp == IF r.buf = <<>> THEN FirstBytesAfter(r, Unconsumed(r)) ELSE r.fp
  IN  IF cancelled
      THEN [r EXCEPT !.st = "done", !.buf = <<>>]
      ELSE IF Pending(r) = <<>>
      THEN [r EXCEPT !.fp = fp, !.cap = Most(@, Len(fp)), !.st = "done"]
      ELSE [r EXCEPT !.fp = fp, !.cap = Most(@, Len(fp)), !.off = @ + 1,
                     !.buf = Tail(Pending(r))]

\* The next turn of r reslices the fingerprint past its capacity.
Panics(r) ==
  r.st = "reading" /\ ~cancelled /\ r.buf = <<>> /\ OutOfRange(r)

emit(r) ==
  emitted' = IF cancelled \/ Pending(r) = <<>>
             THEN emitted
             ELSE [emitted EXCEPT ![Head(Pending(r))] = Least(@ + 1, 2)]

ReadToEnd(i) ==
  /\ phase = "read" /\ readers[i].st = "reading" /\ ~Panics(readers[i])
  /\ readers' = [readers EXCEPT ![i] = Scanned(@)]
  /\ emit(readers[i])
  /\ UNCHANGED <<fsVars, makeVars, ghosts, phase, cancelled, firstCheck, queued,
                 known, nOld, leaked, persisted>>

(* roll, saveCurrent and syncLastPollFiles *)

\* Mutant: old readers are closed without being drained.
MutIsLost(i) == FALSE

\* An old reader whose file none of this poll's readers has.
IsLost(i) ==
  /\ DetectLost /\ IsOld(i)
  /\ \A j \in 1..Len(readers) : ~StartsWith(readers[j].fp, known[i].fp)

\* wg.Wait returned.  A goroutine is started for every lost reader.
Roll ==
  /\ phase = "read"
  /\ \A i \in 1..Len(readers) : readers[i].st = "done"
  /\ phase' = "lost"
  /\ known' = [i \in 1..Len(known) |->
                 IF IsLost(i) THEN Reading(known[i]) ELSE known[i]]
  /\ UNCHANGED <<fsVars, makeVars, ghosts, cancelled, firstCheck, queued, nOld,
                 readers, leaked, persisted, emitted>>

ReadLost(i) ==
  /\ phase = "lost" /\ known[i].st = "reading" /\ ~Panics(known[i])
  /\ known' = [known EXCEPT ![i] = Scanned(@)]
  /\ emit(known[i])
  /\ UNCHANGED <<fsVars, makeVars, ghosts, phase, cancelled, firstCheck, queued,
                 nOld, readers, leaked, persisted>>

\* A panic in any goroutine ends the process.
Panic ==
  /\ \/ phase = "read" /\ \E i \in 1..Len(readers) : Panics(readers[i])
     \/ phase = "lost" /\ \E i \in 1..Len(known) : Panics(known[i])
  /\ Die
  /\ panicked' = TRUE

\* Mutant: the new readers are put first.
MutRolled ==
  [i \in 1..Len(readers) |-> readers[i]]
    \o [i \in 1..Len(known) |-> IF IsOld(i) THEN Closed(known[i]) ELSE known[i]]

\* knownFiles with this poll's readers: the unix roller closes the old readers
\* and keeps the new ones open, the windows one closes the new ones.
Rolled ==
  [i \in 1..Len(known) |-> IF IsOld(i) THEN Closed(known[i]) ELSE known[i]]
    \o [i \in 1..Len(readers) |->
          IF DetectLost THEN readers[i] ELSE Closed(readers[i])]

\* What the JSON of a reader holds.
Encoded(r) == [fp |-> r.fp, off |-> r.off]

\* knownFiles[k:], or all of it if no reader is young enough.
KeptFrom(k) ==
  IF k <= Len(Rolled) THEN SubSeq(Rolled, k, Len(Rolled)) ELSE Rolled

\* saveCurrent keeps everything from the first reader that is young enough on,
\* and everything if there is none; syncLastPollFiles stores what is kept.
SaveCurrent ==
  /\ phase = "lost"
  /\ \A i \in 1..Len(known) : known[i].st = "done"
  /\ phase' = "idle"
  /\ \E k \in 1..(Len(Rolled) + 1) :
       /\ \A j \in 1..(k - 1) : Rolled[j].gen > MaxGeneration
       /\ k <= Len(Rolled) => Rolled[k].gen <= MaxGeneration
       /\ known' = KeptFrom(k)
  /\ nOld' = IF DetectLost THEN Len(readers) ELSE 0
  /\ readers' = <<>>
  /\ \/ /\ persisted' = [i \in 1..Len(known') |-> Encoded(known'[i])]
        /\ UNCHANGED lossy
     \/ /\ PersisterFails
        /\ lossy' = TRUE
        /\ UNCHANGED persisted
  /\ UNCHANGED <<fsVars, makeVars, cancelled, firstCheck, queued, leaked,
                 starts, panicked, emitted>>

-----------------------------------------------------------------------------
(* The filesystem *)

opVars == <<makeVars, starts, panicked, phase, cancelled, firstCheck, queued,
            known, nOld, readers, leaked, persisted, emitted>>

CreateFile(p) ==
  /\ fs[p] = NoFile /\ nextIno <= MaxInodes
  /\ fs' = [fs EXCEPT ![p] = nextIno]
  /\ nextIno' = nextIno + 1
  /\ UNCHANGED <<data, archives, nextLine, ops, lossy, opVars>>

\* The writer may hold the file open after it was renamed or removed.  Nobody
\* writes to a copy.
WriteLine(i) ==
  /\ i < nextIno /\ i \notin archives /\ nextLine <= MaxLines
  /\ data' = [data EXCEPT ![i] = Append(@, nextLine)]
  /\ nextLine' = nextLine + 1
  /\ UNCHANGED <<fs, archives, nextIno, ops, lossy, opVars>>

Operation(op) == op \in EnvOps /\ ops < MaxOps /\ ops' = ops + 1

MoveFile(p, q) ==
  /\ Operation("move") /\ fs[p] \in Inodes /\ p # q /\ fs[q] # Dir
  /\ fs' = [fs EXCEPT ![q] = fs[p], ![p] = NoFile]
  /\ UNCHANGED <<data, archives, nextIno, nextLine, lossy, opVars>>

RemoveFile(p) ==
  /\ Operation("remove") /\ fs[p] \in Inodes
  /\ fs' = [fs EXCEPT ![p] = NoFile]
  /\ UNCHANGED <<data, archives, nextIno, nextLine, lossy, opVars>>

CopyFile(p, q) ==
  /\ Operation("copy") /\ fs[p] \in Inodes /\ fs[q] = NoFile
  /\ nextIno <= MaxInodes
  /\ fs' = [fs EXCEPT ![q] = nextIno]
  /\ data' = [data EXCEPT ![nextIno] = data[fs[p]]]
  /\ archives' = archives \cup {nextIno}
  /\ nextIno' = nextIno + 1
  /\ UNCHANGED <<nextLine, lossy, opVars>>

TruncateFile(p) ==
  /\ Operation("truncate") /\ fs[p] \in Inodes
  /\ data' = [data EXCEPT ![fs[p]] = <<>>]
  /\ lossy' = TRUE
  /\ UNCHANGED <<fs, archives, nextIno, nextLine, opVars>>

-----------------------------------------------------------------------------
makeReaders ==
  OpenFile \/ NewFingerprint \/ ExcludeFile \/ MatchedReader \/ FreshReader

Poller ==
  \/ PollQueued \/ PollListing \/ makeReaders \/ StartReading
  \/ \E i \in 1..Len(readers) : ReadToEnd(i)
  \/ Roll
  \/ \E i \in 1..Len(known) : ReadLost(i)
  \/ Panic \/ SaveCurrent

Filesystem ==
  \/ \E p \in Paths : CreateFile(p) \/ RemoveFile(p) \/ TruncateFile(p)
  \/ \E i \in Inodes : WriteLine(i)
  \/ \E p, q \in Paths : MoveFile(p, q) \/ CopyFile(p, q)

Next ==
  Start \/ Cancel \/ Stopped \/ Crash \/ Poller \/ CollectGarbage \/ Filesystem

\* The poller is a goroutine driven by a ticker, and the goroutines it waits
\* for never block: it keeps making progress as long as the process runs.  Its
\* select takes each of two ready cases now and then, so a cancelled context is
\* noticed although ticks keep coming.  A stopped operator is started again.
Spec ==
  Init /\ [][Next]_vars /\ WF_vars(Poller) /\ SF_vars(Stopped) /\ WF_vars(Start)

-----------------------------------------------------------------------------
(* Properties *)

Encodings == [fp : Bytes, off : Nat]

FilesystemOK ==
  /\ fs \in [Paths -> Handles]
  /\ data \in [Inodes -> Logs]
  /\ archives \subseteq Inodes
  /\ nextIno \in 1..(MaxInodes + 1)
  /\ nextLine \in 1..(MaxLines + 1)
  /\ ops \in 0..MaxOps

ControlOK ==
  /\ phase \in {"stopped", "idle", "make", "read", "lost"}
  /\ cancelled \in BOOLEAN /\ firstCheck \in BOOLEAN
  /\ panicked \in BOOLEAN /\ lossy \in BOOLEAN

CountersOK ==
  /\ starts \in 0..MaxStarts
  /\ leaked \in 0..MaxLeaked

MakeReadersOK ==
  /\ queued \in Seq(Paths) /\ matches \in Seq(Paths)
  /\ files \in Seq(Handles) /\ unread \in Seq(Handles)
  /\ fps \in Seq(Bytes)

ReadersOK ==
  /\ known \in Seq(Reader) /\ readers \in Seq(Reader)
  /\ nOld \in 0..Len(known)
  /\ persisted \in Seq(Encodings)
  /\ emitted \in [Lines -> 0..2]

\* The state is well formed, and the old readers are known readers.
TypeOK == FilesystemOK /\ ControlOK /\ CountersOK /\ MakeReadersOK /\ ReadersOK

\* The files the operator has open and refers to: files without a reader, this
\* poll's readers and the old readers.
TrackedHandles == Len(files) + Len(readers) + nOld

\* max_concurrent_files bounds the files the operator works with at every
\* moment of a poll, with the old batch still open while the next one is opened.
TrackedHandlesBounded == TrackedHandles <= MaxConcurrentFiles

\* ... and, with the handles it lost track of, all the files it has open.
HandlesBounded == TrackedHandles + leaked <= MaxConcurrentFiles

\* saveCurrent may cut knownFiles at the first young reader because the list is
\* sorted oldest first: no known reader is older than one before it.
OldestFirst ==
  \A i, j \in 1..Len(known) : i <= j => known[i].gen >= known[j].gen

InFile(l, i) == \E k \in 1..Len(data[i]) : data[i][k] = l

\* A line is delivered only after the lines before it in its file: no rotation,
\* batch, stop or crash makes the operator skip lines.
NoGaps ==
  \A i \in Inodes : \A k \in 2..Len(data[i]) :
    emitted[data[i][k]] > 0 => emitted[data[i][k - 1]] > 0

\* A copy whose fingerprint cannot be told from that of a file it is the
\* beginning of.
ShortCopy(i) == i \in archives /\ Len(data[i]) < FingerprintSize

\* No line is delivered twice, however files are renamed, copied or removed
\* and however often the operator is stopped and started again, unless the
\* process died or could not store its checkpoint, a file was truncated, or a
\* copy is shorter than fingerprint_size.
NoDuplicates ==
  \/ lossy \/ \E i \in Inodes : ShortCopy(i)
  \/ \A l \in Lines : emitted[l] < 2

\* The checkpoint never runs ahead of delivery: what a stored offset skips of
\* a file its fingerprint matches was delivered, whenever the process dies.
CheckpointDelivered ==
  \A c \in 1..Len(persisted) : \A i \in Inodes :
    StartsWith(data[i], persisted[c].fp) =>
      \A k \in 1..Least(persisted[c].off, Len(data[i])) : emitted[data[i][k]] > 0

\* Fingerprint: "the first N bytes of the file".
FingerprintOfFile ==
  \A r \in {readers[i] : i \in 1..Len(readers)} \cup {known[i] : i \in 1..Len(known)} :
    r.file \in Inodes => r.fp = First(Contents(r.file), Len(r.fp))

\* No reader ever holds more than fingerprint_size of a file, whatever offset it
\* starts from: Read stops updating a fingerprint only when its length is
\* exactly that size, so a longer one would grow and change forever.
FingerprintsBounded ==
  /\ \A i \in 1..Len(known) : Len(known[i].fp) <= FingerprintSize
  /\ \A i \in 1..Len(readers) : Len(readers[i].fp) <= FingerprintSize

\* The fingerprint of a reader stays the beginning of its file while the file is
\* read from any offset, and is never resliced past its capacity, which would
\* end the process.
FingerprintsSound == FingerprintOfFile /\ ~panicked

\* The file that holds the line has a watched path.
Watched(l) == \E p \in Paths : fs[p] \in Inodes /\ InFile(l, fs[p])

\* Every line of a file that keeps a watched path is delivered in the end: in
\* whichever batch of a listing the path waits, whatever the operator knows by
\* then of the file or of another one under its path, and however the file is
\* renamed or truncated meanwhile (TestTruncateThenWrite: "any new writes are
\* picked up").
Delivered == \A l \in Lines : Watched(l) ~> (emitted[l] > 0 \/ ~Watched(l))

\* A line of a file the operator has open between two polls is delivered, even
\* if the file has lost its last path: an old reader is drained before it is
\* closed, unless the operator is interrupted or the line truncated away first.
Drained ==
  \A l \in Lines :
    (phase = "idle" /\ \E i \in 1..Len(known) :
       IsOld(i) /\ known[i].file \in Inodes /\ InFile(l, known[i].file))
    ~> \/ emitted[l] > 0 \/ cancelled \/ phase = "stopped"
       \/ \A i \in Inodes : ~InFile(l, i)

=============================================================================
