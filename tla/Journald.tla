------------------------------ MODULE Journald ------------------------------
(***************************************************************************)
(* The journald_input operator: a child process, journalctl --follow,      *)
(* writes journal entries to a pipe; a goroutine reads them, stores the    *)
(* cursor of each and then writes it to the pipeline.  The operator is     *)
(* stopped, crashes and is started again; journalctl may exit by itself    *)
(* and the persister may fail.                                             *)
(*                                                                         *)
(* Abstraction.  Journal entries are numbered, and an entry's cursor is    *)
(* its number.  Start that fails changes nothing that is modelled.         *)
(***************************************************************************)
EXTENDS Integers, Sequences, FiniteSets

CONSTANTS
  Unparsable,    \* entries parseJournalEntry rejects
  MaxEntries,    \* bound: entries logged
  MaxStarts,     \* bound: starts
  MaxFailures    \* bound: calls of Set that fail

VARIABLES
  startAt,   \* start_at
  logged,    \* number of entries in the journal
  stored,    \* the cursor the persister holds, 0 if none
  after,     \* the last --after-cursor in args, 0 if none
  life,      \* "stopped", "running" or, after cancel, "stopping"
  child,     \* journalctl runs
  sent,      \* the last entry journalctl has written to the pipe
  taken,     \* the last entry the goroutine has read from it
  pc,        \* where the goroutine is
  starts,
  out,       \* entries written to the pipeline, in order
  failed,    \* entries whose cursor could not be stored
  first,     \* the first cursor stored, 0 if none
  crashes

source == <<startAt, logged, starts>>
record == <<failed, first, crashes>>
vars == <<source, stored, after, life, child, sent, taken, pc, out, record>>

Init ==
  /\ startAt \in {"beginning", "end"}
  /\ logged \in 0..MaxEntries /\ stored = 0 /\ after = 0
  /\ life = "stopped" /\ child = FALSE /\ sent = 0 /\ taken = 0 /\ pc = "done"
  /\ starts = 0 /\ out = <<>> /\ failed = {} /\ first = 0 /\ crashes = 0

LogEntry ==
  /\ logged < MaxEntries
  /\ logged' = logged + 1
  /\ UNCHANGED <<startAt, starts, stored, after, life, child, sent, taken, pc, out, record>>

-----------------------------------------------------------------------------
(* Start, Stop *)

\* The closure newCmd appends to the args it captured: an earlier cursor
\* stays in them, and journalctl obeys the last one.
newCmd == after' = IF stored # 0 THEN stored ELSE after

\* Where journalctl begins: after the cursor; else at the oldest entry with
\* --no-tail, or with the last few entries of the journal.
Beginnings ==
  IF after' # 0 THEN {after'} ELSE IF startAt = "beginning" THEN {0} ELSE 0..logged

Start ==
  /\ life = "stopped" /\ starts < MaxStarts
  /\ life' = "running" /\ starts' = starts + 1
  /\ newCmd
  /\ \E p \in Beginnings : sent' = p /\ taken' = p
  /\ child' = TRUE /\ pc' = "reading"
  /\ UNCHANGED <<startAt, logged, stored, out, record>>

\* Stop cancels the context, which kills the child ...
Cancel ==
  /\ life = "running"
  /\ life' = "stopping"
  /\ UNCHANGED <<source, stored, after, child, sent, taken, pc, out, record>>

\* Mutant: Stop does not wait for the goroutine.
MutWaited == TRUE

Waited == pc = "done"

\* ... and waits for the goroutine.
Stop ==
  /\ life = "stopping" /\ Waited
  /\ life' = "stopped"
  /\ UNCHANGED <<source, stored, after, child, sent, taken, pc, out, record>>

\* The operator is built anew after a crash: args are the configured ones.
Crash ==
  /\ life # "stopped"
  /\ life' = "stopped" /\ child' = FALSE /\ pc' = "done" /\ after' = 0
  /\ crashes' = crashes + 1
  /\ UNCHANGED <<source, stored, sent, taken, out, failed, first>>

-----------------------------------------------------------------------------
(* The child *)

Output ==
  /\ child /\ sent < logged
  /\ sent' = sent + 1
  /\ UNCHANGED <<source, stored, after, life, child, taken, pc, out, record>>

\* It is killed, or exits by itself.
Exit ==
  /\ child
  /\ child' = FALSE
  /\ UNCHANGED <<source, stored, after, life, sent, taken, pc, out, record>>

-----------------------------------------------------------------------------
(* The goroutine *)

\* ReadBytes and parseJournalEntry; what cannot be parsed is passed over.
ReadEntry ==
  /\ pc = "reading" /\ taken < sent
  /\ taken' = taken + 1
  /\ pc' = IF taken' \in Unparsable THEN "reading" ELSE "storing"
  /\ UNCHANGED <<source, stored, after, life, child, sent, out, record>>

\* The end of the pipe ends the goroutine, and the input with it.
ReadEOF ==
  /\ pc = "reading" /\ taken = sent /\ ~child
  /\ pc' = "done"
  /\ UNCHANGED <<source, stored, after, life, child, sent, taken, out, record>>

Cursor == taken

Set ==
  /\ pc = "storing"
  /\ stored' = Cursor
  /\ first' = IF first = 0 THEN Cursor ELSE first
  /\ pc' = "writing"
  /\ UNCHANGED <<source, after, life, child, sent, taken, out, failed, crashes>>

\* The entry is written all the same.
SetFails ==
  /\ pc = "storing" /\ Cardinality(failed) < MaxFailures
  /\ failed' = failed \cup {taken}
  /\ pc' = "writing"
  /\ UNCHANGED <<source, stored, after, life, child, sent, taken, out, first, crashes>>

Write ==
  /\ pc = "writing"
  /\ out' = Append(out, taken)
  /\ pc' = "reading"
  /\ UNCHANGED <<source, stored, after, life, child, sent, taken, record>>

-----------------------------------------------------------------------------
Goroutine == ReadEntry \/ ReadEOF \/ Set \/ SetFails \/ Write

Next == LogEntry \/ Start \/ Cancel \/ Stop \/ Crash \/ Output \/ Exit \/ Goroutine

\* The goroutine runs, and a cancelled context kills journalctl.
Fairness == WF_vars(Goroutine) /\ WF_vars(Stop) /\ WF_vars(life = "stopping" /\ Exit)

Spec == Init /\ [][Next]_vars /\ Fairness

-----------------------------------------------------------------------------
Written == {out[i] : i \in 1..Len(out)}

\* An entry is written twice only if storing its cursor failed: whenever the
\* input stops or crashes, it does not come back to an entry it has written.
AtMostOnce ==
  \A i, j \in 1..Len(out) : i # j /\ out[i] = out[j] => out[i] \in failed

\* Since the cursor is stored before the entry is written, a crash loses the
\* entry in between, and no more: of the entries up to the stored cursor, all
\* but one for each crash have been written, or are about to be.  A stop
\* loses none.  With start_at end this holds from the first cursor on.
LostOnlyByCrash ==
  LET base == IF startAt = "beginning" THEN 0 ELSE first
      pending == IF pc \in {"storing", "writing"} THEN {taken} ELSE {}
  IN  Cardinality(((base + 1)..stored) \ (Unparsable \cup Written \cup pending)) <= crashes

\* What the stored cursor promises, between restarts, failing stores and crashes.
CursorSound == AtMostOnce /\ LostOnlyByCrash

\* Stop returns: journalctl's end is the end of the pipe.
StopReturns == life = "stopping" ~> life = "stopped"

=============================================================================
