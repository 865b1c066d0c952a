---------------------------- MODULE WindowsEvents ----------------------------
(***************************************************************************)
(* The windows_eventlog_input operator: a polling goroutine reads a        *)
(* subscription in batches and stores a bookmark after the last event of   *)
(* each.  It is stopped, crashes and is started again; the persister and   *)
(* the event log's calls may fail.                                         *)
(*                                                                         *)
(* Abstraction.  Events are numbered in the order of their channel, and a  *)
(* bookmark is the number of the event it was updated with.  Start that    *)
(* fails changes nothing that is modelled.                                 *)
(***************************************************************************)
EXTENDS Integers, Sequences

CONSTANTS
  MaxReads,      \* max_reads
  Unreadable,    \* events that cannot be rendered
  MaxEvents,     \* bound: events logged
  MaxStarts      \* bound: starts

VARIABLES
  startAt,   \* start_at
  logged,    \* number of events in the channel
  stored,    \* the bookmark the persister holds, 0 if none
  life,      \* "stopped", "running" or, after cancel, "stopping"
  pc,        \* where the polling goroutine is
  at,        \* the last event the subscription has returned
  batch,     \* events of the current read still to be processed
  starts,
  from, done, out    \* what has been delivered, for Delivery

source == <<startAt, logged, starts>>
delivery == <<from, done, out>>
vars == <<source, stored, life, pc, at, batch, delivery>>

Init ==
  /\ startAt \in {"beginning", "end"}
  /\ logged \in 0..MaxEvents /\ stored = 0
  /\ life = "stopped" /\ pc = "idle" /\ at = 0 /\ batch = <<>> /\ starts = 0
  /\ from = 0 /\ done = 0 /\ out = <<>>

LogEvent ==
  /\ logged < MaxEvents
  /\ logged' = logged + 1
  /\ UNCHANGED <<startAt, starts, stored, life, pc, at, batch, delivery>>

-----------------------------------------------------------------------------
(* Start, Stop *)

Starting ==
  /\ life = "stopped" /\ starts < MaxStarts
  /\ life' = "running" /\ starts' = starts + 1
  /\ UNCHANGED <<startAt, logged, pc, batch>>

\* createFlags with a bookmark: EvtSubscribeStartAfterBookmark
StartAfterBookmark ==
  /\ Starting /\ stored # 0
  /\ at' = stored
  /\ UNCHANGED <<stored, delivery>>

\* createFlags without one: at every start, not only the first.  What is in the
\* channel by then and has not been processed is passed over.
Oldest == at' = 0 /\ UNCHANGED delivery
Future ==
  /\ at' = logged /\ done' = logged
  /\ from' = IF done = logged THEN from ELSE logged
  /\ UNCHANGED out
createFlags == IF startAt = "beginning" THEN Oldest ELSE Future

StartWithoutBookmark ==
  /\ Starting /\ stored = 0
  /\ createFlags
  /\ UNCHANGED stored

\* persister.Get fails: the bookmark is deleted, unless that fails too.
StartUnreadable ==
  /\ Starting
  /\ createFlags
  /\ stored' \in {0, stored}

Cancel ==
  /\ life = "running"
  /\ life' = "stopping"
  /\ UNCHANGED <<source, stored, pc, at, batch, delivery>>

\* The goroutine sees ctx.Done between two ticks; Stop closes its handles.
Stop ==
  /\ life = "stopping" /\ pc = "idle"
  /\ life' = "stopped" /\ at' = 0
  /\ UNCHANGED <<source, stored, pc, batch, delivery>>

Crash ==
  /\ life # "stopped"
  /\ life' = "stopped" /\ pc' = "idle" /\ at' = 0 /\ batch' = <<>>
  /\ UNCHANGED <<source, stored, delivery>>

-----------------------------------------------------------------------------
(* readOnInterval, readToEnd, read *)

Tick ==
  /\ life = "running" /\ pc = "idle"
  /\ pc' = "reading"
  /\ UNCHANGED <<source, stored, life, at, batch, delivery>>

\* The context is done, or the read fails or returns nothing.
ReadNothing ==
  /\ pc = "reading"
  /\ pc' = "idle"
  /\ UNCHANGED <<source, stored, life, at, batch, delivery>>

Read(n) ==
  /\ pc = "reading" /\ life = "running"
  /\ n \in 1..MaxReads /\ at + n <= logged
  /\ at' = at + n
  /\ batch' = [i \in 1..n |-> at + i]
  /\ pc' = "processing"
  /\ UNCHANGED <<source, stored, life, delivery>>

\* processEvent and sendEvent: an event that cannot be rendered is dropped;
\* one that cannot be formatted is sent as it is.
ProcessEvent ==
  /\ pc = "processing"
  /\ pc' = IF Len(batch) = 1 THEN "bookmark" ELSE "processing"
  /\ batch' = IF Len(batch) = 1 THEN batch ELSE Tail(batch)
  /\ out' = IF Head(batch) \in Unreadable THEN out ELSE Append(out, Head(batch))
  /\ done' = IF Head(batch) > done THEN Head(batch) ELSE done
  /\ UNCHANGED <<source, stored, life, at, from>>

\* Mutant: the bookmark is updated with an event that is yet to be processed.
MutBookmarkDue == pc \in {"processing", "bookmark"}

BookmarkDue == pc = "bookmark"

\* updateBookmarkOffset; Update, Render or Set may fail.
UpdateBookmark(stores) ==
  /\ BookmarkDue
  /\ stored' = IF stores THEN Head(batch) ELSE stored
  /\ pc' = "reading" /\ batch' = <<>>
  /\ UNCHANGED <<source, life, at, delivery>>

-----------------------------------------------------------------------------
Poller ==
  \/ Tick \/ ReadNothing \/ ProcessEvent
  \/ \E n \in 1..MaxReads : Read(n)
  \/ \E stores \in BOOLEAN : UpdateBookmark(stores)

Next ==
  \/ LogEvent \/ Cancel \/ Stop \/ Crash
  \/ StartAfterBookmark \/ StartWithoutBookmark \/ StartUnreadable
  \/ Poller

\* The ticker ticks and calls of the event log return.
Fairness == WF_vars(Poller) /\ WF_vars(Stop)

Spec == Init /\ [][Next]_vars /\ Fairness

-----------------------------------------------------------------------------
Promise == INSTANCE Delivery WITH begun <- starts > 0

\* start_at end takes effect at a later start: there is no bookmark yet, because
\* the first batch was interrupted or could not be stored, or it cannot be read.
StartOver ==
  /\ starts > 0 /\ startAt = "end"
  /\ StartWithoutBookmark \/ StartUnreadable

\* However often it is interrupted, the input delivers events as an input that
\* checkpoints after delivery should, unless it starts over at the end: no event
\* is passed over by anything else, because the bookmark never names one that has
\* not been processed, and none at all with start_at beginning.
ImplementsDelivery ==
  Promise!DeliveryInit /\ [][Promise!DeliveryNext \/ StartOver]_(Promise!deliveryVars)

\* start_at is for the first startup: a restart passes over no event.  This is so
\* with start_at beginning; with end, StartOver does pass over events.
StartAtFirstStartup == Promise!DeliverySpec

\* Stop returns, after the batch at hand.
StopReturns == life = "stopping" ~> life = "stopped"

=============================================================================
