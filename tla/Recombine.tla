----------------------------- MODULE Recombine ------------------------------
(***************************************************************************)
(* The recombine operator: it joins the consecutive entries of a source    *)
(* into one entry.  Process, which any number of upstream goroutines call, *)
(* the flush loop and Stop exclude each other with the operator's lock, so *)
(* each of them is one action.                                             *)
(*                                                                         *)
(* Abstraction.  Entries are numbered in the order Process takes them.  A  *)
(* written entry is represented by the entries it was made from, those of  *)
(* them whose text it holds, and the one whose other fields it keeps.  The *)
(* loops over batchMap visit sources in no particular order, so what is    *)
(* written is kept per source.                                             *)
(***************************************************************************)
EXTENDS Integers, Sequences, FiniteSets, SequencesExt

CONSTANTS
  Sources,        \* values of the source_identifier field
  Kinds,          \* what entries look like, a subset of AllKinds
  Configs,        \* the configurations, a subset of AllConfigs
  MaxEntries,     \* bound: entries processed
  MaxBatchSize,   \* max_batch_size
  MaxSources      \* max_sources

\* An entry has no readable source_identifier.
DefaultSourceIdentifier == "DefaultSourceIdentifier"

AllSources == Sources \cup {DefaultSourceIdentifier}

AllKinds ==
  [source : AllSources,
   match  : {"yes", "no", "error"},   \* what the expression evaluates to
   text   : BOOLEAN]                  \* combine_field holds a text

\* What Build takes from the configuration.
AllConfigs ==
  [matchFirst : BOOLEAN,      \* is_first_entry is set, not is_last_entry
   oldest     : BOOLEAN,      \* overwrite_with is oldest
   canSet     : BOOLEAN,      \* combine_field is not the root of attributes
                              \* or resource, which cannot be set
   send       : BOOLEAN]      \* on_error is send

\* Build does not check the two limits; the model leaves zero out.
ASSUME RecombineAssumption ==
  /\ MaxEntries \in Nat
  /\ MaxBatchSize \in Nat \ {0} /\ MaxSources \in Nat \ {0}
  /\ Kinds \subseteq AllKinds /\ Configs \subseteq AllConfigs

VARIABLES
  config,
  kind,       \* kind[e] of each entry e taken so far
  batchMap,   \* the batch of each source, empty when it has none
  expired,    \* entries with a timestamp force_flush_period or more ago
  running,    \* the flush loop has not been told to end
  written,    \* what was written downstream for each source
  refused     \* entries that Process returned an error for

vars == <<config, kind, batchMap, expired, running, written, refused>>

Entries == 1..Len(kind)

Init ==
  /\ config \in Configs
  /\ kind = <<>>
  /\ batchMap = [s \in AllSources |-> <<>>]
  /\ expired = {}
  /\ running = TRUE
  /\ written = [s \in AllSources |-> <<>>]
  /\ refused = {}

-----------------------------------------------------------------------------
(* The operator's own functions, on the batches and what has been written   *)

State == [batch |-> batchMap, out |-> written]

\* The combined entry of a batch, which the entry being processed may be in:
\* an entry without a combine_field leaves no text in it.
Combined(batch) ==
  [from |-> batch,
   text |-> {i \in DOMAIN batch : kind'[batch[i]].text},
   base |-> IF config.oldest THEN Head(batch) ELSE Last(batch)]

\* An entry as it is.
Single(e) == [from |-> <<e>>, text |-> {1}, base |-> e]

\* base.Set returns an error: the batch stays.
FlushFails(st, s) == st.batch[s] # <<>> /\ ~config.canSet

\* Mutant: the batch is not deleted when it has been written.
MutFlushSource(st, s) ==
  IF st.batch[s] = <<>> \/ FlushFails(st, s)
  THEN st
  ELSE [st EXCEPT !.out[s] = Append(@, Combined(st.batch[s]))]

flushSource(st, s) ==
  IF st.batch[s] = <<>> \/ FlushFails(st, s)
  THEN st
  ELSE [batch |-> [st.batch EXCEPT ![s] = <<>>],
        out   |-> [st.out EXCEPT ![s] = Append(@, Combined(st.batch[s]))]]

\* Every batched entry is written on its own.
flushUncombined(st) ==
  [batch |-> [s \in AllSources |-> <<>>],
   out   |-> [s \in AllSources |->
                st.out[s] \o [i \in 1..Len(st.batch[s]) |-> Single(st.batch[s][i])]]]

Batched(st) == {s \in AllSources : st.batch[s] # <<>>}

TooManySources(st) == Cardinality(Batched(st)) >= MaxSources

BatchFull(batch) == Len(batch) >= MaxBatchSize

addToBatch(st, e, s) ==
  LET new == [batch |-> [st.batch EXCEPT ![s] = Append(@, e)], out |-> st.out] IN
  IF st.batch[s] = <<>>
  THEN IF TooManySources(new) THEN flushUncombined(new) ELSE new
  ELSE IF BatchFull(new.batch[s]) THEN flushSource(new, s) ELSE new

-----------------------------------------------------------------------------
(* Process *)

\* The entry Process takes.
This == Len(kind) + 1

Take(k) ==
  /\ Len(kind) < MaxEntries /\ running
  /\ kind' = Append(kind, k)
  /\ UNCHANGED <<config, expired, running>>

Becomes(st) == batchMap' = st.batch /\ written' = st.out

\* The expression fails: HandleEntryError writes or drops the entry.
ProcessError(k) ==
  /\ k.match = "error"
  /\ Take(k)
  /\ refused' = refused \cup {This}
  /\ written' = IF config.send
                THEN [written EXCEPT ![k.source] = Append(@, Single(This))]
                ELSE written
  /\ UNCHANGED batchMap

\* The first entry of the next batch.  If the batch before it cannot be
\* flushed, the entry is not added to any.
ProcessFirst(k) ==
  /\ k.match = "yes" /\ config.matchFirst
  /\ Take(k)
  /\ IF FlushFails(State, k.source)
     THEN /\ refused' = refused \cup {This}
          /\ UNCHANGED <<batchMap, written>>
     ELSE /\ Becomes(addToBatch(flushSource(State, k.source), This, k.source))
          /\ UNCHANGED refused

\* Mutant: an entry that starts in the middle waits like any other.
MutCompletes(k) == k.match = "yes" /\ ~config.matchFirst

\* The last entry of a batch, or one that no first entry came before.
Completes(k) ==
  \/ k.match = "yes" /\ ~config.matchFirst
  \/ k.match = "no" /\ config.matchFirst /\ batchMap[k.source] = <<>>

ProcessLast(k) ==
  /\ Completes(k)
  /\ Take(k)
  /\ LET st == addToBatch(State, This, k.source) IN
       /\ Becomes(flushSource(st, k.source))
       /\ refused' = IF FlushFails(st, k.source) THEN refused \cup {This}
                                                ELSE refused

ProcessMiddle(k) ==
  /\ k.match = "no" /\ ~Completes(k)
  /\ Take(k)
  /\ Becomes(addToBatch(State, This, k.source))
  /\ UNCHANGED refused

(* flushLoop and Stop *)

InBatch(e) == \E s \in AllSources : Contains(batchMap[s], e)

\* The timestamp of a batched entry, which a parser may have set to anything,
\* gets older than force_flush_period.
Expire(e) ==
  /\ InBatch(e) /\ e \notin expired
  /\ expired' = expired \cup {e}
  /\ UNCHANGED <<config, kind, batchMap, running, written, refused>>

\* Mutant: the comparison with force_flush_period is the wrong way round.
MutFresh(s) == batchMap[s] # <<>> /\ Last(batchMap[s]) \notin expired

\* The last entry of the batch is too old to wait any longer.
Overdue(s) == batchMap[s] # <<>> /\ Last(batchMap[s]) \in expired

\* A tick.  Every overdue source is flushed.
FlushLoop ==
  /\ running
  /\ UNCHANGED <<config, kind, expired, running, refused>>
  /\ \E s \in AllSources : Overdue(s)
  /\ batchMap' = [s \in AllSources |->
       IF Overdue(s) THEN flushSource(State, s).batch[s] ELSE batchMap[s]]
  /\ written' = [s \in AllSources |->
       IF Overdue(s) THEN flushSource(State, s).out[s] ELSE written[s]]

\* The operators upstream were stopped before: no entry comes any more.
Stop ==
  /\ running
  /\ running' = FALSE
  /\ Becomes(flushUncombined(State))
  /\ UNCHANGED <<config, kind, expired, refused>>

-----------------------------------------------------------------------------
Process(k) ==
  ProcessError(k) \/ ProcessFirst(k) \/ ProcessLast(k) \/ ProcessMiddle(k)

Next ==
  \/ \E k \in Kinds : Process(k)
  \/ \E e \in Entries : Expire(e)
  \/ FlushLoop
  \/ Stop

\* Time passes and the ticker keeps ticking.  Nobody has to send an entry or to
\* stop the operator.
Spec ==
  /\ Init /\ [][Next]_vars
  /\ \A e \in 1..MaxEntries : WF_vars(Expire(e))
  /\ WF_vars(FlushLoop)

-----------------------------------------------------------------------------
(* Properties *)

\* The g-th group of entries of a source: what was written as one entry, or, after
\* everything that was written, the batch.
Group(out, batch, g) == IF g <= Len(out) THEN out[g].from ELSE batch

\* Where the entries of a source are: number and index of the group.
At(out, batch, p) == Group(out, batch, p[1])[p[2]]

\* An entry whose text is not in what was written is not there.
Indices(out, batch, g) == IF g <= Len(out) THEN out[g].text ELSE 1..Len(batch)

Places(out, batch) ==
  UNION {{<<g, i>> : i \in Indices(out, batch, g)} : g \in 1..(Len(out) + 1)}

Before(p, q) == p[1] < q[1] \/ (p[1] = q[1] /\ p[2] < q[2])

\* Every accepted entry is in one place, those of them that come before others
\* came before them, and what is there is of the source.
Orderly(out, batch, own, accepted) ==
  /\ \A e \in accepted : \E p \in Places(out, batch) : At(out, batch, p) = e
  /\ \A p, q \in Places(out, batch) :
       /\ Before(p, q)
       /\ At(out, batch, p) \in accepted /\ At(out, batch, q) \in accepted
       => At(out, batch, p) < At(out, batch, q)
  /\ \A p \in Places(out, batch) : At(out, batch, p) \in own

\* The entries of a source that Process took.
Own(s) == {e \in Entries : kind[e].source = s}

\* The entries whose text was left out of what was combined from them.
Dropped(out) ==
  UNION {{w.from[i] : i \in DOMAIN w.from \ w.text} : w \in Range(out)}

\* The text of every entry that Process accepted is batched or was written, once,
\* and the texts of a source leave in the order they came, whether a batch is
\* flushed by a matching entry, by its size, by the number of sources, by the
\* timeout or by Stop.  Only an entry without a combine_field is dropped, and
\* only by being combined: one that is written on its own is written as it is.
NothingLost ==
  \A s \in AllSources :
    /\ Orderly(written[s], batchMap[s], Own(s), Own(s) \ (refused \cup Dropped(written[s])))
    /\ \A e \in Dropped(written[s]) : ~kind[e].text

\* The matching entry is the first (or the last) of what it is combined with,
\* and with is_first_entry nothing is combined that has no first entry.
RecordsIntact ==
  \A s \in AllSources : \A g \in Range(written[s]) :
    LET inside == IF config.matchFirst THEN 2..Len(g.from) ELSE 1..(Len(g.from) - 1)
    IN  /\ \A i \in inside : kind[g.from[i]].match = "no"
        /\ config.matchFirst /\ Len(g.from) > 1 => kind[g.from[1]].match = "yes"

\* Unless combine_field cannot be set, no batch reaches the limit (a batch of
\* one is never checked) and no more sources are batched than are allowed.
Bounded ==
  config.canSet =>
    /\ \A s \in AllSources : Len(batchMap[s]) < (IF MaxBatchSize = 1 THEN 2 ELSE MaxBatchSize)
    /\ Cardinality(Batched(State)) < MaxSources

\* Entries are combined only with entries of their own log record, and batches
\* stay within max_batch_size and max_sources on the way.
BatchesSound == RecordsIntact /\ Bounded

\* An entry does not wait for the rest of its record forever.
Flushed ==
  \A e \in 1..MaxEntries : (config.canSet /\ InBatch(e)) ~> ~InBatch(e)

=============================================================================
