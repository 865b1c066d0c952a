# A TLA+ model of opentelemetry-log-collection

This directory holds TLA+ modules that model the log collection library in this
repository, the TLC configurations that check them on small instances, and TLAPS
proofs of the invariants that matter most. `PROJECT.json` lists the components,
the runs, a mutation for every checked property, the source lines every
definition stands for, the hazards and the theorems.

## The system

A *pipeline* is a directed graph of *operators*. Input operators (files, network,
journald, Windows events, Kubernetes events) run goroutines of their own, make an
*entry* of every piece of input and call `Process` of the operators they write to.
Parsers and transformers change entries and pass them on; outputs end the path.
Every call runs in the goroutine of the input it came from, so an operator is
called by many goroutines at once. Inputs keep what they must remember across
restarts in a *persister*.

| Component | State | Operations | Hard behaviour | What makes it correct |
|---|---|---|---|---|
| file_input, polling (`operator/input/file/file.go`, `roller_*.go`, `finder.go`) | known files, queue of paths, readers of this poll, readers of the last poll kept open, checkpoint | `Start`, `Stop`, `poll`, `makeReaders`, `roll`, `saveCurrent`, `syncLastPollFiles` | files move, vanish and grow between any two steps; batches; crash between emitting and storing | no line skipped or repeated, files drained after rotation, limit on open files, checkpoint never ahead |
| file_input, one reader (`reader.go`, `fingerprint.go`, `positional_scanner.go`) | offset, fingerprint and its array, scanner's buffer and position | `ReadToEnd`, `Read`, `Copy`, `InitializeOffset` | writes in the middle of a line, end of file, buffer limits | nothing before the offset is skipped, entries are records, everything complete is delivered |
| split functions and flusher (`operator/helper/multiline.go`) | length and time of the last change | the four split functions, `Flusher.SplitFunc` | boundaries on the edge of the buffer, early flush | entries are the records of the stream |
| regex parser cache (`operator/parser/regex/cache.go`) | map, queue of keys, eviction counter | `get`, `add`, the limiter's reset loop | concurrent adds, lock held over a channel send, unsigned arithmetic | bounded, never blocks, throttling ends |
| recombine (`operator/transformer/recombine`) | a batch for each source | `Process`, `flushLoop`, `Stop` | four ways to flush, timer against input | nothing lost or reordered, records not mixed, nothing waits forever |
| pipeline (`pipeline/`) | graph of operators | `Build`, `Start`, `Stop` | duplicate ids, order, partial failure | every operator is started after the ones it writes to, stopped before them |
| operator bases (`operator/helper`) | outputs, on_error | `Write`, `ProcessWith`, `ParseWith`, `HandleEntryError` | errors on one of several steps | every entry leaves once, or is dropped for a reason |
| parsers (`operator/helper/parser.go`, `time.go`, `severity*.go`, `trace.go`, `operator/parser/*`) | the entry, the severity map | `ParseWith`, `TimeParser.Parse`, `SeverityParserConfig.Build`, `postprocess`, the parse functions of csv and key_value | several steps of which any may fail, a clock that is read after the stamp was written, numbers printed and parsed again, iteration over a map | a failing step spoils nothing else, an entry leaves once, a stamp means the moment it was written |
| k8s_event_input | namespaces, watches | `Start`, `startWatchingNamespace(s)`, `Stop` | namespaces come and go while being iterated | every known namespace is watched once |
| journald_input, windows_eventlog_input | cursor, bookmark | `Start`, reading loops, `Stop` | crash between storing and writing | at most once, at least once |
| tcp_input, udp_input | listener, connection goroutines | `Start`, accept and read loops, `Stop` | shutdown against open connections, errors of `Accept` | clients are served, everything ends after `Stop` |
| IP resolver (`operator/helper/ip_resolver.go`) | cache of host names | `GetHostFromIp`, `invalidateCache`, `Stop` | slow lookups beside each other and the ticker | no name is older than it may be |
| router, filter, field transformers, entry fields | the entry's maps | `Process`; `Get`, `Set`, `Delete` of fields | nested maps, missing parents | each does to the entry what its name says |
| generate, stdin, outputs, test utilities | none or trivial | | | |

## Modules

| Module | Models | Used by |
|---|---|---|
| `FileInput` | file_input over many files: polls, batches, rotation, restarts, crashes | `MCFileInput`, `FileInputProofs` |
| `FileInputProofs` | its type invariant, its limit on open files, the order of known readers and the size of fingerprints, proved | `FileDeliveryProofs` |
| `FileDeliveryProofs` | that no line is skipped, that checkpoints and fingerprints are right, proved | |
| `Splitter` | the split functions and the flusher, and `Records`, what they should compute | `FileReader` |
| `FileReader` | one file, byte for byte: writer, scanner, fingerprint, polls | `MCFileReader`, `FileReaderProofs` |
| `FileReaderProofs` | that offsets skip no text and entries are records, proved | |
| `RegexCache` | the regex parser's cache and limiter | `MCParsers` |
| `Parsers` | an entry in a chain of parser operators: the base of the parsers, the embedded parsers, syslog's callback, csv's header | `MCParsers` |
| `Timestamps` | the time parser | `MCParsers` |
| `Severities` | the severity map and how it is built | `MCParsers` |
| `TextFormats` | the parse functions of csv_parser and key_value_parser | `MCParsers` |
| `ParsersProofs` | the invariants of the run `parsers` (cache, chains, time stamps, severities), proved; extends `MCParsers` | |
| `Recombine` | the recombine transformer | `MCTransformers`, `RecombineProofs` |
| `RecombineProofs` | that nothing is lost, reordered or mixed, and its limits, proved | |
| `EntryFields` | entry fields and the transformers move, copy, add, remove, retain, flatten, beside a reference | `MCTransformers` |
| `FieldNames` | the notation of field names | `MCTransformers` |
| `Pipeline` | building, starting and stopping a pipeline, and the entries that travel through it; operator bases, router, filter | `MCPipeline`, `PipelineProofs` |
| `PipelineProofs` | that made-up ids are free, that only running operators are called and that no branch sees what another does to an entry, proved | |
| `Delivery` | abstract: an input that checkpoints after delivery | `WindowsEvents` |
| `WindowsEvents` | windows_eventlog_input, which implements `Delivery` but for starting over at the end | `MCInputs` |
| `Journald` | journald_input | `MCInputs` |
| `K8sEvents` | k8s_event_input | `MCInputs` |
| `NetInputs` | tcp_input, udp_input and the resolver's goroutine: connections and shutdown | `MCInputs` |
| `IPResolver` | the resolver's cache of host names | `MCInputs`, `IPResolverProofs` |
| `IPResolverProofs` | how old a name may be, proved | `InputsProofs` |
| `InputsProofs` | the invariants of the run `inputs` (journald, Windows events, Kubernetes, network, resolver), proved; extends `MCInputs` | |

`MCInputs`, `MCParsers` and `MCTransformers` hold several models side by side; a variable
`which` says which of them a behaviour is about, and the others stand still.

### FileInput

State: `fs`, `data`, `archives` are the filesystem (paths, file contents, copies);
`known`, `queued`, `firstCheck`, `persisted` are the fields of `InputOperator` and
what the persister holds; `matches`, `files`, `unread`, `fps`, `readers` are the
local variables of a poll; `nOld` says how many of the known readers the roller
keeps open. `emitted`, `lossy` only record what happened.

A poll is the sequence `PollQueued`/`PollListing`, `OpenFile`*, `NewFingerprint`*,
(`ExcludeFile`/`MatchedReader`/`FreshReader`)*, `StartReading`, `ReadToEnd(i)` of
every reader interleaved, `Roll`, `ReadLost(i)`, `SaveCurrent`. The file system
(`CreateFile`, `WriteLine`, `MoveFile`, `RemoveFile`, `CopyFile`, `TruncateFile`)
and `Cancel`, `Crash` come between any two of them. A cell of a file is a whole
line with an identity of its own; offsets and fingerprint sizes count lines. The
array behind a fingerprint and its capacity are kept, because `Read` reslices it.
`DirSize` is the size the operating system gives for a directory, which is where
`InitializeOffset` puts a reader of one. `DetectLost` selects the unix or the windows roller.

### FileReader and Splitter

The other side of the same code: one file, where a cell is a newline, a match of
the multiline pattern or other text, and the writer may stop in the middle of a
line. `Read`, `Scan`, `TooLong` and `Panic` are the turns of `bufio.Scanner` inside
`ReadToEnd`; `PollKnown`, `PollNew`, `RollLost`, `SaveFound`, `SaveLost` the polls
around it. `bufio.Scanner` itself is external and modelled as the code uses it: a
split function that returns no token at the end of the file ends the scan.

### RegexCache

Callers run `Match` and then the steps of `add`; the check of the limiter, the
locked part, the read and the addition of `increment` and the insertion are
separate steps, and the reset loop runs beside them. The counter is a number
modulo `Wrap` (2^64 in the program); `Saturates` selects how the build converts a
negative float to an unsigned integer, which Go leaves to the platform.

### Parsers, Timestamps, Severities, TextFormats

`Parsers` follows one entry through a chain of operators. A parse function is given
by what it returns: for each name a value that is good, bad or absent for the
embedded parser that reads it. `Skip`, `ParseValue`, one `ParseStep` for each of
time, severity, trace and scope, `HandleErrors` and `Postprocess` are the steps of
`ProcessWithCallback` and `ParseWith`; `Transform` is the `ProcessWith` of the
operators that have one of these parsers alone. A field of the entry is the number
of the operator that set it, so that a property can say who did.

`Timestamps` has a stamp that waits while the clock runs on. `setTimestampYear`,
`parseGotime`, `getEpochStamp`, `parseEpochTime`, `Validate` and `setLocation` are
operators with the names of the source; the calendar, `time.ParseInLocation`, the
zone database and `strptime.ToNative` are external. The calendar is the real one,
by half days. Printing a float (rounding, padding) and parsing it again is modelled
on a smaller scale: a second has 1000 units, the layouts have one, two and three
decimals for three, six and nine, and numbers are padded to 5 characters for 10.

`Severities` builds the map in whatever order the loop over a Go map takes the
configured severities. Texts are structured values (an alias, a number, a class such
as `5xx`, a word), because the code tells them apart only by equality.

`TextFormats` has csv and key-value texts as sequences of characters: here the
properties are about characters. Quoted csv fields are left out; a quote where none
may be is in, because the code treats the error of the csv reader in its own way.

### Recombine

The operator's lock makes each of `Process`, a tick of `flushLoop` and `Stop` one
step. `Process` has one action per case of its switch. Entries are numbered; a
written entry is the sequence of entries it was combined from, with the positions of
those whose text it holds: `flushSource` leaves out an entry whose `combine_field`
cannot be read. `NothingLost` is said with places: a place is the text of an entry
within a written entry, or an entry within the batch that comes after all of them;
every accepted entry of a source has one, unless it has no `combine_field` and was
combined, and entries in later places are later.

### EntryFields and FieldNames

Go maps are references, so an entry is a heap of maps: `heap` holds them by
address, `entry` the value of body, attributes and resource. `Get`, `Set`, `Merge`,
`Delete` and `getNestedMap` work on it as the methods of the three kinds of field
do; the differences between the kinds (the root of attributes and resource is
nothing a configuration can name) are in what `Fields` may hold. Each transformer
is an action. Beside the heap, `tree` is what the same transformers do to an entry
that is a set of paths, where nothing can be shared. The values `add` was
configured with are in the heap too, because every entry is given the same ones.

`FieldNames` builds texts character by character; `Scan` is one turn of the loop of
`fromJSONDot`.

### Pipeline

An id is a string, split before the number at its end: a name and a number, 0 for
none, so that an operator may be given the type of another as its id (types do not
end in a digit). `Build` is one step with its parts as operators: `Deduplicated` (`dedeplucateIDs`:
a `Turn` of its loop for each operator, with the restarting search `FreeNum`; the
first operator of a type without an id keeps the bare type, whatever is named so),
`Defaulted`, `Connected`, and the reasons to refuse a configuration. That no operator
has the type `default` is an assumption: the default output is brought along by the
program that uses the pipeline. `Start` and `Stop` take operators one by one in an order `topo.Sort`
may return, chosen as they go. A goroutine is a stack of calls (`stacks`), one for
each input and one for the caller of `Stop`; a frame holds the entries its operator
still has to write and the outputs still to be called. Entries are pointers into
`heap`, so that it matters who copies (`Write`, for all outputs but the last) and who
does not (the router). A recombine operator holds its lock over the calls it makes;
here all entries have its `combine_field`.

### Inputs

`WindowsEvents`, `Journald`: items are numbered, a bookmark or cursor is a number.
Start, the steps of the reading goroutine, `Stop` in two steps (cancel, then the
wait), a crash at any moment, and failing calls of the persister are actions. The
first stores its position after a batch has been written, the second before each
entry is written; they therefore promise different things. `Delivery` is the promise
of the first: where it begins is chosen once, at the first startup. `WindowsEvents`
does not quite keep it, because without a bookmark every start with `start_at: end`
begins at the end: `ImplementsDelivery` says that this (`StartOver`) is its only step
that is not one of `Delivery`.

`K8sEvents` keeps the list of namespaces and the array behind the slice that `Start`
ranges over, because removals shift that array under the loop. An error event of a watch, whose
object is no `Event`, makes a type assertion panic and ends the process; that is left
out. `NetInputs` has a goroutine for the listener and two for each connection, with
the contexts that connect them. In `IPResolver` a name is the moment the name server
gave it, so that its age is known; a lookup runs without the lock and stores what it found later.

## Runs

| Run | Shows | Bounds |
|---|---|---|
| `fi_rotate` | lines are delivered without gaps and once, fingerprints belong to their files, limits hold, however files are moved, copied or removed | 2 paths, 2 files, 3 lines, 2 moves, copies or removals, batches of 1 |
| `fi_recover` | the checkpoint is never ahead of delivery, nothing is delivered twice before a crash, a failed checkpoint or a truncation, rotated files are drained | 1 file, 2 lines, 1 move, removal or truncation, 3 starts, a stop or crash or failed checkpoint at any step |
| `fi_batches` | lines of watched files arrive, also those written after a truncation, when a path waits for the next poll's batch and when the operator stops or crashes | 2 paths, 2 files, 2 lines, batches of 1, 1 move, removal or truncation, 2 starts, a stop or crash at any step |
| `fi_hostile` | fingerprints stay bounded whatever is done to the files | 3 paths, the middle one a directory, 2 files, copies and truncations, start_at end, windows roller |
| `reader` | offsets never skip text, entries are records, complete records are delivered | 4 cells, buffer of 4, fingerprint of 3, 1 restart, all split functions, one empty line at a time |
| `reader_blank_lines` | *violated*: two empty lines in a row hide what follows | the same, two empty lines |
| `parsers` | regex cache: what is cached can be evicted, no one blocks under the lock, the counter keeps its limit and throttling ends (where the reset lowers the counter); chains of parsers: a failing step spoils nothing else, an entry is sent once or as `on_error` says (but for two errors that are not handled); stamps mean the moment they stand for; severity maps do not depend on the order they are built in; csv and key-value texts are read back | 2 goroutines, 4 strings, size 2; every mixture of good, bad and missing values, chains of 2; 3 years around a leap year, 8 days around New Year and the end of February; 3 severities with overlapping values, 4 presets; csv texts of 5 characters, 2 pairs |
| `regex_cache_throttled` | *violated*: on amd64 the reset adds zero, and a throttled cache stays throttled | size 4, 1 goroutine, 5 strings |
| `transformers` | recombine: nothing lost but texts that are not there, nothing reordered or mixed, limits, flushed by the timeout; entries that passed field transformers are what the reference says, and maps are shared only by a copy (or add) of nested maps; names of fields are read back as they are printed | 4 entries, 3 sources, batches of 3; 2 transformers, 5 fields, 4 shapes of body, 3 added values; texts of 7 characters |
| `pipeline` | operators are called only while they run, branches do not see each other's changes, entries reach an output once for every way, made-up ids are free, `Stop` stops everything if the inputs were started | 10 configurations of up to 6 operators, 2 entries, any operator fails, `Start` fails anywhere |
| `pipeline_syslog` | *violated*: a syslog input has no edges in the graph, so it may be started before, and stopped after, what it writes to | 1 syslog input, 1 output, 1 entry |
| `inputs` | journald: what the cursor promises (at most once unless it could not be stored, and only a crash loses entries); Windows: `Delivery`, but for starting over at the end; Kubernetes: every namespace watched once, and watched again; TCP and UDP: clients are served, nothing left after `Stop`; resolver: how old a name may be; all: `Stop` returns | 3 items, one unreadable, 3 starts, 1 failed `Set`, `max_reads` 2; 3 namespaces, 2 changes of the cluster; 2 clients, 1 line each; 2 lookups beside each other, 7 units of time, lifetime and interval 2, a lookup 1 |

Why the bounds are enough: two paths and two files are what a rename, a
replacement under the old path and a file in another batch need (`fi_batches` has
both, and the crashes, for `Delivered`; `fi_recover`, with one path, has failing
checkpoints and a third start); three lines let a
fingerprint (two lines) be shorter than, equal to and shorter than the whole file;
three starts give two interruptions and a run to the end. Four cells hold a record,
a boundary and the beginning of the next one, and fill the scanner's buffer exactly.
Two goroutines and one string more than the cache holds give every interleaving of
miss, eviction and double insertion. The ten pipelines have a fork that joins
again, two inputs for one operator, recombine operators in parallel branches, a router
with a route of two outputs, a parser with a callback, given ids beside made-up ones,
and one configuration for every reason to refuse one, among them an id that is the
type of another operator. Three items and three starts let an
input be interrupted, go on, and be interrupted again with something left. Two changes
of the cluster refuse a namespace and permit it again. A configured list of
namespaces holds none twice. Two transformers in a row are enough for one to meet what
another left shared or replaced (`MaxSteps = 3` passes too, in some minutes). Seven
characters hold a key with a dot beside a key with a quote, in brackets.

A day before and after each boundary, and the middle of a day, are what the year of a
stamp can depend on; three years put a leap year on either side of the clock. Five
characters hold three csv fields on two lines. A lifetime and an interval of two, with
a lookup of one, let a name that was stored late live through a tick.

Deadlock is checked only for `parsers`, where it matters for the cache (the others of its
models may stand still when they have come to their end); in the other runs everything
stops when the bounded inputs are used up and the last start has been made.

### Fairness

* `FileInput`: weak fairness of the poller, which a ticker drives and whose
  goroutines only read files and call downstream; strong fairness of `Stopped`,
  because Go's `select` takes each ready case now and then; a stopped operator is
  started again, up to `MaxStarts`. The filesystem has none.
* `FileReader`: the poller runs while there is a file.
* `RegexCache`: a goroutine that called `add` runs on and gets the lock
  (`sync.RWMutex` does not starve a waiter), the reset loop runs. No one has to
  call `match`.
* `Recombine`: the clock and the ticker go on. No one has to send an entry.
* `Pipeline`: calls return (each is a step of some goroutine) and the loops of
  `Start` and `Stop` go on. Inputs need not write anything.
* `Journald`: the goroutine runs, and journalctl ends once its context is cancelled
  (`exec.CommandContext` kills it). It need not write or exit before that.
* `WindowsEvents`: the ticker ticks and the polling goroutine runs.
* `K8sEvents`: the goroutines run and the interval passes; the API answers.
* `NetInputs`: a blocked call returns an error once its socket or connection is
  closed, or the client has gone; the listener comes back from its back-off; what has
  arrived is read. Strong fairness of `Accept` for a client that waits: its errors
  come and go, and a limit on descriptors, say, does not make every call fail for
  ever. Clients owe nothing.
* `Parsers`, `Timestamps`, `Severities`, `TextFormats`, `IPResolver`: none, their
  properties are invariants.

## Proofs

`FileInputProofs` proves the following for any number of paths, files, lines and
restarts, any configured limits and either roller.

* `TypeCorrect`, `Spec => []TypeOK`. `TypeOK` is not inductive: that `files`, `unread`
  and `fps` are in step while readers are made, and that nothing is left of a poll
  between two polls, is the strengthening `Shape`; all later invariants rest on both.
* `TrackedHandlesCorrect` follows from `Batched`, which counts the paths still to be
  opened together with the files and readers: each step of `makeReaders` moves one
  from the first to the last, and the roller keeps at most one batch.
* `HandlesCorrect`, `DirPaths = {} => (Spec => []HandlesBounded)`: `HandlesBounded` also
  counts handles the operator has lost track of. It does not hold when a directory
  matches, hence the premise. The invariant is `NothingLeaked`: no path and no open
  file is a directory, and the files still to be fingerprinted and the fingerprints
  add up to the files, so that pairing them leaves none over.
* `OldestFirstCorrect`: the known readers are sorted by age. It is inductive together
  with the typing: a poll ages all of them alike, new readers are appended with
  generation 0, `saveCurrent` keeps a suffix, and a restart gives every stored reader
  generation 0.
* `FingerprintsBoundedCorrect`: no fingerprint is longer than `fingerprint_size`. The
  invariant `AllSmall` says so of the fingerprints of known readers, of this poll's,
  of the ones just taken and of the ones in the checkpoint, and bounds the capacity
  of their arrays, because `Read` reslices and appends within it.

`FileDeliveryProofs` proves `NoGapsCorrect`, `CheckpointDeliveredCorrect` and
`FingerprintsSoundCorrect`, each as `Undisturbed => (Spec => []...)`, for any number of
paths, files, lines, moves, copies, removals, stops and crashes and with a persister
that fails at will. `Undisturbed` is: no directory among the paths, no truncation, and
`start_at: beginning`. None of the three can be dropped: a directory shifts the pairing
of files and fingerprints, a file that was copied and then truncated makes a checkpoint
promise what was not delivered, and with `start_at: end` the lines before the start are
skipped on purpose. The inductive invariant `Delivering` has two halves. `Lineage` is
about the files: every line has one place, at which it is in a file and in the copies of
that file, and the file still written to is the longest of them. `ReadersSound` and
`RollerSound` are about known, current, stored and lost readers: in *every* file that
begins with a reader's fingerprint, all before its offset was delivered, the offset is
not past the end of the file that still grows, and a fingerprint that is not complete
reaches at least to the offset. The last is what makes matching by fingerprint safe: a
file cannot be taken for another one whose lines differ before the offset.

`FileReaderProofs` proves for a file of any length, any sizes of the scanner's buffer and
of the fingerprint, any flush period, every split function and any number of polls and
restarts:

* `OffsetsDeliveredCorrect`: no reader skips text. The invariant `ReaderInv` says that
  every place a reader may go on from, known, new or active, is in the file and has
  nothing undelivered before it, and that the scanner's buffer is what the file holds
  from the scanner's position on; that is what ties a split function, which only sees
  the buffer, to the file.
* `EntriesAreRecordsCorrect`: without a forced flush every entry is a complete record.
  `RecordInv` adds that all those places are between two records (`AtBoundaries`) and
  that two matches of a pattern do not touch (`FileOfMode`). A split function that
  starts on a boundary ends on the next one, whatever the end of the buffer hides.

`ParsersProofs` extends `MCParsers` and proves its invariants for every value of its
constants; `ChainsAssumption` (chains are sequences of operators, none is empty) and
`TimesAssumption` (years are positive, days are days of a month) say what values are
meant.

* `TypeCorrect`, `CacheCorrect` and `CountCorrect` are about the cache, for any number of
  goroutines and any size: exactly the holder of the lock is inside the locked part and
  the queue keeps its capacity; whatever is cached is queued and the send under the lock
  never blocks (the property `CacheSound`); where the reset does not raise the counter
  (up to a size of 13 on amd64, in all sizes on a build that saturates), it stays within
  its limit (`CountBounded`), which needs that a pending reset implies a positive counter.
* `StepsIndependentCorrect` and `SentOnceCorrect`, for chains of any operators and any
  length. The invariant `ChainInv` follows an entry through `ProcessWithCallback`: at
  each place of it, what has been parsed, which embedded parsers have run and what they
  left, and that nothing has been sent yet. `SentExactly` is `SentOnce` with what the two
  errors that are not handled send: nothing.
* `MappingRightCorrect`, for any severity configuration. After each turn of the loop of
  `Build` the map is right for the severities visited so far (`MappingInv`), hence the
  order of a Go map does not matter but for texts that two severities claim.
* `TimesRightCorrect`, for any years, days and numbers. The invariant is weak (the stamp
  is one of the stamps, the clock a date); the proof is the calendar: a stamp that is at
  most a week ahead of the clock and less than 365 days older than that gets the year it
  was written in, and the digits of a number are the same after printing and parsing.

`IPResolverProofs` proves for any number of callers and addresses and any durations
(`Durations`: the interval is positive) that no name is older than a lifetime, an
interval and the time its lookup took (`HostNotStaleCorrect`). The invariant relates
the ticker, the cache and the calls: the ticker fires within an interval
(`TickerAhead`), a name in the cache was stored within the time of a lookup and the
ticker fires within an interval after it expires (`CacheInTime`), and a name that is about to be stored
is as old as a lookup takes at most (`CallsInTime`).

`RecombineProofs` proves `NothingLostCorrect` and `BatchesSoundCorrect` for any number
of sources and entries, any limits and every configuration. The invariant
`RecombineInv` adds to the two properties the types (`Typed`), what may be in a batch
(`AllWaiting`: no entry that ends a record or, with `is_first_entry`, one that begins it
first and none after it) and the limits as they are between two steps (`Limited`). The
lemmas say what appending to a batch and writing a batch do to the places of entries;
a place is a text, so that the entries `flushSource` drops have none, and
`NothingLost` includes that no entry with a `combine_field` is among them.

`PipelineProofs` proves for every set of configurations, with or without a default
output, and for any number of entries:

* `IdsDistinctCorrect`, `Spec => []IdsDistinct`. The loop of `dedeplucateIDs` is a
  recursive function; that it exists, and what holds after each of its turns
  (`Turned`), is shown by induction. After `i` turns the given ids and those further
  on are untouched, every type met so far has a number, and of the ids that are given or
  settled two are equal only as `IdsDistinct` allows: neither was made up, and one was
  given. (The first operator of a type keeps the bare type although another may have been
  given it; `Build` then rejects the configuration.) A free number is found because there are fewer operators from
  the second on than numbers tried (the pigeonhole principle).
* `CallsRunningCorrect`, `Spec => [](NoSyslog => CallsRunning)`. A syslog input has no
  edges in the graph, and `pipeline_syslog` shows what comes of it. The invariant
  `PipelineInv`: outputs of a started operator are started (`OutputsStarted`), all that
  calls the operator the loop of `Stop` is at is stopped (`CallersStopped`), a recombine
  operator that holds entries is started (`BatchesLive`), and the calls of a goroutine
  are a chain (`CallChain`: each operator is started and called by the one below it, the
  first is the goroutine's own) in which a recombine operator is at most once and only
  with its lock (`Holding`). The chain is why waiting for the inputs is enough: an
  operator that is being stopped can only be in a call if one of its callers is, and
  those have stopped.
* `BranchesIsolatedCorrect`, `Spec => []BranchesIsolated`: whoever holds an entry sees
  only what was done to it on the way there. `BranchesIsolated` looks at entries
  that are about to be written or wait in a batch, and is not inductive: whether it holds
  after the next change depends on who else has the entry. The invariant (`Guarded`)
  therefore speaks of everyone who holds a pointer to an entry: the entries a call has
  still to write, those in a batch, and the argument of the call being made. Each of
  them may see what was done to its entry (by operators upstream, by an operator of
  another output of the same route, or behind the outputs its own router has already
  passed it to), and two holders of one entry are in different branches of a route. That
  a connected graph has no cycle keeps a branch from coming back to itself; that
  reachability, a recursive function, exists and is closed under edges is proved first.

`InputsProofs` extends `MCInputs` and proves its invariants for every value of the
constants, one model at a time: a step of the composition is a step of that model or
none.

* `NothingLeftCorrect`: an open connection has a goroutine that will close it, and what
  `Stop` has closed or waited for does not come back.
* `HostNotStaleCorrect`: the theorem of `IPResolverProofs`, carried over with `INSTANCE`.
* `CursorSoundCorrect`: what was written is not past the cursor unless that could not be
  stored (`CursorBehind`), and of the entries up to where the goroutine is, at most as
  many as there were crashes are neither written nor about to be (`FewLost`).
* `WatchedOnceCorrect`, for `DistinctNamespaces`: the namespaces are finitely many and
  none is configured twice (such a one would be watched twice). The invariant follows
  the loop of `Start` through the list it ranges over (`StartingSound`) and the finder,
  which adds namespaces to the list before it starts their goroutines (`FinderSound`).
* `Implementation`, for any number of events, any `max_reads`, any interruptions and
  failures: every step of `WindowsEvents` is one of `Delivery`, or starts over at the end
  because there is no bookmark (`ImplementsDelivery`). `ImplementationFromBeginning`: with
  `start_at: beginning` it implements `Delivery` without exception
  (`StartAtFirstStartup`, which is not so for `end`).
  `EventsDelivered`: therefore every readable event that has been passed was written, with
  `start_at: end` of those after the point where it last had to start at the end.
  `Delivery` allows the first delivery
  of an event only when all before it were dealt with; a step of the input is one of its
  steps because of the invariant `Inv`: the batch at hand is a run of consecutive events
  that ends at the subscription's position, what comes before it is dealt with, and the
  bookmark, the part dealt with and the log are in this order. The bookmark alone would
  not do: the goroutine may be anywhere in a batch when it stops.

Induction over data. The library's induction theorems take an operator as a parameter,
which the installed provers cannot instantiate. `PipelineProofs` therefore proves
induction for a *set* of numbers (`SetInduction`) from the well-foundedness of the
natural numbers, and uses it where a recursive function is to be unfolded.

Only model-checked:

* all liveness (`Delivered`, `Drained`, `RecordsDelivered`, `ThrottlingEnds`, `Flushed`,
  `Rewatched`, `ClientsServed`, `StopReturns`, `AllStopsReturn`): the prover has no
  reasoning about fairness and `ENABLED`;
* `NoDuplicates` of `FileInput`, which is not true for every number of moves: a file that
  each of more than `MaxGeneration` polls misses, because it is renamed between the
  listing and the opening, is forgotten and read again;
* `MatchesReference`, `SharedByCopy` and `RoundTrip`, which rest on `RECURSIVE` operators
  over maps and texts;
* `FormatsRight`, which compares folds over texts: its proof is an induction over them;
* `EveryWayOnce` of `Pipeline`: it counts the ways through the graph, and the sums over
  outputs on both sides would have to be matched step by step.

## What the model shows that is not a run of its own

`FileReader` reaches `Panic`: if a first line longer than `fingerprint_size` is met
half-written and completed before the next poll, the fingerprint has been cut back
to the offset and reslicing it fails. `RecordsDelivered` therefore excludes it.
`FileInput` reaches its own `Panic` in `fi_hostile`, with a directory among the matches.

* file_input: a directory among the matches leaves its handle open until the garbage
  collector finds it, so more files may be open than `max_concurrent_files`
  (`operator/input/file/design.md` says it is "respected at all times"); `HandlesBounded` fails as
  soon as `DirPaths` is not empty.
* file_input, copies: a copy shorter than `fingerprint_size` is matched with its original
  and may be read again; `NoDuplicates` exempts it. With batches of two or more, a
  shorter copy later in the same batch makes `makeReaders` drop the original
  (`StartsWith` is tried both ways), which is then not read while both are listed:
  `Delivered` is checked without copies.
* file_input, `start_at: end`: `firstCheck` is cleared after the first batch
  (`file.go:148`), so if the first listing takes several, the files of the later ones are
  read from their beginning, although `docs/operators/file_input.md` says that "no logs
  will be read unless the monitored file is actively being written to".
* file_input, half-written lines: `Read` cuts the fingerprint back to the offset
  (`reader.go:234`), so after a poll that met only a part of the first line it is empty and
  matches nothing: once the line is complete a new reader delivers it, and the old one,
  taken for lost, delivers it again (`file_test.go` says that a line written in two
  writes "close together still is read as a single entry").
* file_input, truncation: what is written after a truncation is always picked up
  (`Delivered` holds, through a crash or stop and a restart). Lines may be repeated if the file
  is truncated while a reader has it open, or a lost reader still does.
* regex cache: the reset adds the complement of a tenth of the limit, taken from a
  negative float. On amd64 the result lowers the counter by one for caches of at most
  three strings, leaves it alone up to a size of 13 (`regex_cache_throttled`: once
  throttled, such a cache stays so), and raises it from 14 on, so that it passes the
  limit and `increment`, which stops at the limit exactly, counts on. `ThrottlingEnds` is
  about counters that are lowered, `CountBounded` about those that are not raised.
* pipeline: the search for a free id starts again at the second operator;
  `IdsDistinct` allows for it. An id may be given as the type of another operator, which
  keeps its bare type all the same: the configuration is then refused. A route with several outputs gives all of them one entry:
  `BranchesIsolated` allows what they do to each other, and nothing else. `Stop` after a failed `Start` panics on inputs that
  were not started, whose cancel function is nil (`tcp.go:289` and the other inputs),
  so inputs that were started run on, although `directed.go:54` says that `Stop` stops
  the operators: `StopReturns` is about pipelines whose inputs were all started.
* parsers: an error of syslog's `postprocess`, and a missing header of csv_parser, lose
  the entry whatever `on_error` says (`docs/types/on_error.md` knows only `drop` and
  `send`). `postprocess` looks for severity and timestamp in the attributes, so it
  fails for a message without a time stamp (if the time parser is configured to read
  something else) and with `parse_to: body`, which `docs/operators/syslog_parser.md` gives
  as the default. `SentOnce` states the documented rule for every other error and leaves
  these two out.
* recombine: an entry without a `combine_field` is dropped from what is combined, with an
  error in the log; it is written as it is only if its batch is flushed uncombined.
* trace parser: a part that is missing is cleared on the entry, not left as it was.
* time parser: a 29th of February without a year, parsed in an ordinary year, becomes
  the 1st of March. A float below 100000 is refused in the layout `s.ms`, one below 100 in
  `s.us`, because it is printed with blanks before it. A negative stamp with decimals is
  off by twice its fraction, and the decimals of a text count as a number, whatever
  their count (`1.5` in `s.ms` is one second and 5 ms). An abbreviation the location does not know is
  looked up or refused, never taken for UTC.
* severity parser: a misspelt severity is mapped to `Default` without an error; a text that
  two severities claim gets either, depending on the order of a map.
* csv_parser panics on a text of line breaks only (`lines[0]`); a misplaced quote drops
  the rest of its line silently unless it is in the first field. key_value_parser takes
  an apostrophe for a quote.
* IP resolver: `GetHostFromIp` never looks at `expireTime`, and a slow lookup writes its
  name over a newer one; both are within the bound that is proved.
* k8s_event_input: `Start` ranges over the list without the lock while goroutines it
  started may remove namespaces from it: one is skipped for good, another watched
  twice. `WatchedOnce` excludes this (`shifted`). Without discovery, a namespace whose
  watch failed is never watched again.
* journald_input is silent after journalctl has exited; udp_input after one read
  error.
* windows_eventlog_input deletes its bookmark when it cannot be read. With
  `start_at: end` it then, and whenever it was interrupted before the first bookmark was
  stored, starts at the end and passes over events, although
  `docs/operators/windows_eventlog_input.md` confines `start_at` to the first startup.
  `ImplementsDelivery` names these steps and exempts them.
* copy of a map into one of its own keys (`body` to `body.a`) makes the entry cyclic,
  because the key is made before the map is copied; copies of nested maps, and nested
  maps that add is configured with, stay shared. `SharedByCopy` says exactly when.
* Field names: keys with a quote beside a key with a dot, and keys with a bracket, are
  printed as text that names another field or none.

## Plan

1. (done) `FileInput`, `Splitter`, `FileReader`, `RegexCache`, `Recombine`, `Pipeline`,
   the other inputs, `EntryFields`, `FieldNames`; type and limit theorems of `FileInput`,
   the invariants of `RegexCache`, the implementation of `Delivery`.
2. (done) Model: the parsers (`Parsers`, `Timestamps`, `Severities`, `TextFormats`), the
   resolver's cache, copies and truncations in the runs that check delivery, service of
   network clients. Proofs: `OldestFirst`, `HandlesBounded` without directories,
   `FingerprintsBounded`, `HostNotStale`.
3. (done) Proofs: `NoGaps`, `CheckpointDelivered`, `FingerprintsSound` of `FileInput`;
   `NothingLost`, `BatchesSound` of `Recombine`; `IdsDistinct` and `CallsRunning` of
   `Pipeline`; `CursorSound`, `WatchedOnce`, `NothingLeft`, `HostNotStale` of the inputs.
4. (done) Proofs: `OffsetsDelivered` and `EntriesAreRecords` of `FileReader`;
   `StepsIndependent`, `SentOnce`, `TimesRight` and `MappingRight` of the parsers;
   `BranchesIsolated` of `Pipeline`. Left: `EveryWayOnce` by induction over the graph, and
   `NoDuplicates` under a premise that bounds the moves between two polls.
5. Model: severity, trace and scope of an entry (which retain drops) in `EntryFields`;
   stdin as an input of its own.

## Not modelled

* Regular expressions, text encodings, JSON, URI and syslog grammars, quoted csv
  fields, TLS, host and file attributes: conversions by libraries. What happens to an
  entry when they fail is in `Parsers`.
* Rendering of Windows events, publishers and buffers: system calls and conversions of
  one value, without control of their own.
* stdin, whose loop is a scanner and a `Write`.
* Configuration unmarshalling, the registry, errors, logging and test utilities: glue
  code without state of its own.
