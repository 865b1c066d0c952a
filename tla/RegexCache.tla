----------------------------- MODULE RegexCache -----------------------------
(***************************************************************************)
(* The memory cache of the regex_parser operator and its rate limiter.     *)
(* Several goroutines call match at once (file_input reads every file in a *)
(* goroutine of its own); a goroutine of the limiter lowers the eviction   *)
(* counter at an interval.                                                 *)
(*                                                                         *)
(* Abstraction.  The parsed value of a string is a function of the string, *)
(* so the map is represented by its set of keys.                           *)
(***************************************************************************)
EXTENDS Integers, Sequences, FiniteSets

CONSTANTS
  Callers,     \* goroutines that call match
  Nobody,      \* none of them
  Values,      \* the strings they parse
  Matching,    \* the ones the regex matches
  MaxSize,     \* cache.size
  Wrap,        \* 2^64: the counter is a uint64
  Saturates    \* how the build converts a negative float to uint64: to 0
               \* (arm64) or to its two's complement (amd64)

\* Build creates a cache only for a positive size.
ASSUME CacheAssumption ==
  /\ Nobody \notin Callers
  /\ MaxSize \in Nat \ {0}
  /\ Matching \subseteq Values
  /\ Wrap \in Nat /\ Wrap > 2 * (MaxSize + 1)
  /\ Saturates \in BOOLEAN

VARIABLES
  cache,     \* keys of memoryCache.cache
  keys,      \* memoryCache.keys, a channel of capacity MaxSize
  holder,    \* who holds the write lock of memoryCache.mutex
  count,     \* atomicLimiter.count
  resetting, \* the limiter's goroutine saw a positive count
  pc,        \* where each caller is
  value      \* the string each caller parses

vars == <<cache, keys, holder, count, resetting, pc, value>>

\* newMemoryCache: throttling starts above a turnover of 100%.
max == MaxSize + 1

throttled == count >= max

\* math.Round(0.10 * max)
Tenth == (2 * max + 10) \div 20

\* ^uint64(x), where x is -Tenth
Complement ==
  (Wrap - 1) - (IF Saturates \/ Tenth = 0 THEN 0 ELSE Wrap - Tenth)

Init ==
  /\ cache = {} /\ keys = <<>> /\ holder = Nobody
  /\ count = 0 /\ resetting = FALSE
  /\ pc = [c \in Callers |-> "idle"]
  /\ value \in [Callers -> Values]

-----------------------------------------------------------------------------
(* RegexParser.match *)

Hit(v) == v \in cache

\* match up to cache.get: a hit, or a string that does not match, ends it.
Match(c, v) ==
  /\ pc[c] = "idle" /\ holder = Nobody
  /\ pc' = [pc EXCEPT ![c] = IF ~Hit(v) /\ v \in Matching THEN "add" ELSE "idle"]
  /\ value' = [value EXCEPT ![c] = v]
  /\ UNCHANGED <<cache, keys, holder, count, resetting>>

(* memoryCache.add *)

\* The limiter is asked before the lock is taken.
AddThrottled(c) ==
  /\ pc[c] = "add"
  /\ pc' = [pc EXCEPT ![c] = IF throttled THEN "idle" ELSE "lock"]
  /\ UNCHANGED <<cache, keys, holder, count, resetting, value>>

\* Mutant: one key more than the channel holds.
MutFull == Len(keys) > MaxSize

Full == Len(keys) = MaxSize

AddRoom(c) ==
  /\ pc[c] = "lock" /\ holder = Nobody /\ ~Full
  /\ holder' = c
  /\ pc' = [pc EXCEPT ![c] = "insert"]
  /\ UNCHANGED <<cache, keys, count, resetting, value>>

Evicted == cache \ {Head(keys)}

\* The oldest key goes; increment reads the counter.
AddEvict(c) ==
  /\ pc[c] = "lock" /\ holder = Nobody /\ Full
  /\ holder' = c
  /\ cache' = Evicted
  /\ keys' = Tail(keys)
  /\ pc' = [pc EXCEPT ![c] = IF count = max THEN "insert" ELSE "increment"]
  /\ UNCHANGED <<count, resetting, value>>

\* atomic.AddUint64
AddUint64(n) == (count + n) % Wrap

increment(c) ==
  /\ pc[c] = "increment"
  /\ count' = AddUint64(1)
  /\ pc' = [pc EXCEPT ![c] = "insert"]
  /\ UNCHANGED <<cache, keys, holder, resetting, value>>

\* The send on the channel blocks, with the lock held, while it is full.
AddInsert(c) ==
  /\ pc[c] = "insert" /\ Len(keys) < MaxSize
  /\ cache' = cache \cup {value[c]}
  /\ keys' = Append(keys, value[c])
  /\ holder' = Nobody
  /\ pc' = [pc EXCEPT ![c] = "idle"]
  /\ UNCHANGED <<count, resetting, value>>

(* The goroutine started by atomicLimiter.init *)

\* Mutant: the counter is lowered whatever it is.
MutPositive == TRUE

\* Mutant: the counter is lowered only above the limit.
MutAboveLimit == count > max

Positive == count > 0

\* time.Sleep returns and currentCount is positive.
ResetCheck ==
  /\ ~resetting /\ Positive
  /\ resetting' = TRUE
  /\ UNCHANGED <<cache, keys, holder, count, pc, value>>

ResetAdd ==
  /\ resetting
  /\ count' = AddUint64(Complement)
  /\ resetting' = FALSE
  /\ UNCHANGED <<cache, keys, holder, pc, value>>

-----------------------------------------------------------------------------
add(c) == AddThrottled(c) \/ AddRoom(c) \/ AddEvict(c) \/ increment(c) \/ AddInsert(c)

Limiter == ResetCheck \/ ResetAdd

Next ==
  \/ \E c \in Callers : add(c) \/ \E v \in Values : Match(c, v)
  \/ Limiter

\* A goroutine that called add, and the limiter's, run on; sync.RWMutex lets
\* everyone who waits for it in, in the end.  Nobody has to call match.
Spec ==
  /\ Init /\ [][Next]_vars
  /\ \A c \in Callers : SF_vars(add(c))
  /\ WF_vars(Limiter)

-----------------------------------------------------------------------------
Locked == {"increment", "insert"}

\* The state is well formed, and exactly the holder of the lock is inside it.
TypeOK ==
  /\ cache \subseteq Values
  /\ keys \in Seq(Values)
  /\ Len(keys) <= MaxSize
  /\ holder \in Callers \cup {Nobody}
  /\ count \in 0..(Wrap - 1)
  /\ resetting \in BOOLEAN
  /\ pc \in [Callers -> {"idle", "add", "lock"} \cup Locked]
  /\ value \in [Callers -> Values]
  /\ \A c \in Callers : pc[c] \in Locked <=> holder = c

\* Whatever is cached can be evicted: its key is in the queue, although two
\* callers that missed the same string both queue it.
CachedIsQueued == \A v \in cache : \E i \in 1..Len(keys) : keys[i] = v

\* The send of a new key never blocks with the lock held.
RoomToInsert == \A c \in Callers : pc[c] \in Locked => Len(keys) < MaxSize

\* What is cached can be evicted, and a caller that evicted can insert, however
\* the callers are interleaved.
CacheSound == CachedIsQueued /\ RoomToInsert

\* What the limiter adds at every interval: minus one if the tenth is rounded to
\* nothing, in caches of at most three strings, or saturates.  Otherwise it is the
\* tenth less one: nothing up to a size of 13, and more than nothing from there on.
Lowers == Complement = Wrap - 1
Raises == Complement \notin {0, Wrap - 1}

\* The counter stays below the limit the throttle compares it with, if the reset
\* does not raise it: the check and the addition of increment, and those of the
\* reset, are separate steps, but they do not carry it past the limit or below
\* zero.  (A reset that raises it passes the limit, and increment, which stops at
\* the limit, then counts on.)
CountBounded == ~Raises => count <= max

\* "The count is reset on an interval": a throttled cache is written to again after
\* some of them.
CountReset == throttled ~> ~throttled

\* So it is where the reset does lower the counter.
ThrottlingEnds == Lowers => CountReset

=============================================================================
