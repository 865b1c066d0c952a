----------------------------- MODULE IPResolver -----------------------------
(***************************************************************************)
(* The cache of host names of tcp_input and udp_input (add_attributes).    *)
(* The goroutines that read connections call GetHostFromIp; a goroutine of *)
(* the resolver removes expired names at an interval.                      *)
(*                                                                         *)
(* Abstraction.  A name is the moment at which the name server gave it: a  *)
(* host may have another name a moment later.  Time is counted in steps,   *)
(* and does not pass over a moment at which the ticker fires.              *)
(***************************************************************************)
EXTENDS Integers

CONSTANTS
  Callers,      \* goroutines that resolve addresses
  Ips,          \* addresses
  Lifetime,     \* five minutes, as GetHostFromIp adds them
  Interval,     \* defaultInvalidationInterval
  MaxLookup,    \* bound: how long an answer of the name server is under way
  MaxClock      \* bound: how long the resolver is watched

Durations ==
  /\ Lifetime \in Nat /\ Interval \in Nat \ {0}
  /\ MaxLookup \in Nat /\ MaxClock \in Nat

VARIABLES
  clock,
  tick,       \* when the ticker fires next
  cache,      \* for each address a set of at most one [name, expireTime]
  call,       \* what each caller is doing: [pc, ip, name]
  age,        \* how old the name of the last answer was
  stopped

vars == <<clock, tick, cache, call, age, stopped>>

Idle == [pc |-> "idle", ip |-> 0, name |-> 0]

Init ==
  /\ clock = 0 /\ tick = Interval
  /\ cache = [ip \in Ips |-> {}]
  /\ call = [c \in Callers |-> Idle]
  /\ age = 0 /\ stopped = FALSE

-----------------------------------------------------------------------------
(* GetHostFromIp *)

\* A name in the cache is taken whether it has expired or not.
Hit(c, ip) ==
  /\ call[c].pc = "idle" /\ ~stopped
  /\ \E entry \in cache[ip] : age' = clock - entry.name
  /\ UNCHANGED <<clock, tick, cache, call, stopped>>

Miss(c, ip) ==
  /\ call[c].pc = "idle" /\ ~stopped /\ cache[ip] = {}
  /\ call' = [call EXCEPT ![c] = [pc |-> "lookup", ip |-> ip, name |-> clock]]
  /\ UNCHANGED <<clock, tick, cache, age, stopped>>

\* lookupIpAddr, without a lock: the name server answers with the name of now.
Lookup(c) ==
  /\ call[c].pc = "lookup"
  /\ call' = [call EXCEPT ![c].pc = "store", ![c].name = clock]
  /\ UNCHANGED <<clock, tick, cache, age, stopped>>

\* Also over a newer name that another caller has stored meanwhile.
Store(c) ==
  /\ call[c].pc = "store"
  /\ cache' = [cache EXCEPT ![call[c].ip] =
                 {[name |-> call[c].name, expireTime |-> clock + Lifetime]}]
  /\ age' = clock - call[c].name
  /\ call' = [call EXCEPT ![c] = Idle]
  /\ UNCHANGED <<clock, tick, stopped>>

-----------------------------------------------------------------------------
(* The goroutine of start, and Stop *)

\* Mutant: the comparison is turned round.
MutExpired(entry) == entry.expireTime > clock

Expired(entry) == entry.expireTime < clock

invalidateCache ==
  /\ ~stopped /\ clock = tick
  /\ cache' = [ip \in Ips |-> {entry \in cache[ip] : ~Expired(entry)}]
  /\ tick' = clock + Interval
  /\ UNCHANGED <<clock, call, age, stopped>>

\* The inputs call it when the goroutines that read connections have ended.
Stop ==
  /\ ~stopped /\ \A c \in Callers : call[c] = Idle
  /\ stopped' = TRUE
  /\ UNCHANGED <<clock, tick, cache, call, age>>

\* Time passes, but not beyond the ticker or MaxLookup.
Tick ==
  /\ clock < MaxClock
  /\ stopped \/ clock < tick
  /\ \A c \in Callers : call[c].pc = "store" => clock < call[c].name + MaxLookup
  /\ clock' = clock + 1
  /\ UNCHANGED <<tick, cache, call, age, stopped>>

Next ==
  \/ \E c \in Callers :
       \/ Lookup(c) \/ Store(c)
       \/ \E ip \in Ips : Hit(c, ip) \/ Miss(c, ip)
  \/ invalidateCache \/ Stop \/ Tick

Spec == Init /\ [][Next]_vars

-----------------------------------------------------------------------------
\* GetHostFromIp never looks at expireTime, and names are removed only when the
\* ticker fires; even so, no answer is older than a lifetime, an interval and
\* the time its lookup took.
HostNotStale == age <= Lifetime + Interval + MaxLookup

=============================================================================
