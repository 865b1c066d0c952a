--------------------------- MODULE IPResolverProofs --------------------------
(***************************************************************************)
(* How stale a host name may be, for any number of callers and addresses,  *)
(* any lifetime and interval, and however long the resolver runs.          *)
(***************************************************************************)
EXTENDS IPResolver, TLAPS

Entry == [name : Nat, expireTime : Nat]

TypeOK ==
  /\ clock \in Nat /\ tick \in Nat /\ age \in Int
  /\ stopped \in BOOLEAN
  /\ cache \in [Ips -> SUBSET Entry]
  /\ call \in [Callers -> [pc : {"idle", "lookup", "store"}, ip : Ips \cup {0}, name : Nat]]
  /\ \A c \in Callers : call[c].pc # "idle" => call[c].ip \in Ips

\* The ticker fires within an interval.
TickerAhead == ~stopped => clock <= tick /\ tick <= clock + Interval

\* A cached name is no older than its lookup and its lifetime when it expires,
\* and the ticker fires once more within an interval of that.
EntryInTime(e) ==
  /\ e.expireTime <= e.name + MaxLookup + Lifetime
  /\ ~stopped => tick <= e.expireTime + Interval

CacheInTime == \A ip \in Ips : \A e \in cache[ip] : EntryInTime(e)

\* An answer that is under way is no older than MaxLookup.
CallsInTime ==
  \A c \in Callers : call[c].pc = "store" => clock <= call[c].name + MaxLookup

Inv == TypeOK /\ TickerAhead /\ CacheInTime /\ CallsInTime /\ HostNotStale

\* A well-typed state stays well typed.
LEMMA TypeStep ==
  ASSUME Durations, TypeOK, [Next]_vars
  PROVE  TypeOK'
<1> USE DEF TypeOK, Durations
<1>1. ASSUME NEW c \in Callers, NEW ip \in Ips, Hit(c, ip) PROVE TypeOK'
  <2>1. PICK e \in cache[ip] : age' = clock - e.name
    BY <1>1 DEF Hit
  <2>2. e.name \in Nat
    BY DEF Entry
  <2> QED
    BY <1>1, <2>1, <2>2 DEF Hit
<1>2. ASSUME NEW c \in Callers, NEW ip \in Ips, Miss(c, ip) PROVE TypeOK'
  BY <1>2 DEF Miss
<1>3. ASSUME NEW c \in Callers, Lookup(c) PROVE TypeOK'
  BY <1>3 DEF Lookup
<1>4. ASSUME NEW c \in Callers, Store(c) PROVE TypeOK'
  <2>1. [name |-> call[c].name, expireTime |-> clock + Lifetime] \in Entry
    BY DEF Entry
  <2>2. cache' \in [Ips -> SUBSET Entry]
    BY <1>4, <2>1 DEF Store
  <2>3. call' = [call EXCEPT ![c] = Idle] /\ age' = clock - call[c].name
        /\ UNCHANGED <<clock, tick, stopped>>
    BY <1>4 DEF Store
  <2> QED
    BY <2>2, <2>3 DEF Idle
<1>5. CASE invalidateCache
  <2>1. cache' \in [Ips -> SUBSET Entry]
    BY <1>5 DEF invalidateCache
  <2> QED
    BY <1>5, <2>1 DEF invalidateCache
<1>6. CASE Stop
  BY <1>6 DEF Stop
<1>7. CASE Tick
  BY <1>7 DEF Tick
<1>8. CASE UNCHANGED vars
  BY <1>8 DEF vars
<1> QED
  BY <1>1, <1>2, <1>3, <1>4, <1>5, <1>6, <1>7, <1>8 DEF Next

\* The numbers in a cached name.
LEMMA EntryNumbers ==
  ASSUME TypeOK, NEW ip \in Ips, NEW e \in cache[ip]
  PROVE  e.name \in Nat /\ e.expireTime \in Nat
  BY DEF TypeOK, Entry

\* A name that is taken from the cache is not older than is claimed.
LEMMA HitStep ==
  ASSUME Durations, Inv, NEW c \in Callers, NEW ip \in Ips, Hit(c, ip)
  PROVE  Inv'
<1>1. PICK e \in cache[ip] : age' = clock - e.name
  BY DEF Hit
<1>2. ~stopped /\ UNCHANGED <<clock, tick, cache, call, stopped>>
  BY DEF Hit
<1>3. e.name \in Nat /\ e.expireTime \in Nat /\ clock \in Nat /\ tick \in Nat
  BY EntryNumbers DEF Inv, TypeOK
<1>4. clock <= tick /\ tick <= e.expireTime + Interval
      /\ e.expireTime <= e.name + MaxLookup + Lifetime
  BY <1>2 DEF Inv, TickerAhead, CacheInTime, EntryInTime
<1>5. age' <= Lifetime + Interval + MaxLookup
  BY <1>1, <1>3, <1>4 DEF Durations
<1>6. TypeOK'
  BY TypeStep DEF Inv, Next
<1> QED
  BY <1>2, <1>5, <1>6 DEF Inv, TickerAhead, CacheInTime, CallsInTime, EntryInTime,
     HostNotStale

\* Looking a name up.
LEMMA LookupStep ==
  ASSUME Durations, Inv, NEW c \in Callers,
         Lookup(c) \/ \E ip \in Ips : Miss(c, ip)
  PROVE  Inv'
<1>1. TypeOK'
  BY TypeStep DEF Inv, Next
<1>2. UNCHANGED <<clock, tick, cache, age, stopped>>
  BY DEF Lookup, Miss
<1>3. TickerAhead' /\ CacheInTime' /\ HostNotStale'
  BY <1>2 DEF Inv, TickerAhead, CacheInTime, EntryInTime, HostNotStale
<1>4. ASSUME NEW d \in Callers, call'[d].pc = "store"
      PROVE  clock' <= call'[d].name + MaxLookup
  <2>1. clock \in Nat /\ MaxLookup \in Nat
    BY DEF Inv, TypeOK, Durations
  <2>2. call'[d] = call[d] \/ (call'[d].pc = "store" /\ call'[d].name = clock)
    <3>1. CASE Lookup(c)
      BY <3>1 DEF Lookup, Inv, TypeOK
    <3>2. ASSUME NEW ip \in Ips, Miss(c, ip)
          PROVE  call'[d] = call[d] \/ call'[d].pc = "lookup"
      BY <3>2 DEF Miss, Inv, TypeOK
    <3> QED
      BY <1>4, <3>1, <3>2
  <2> QED
    BY <1>2, <1>4, <2>1, <2>2 DEF Inv, CallsInTime
<1> QED
  BY <1>1, <1>3, <1>4 DEF Inv, CallsInTime

\* The answer is put into the cache and returned.
LEMMA StoreStep ==
  ASSUME Durations, Inv, NEW c \in Callers, Store(c)
  PROVE  Inv'
<1> DEFINE new == [name |-> call[c].name, expireTime |-> clock + Lifetime]
<1>1. TypeOK'
  BY TypeStep DEF Inv, Next
<1>2. /\ call[c].pc = "store" /\ UNCHANGED <<clock, tick, stopped>>
      /\ age' = clock - call[c].name
      /\ call' = [call EXCEPT ![c] = Idle]
      /\ cache' = [cache EXCEPT ![call[c].ip] = {new}]
  BY DEF Store
<1>3. clock \in Nat /\ tick \in Nat /\ call[c].name \in Nat
  BY DEF Inv, TypeOK
<1>4. clock <= call[c].name + MaxLookup
  BY <1>2 DEF Inv, CallsInTime
<1>5. /\ new.expireTime <= new.name + MaxLookup + Lifetime
      /\ ~stopped' => tick' <= new.expireTime + Interval
  <2>1. ~stopped => tick <= clock + Interval
    BY DEF Inv, TickerAhead
  <2> QED
    BY <1>2, <1>3, <1>4, <2>1 DEF Durations
<1>6. CacheInTime'
  <2> SUFFICES ASSUME NEW ip \in Ips, NEW e \in cache'[ip] PROVE EntryInTime(e)'
    BY DEF CacheInTime
  <2>1. e = new \/ e \in cache[ip]
    BY <1>2 DEF Inv, TypeOK
  <2>2. CASE e \in cache[ip]
    BY <1>2, <2>2 DEF Inv, CacheInTime, EntryInTime
  <2>3. CASE e = new
    BY <1>5, <2>3 DEF EntryInTime
  <2> QED
    BY <2>1, <2>2, <2>3
<1>7. CallsInTime'
  BY <1>2 DEF Inv, CallsInTime, TypeOK, Idle
<1>8. HostNotStale'
  BY <1>2, <1>3, <1>4 DEF HostNotStale, Durations
<1>9. TickerAhead'
  BY <1>2 DEF Inv, TickerAhead
<1> QED
  BY <1>1, <1>6, <1>7, <1>8, <1>9 DEF Inv

\* What survives invalidateCache expires now or later, so that the next firing
\* of the ticker is early enough to remove it.
LEMMA InvalidateStep ==
  ASSUME Durations, Inv, invalidateCache
  PROVE  Inv'
<1>1. TypeOK'
  BY TypeStep DEF Inv, Next
<1>2. /\ tick' = clock + Interval /\ UNCHANGED <<clock, call, age, stopped>>
      /\ cache' = [ip \in Ips |-> {entry \in cache[ip] : ~Expired(entry)}]
  BY DEF invalidateCache
<1>3. clock \in Nat /\ Interval \in Nat
  BY DEF Inv, TypeOK, Durations
<1>4. CacheInTime'
  <2> SUFFICES ASSUME NEW ip \in Ips, NEW e \in cache'[ip] PROVE EntryInTime(e)'
    BY DEF CacheInTime
  <2>1. e \in cache[ip] /\ ~Expired(e)
    BY <1>2
  <2>2. e.expireTime \in Nat /\ e.name \in Nat
    BY <2>1, EntryNumbers DEF Inv
  <2>3. e.expireTime >= clock
    BY <1>3, <2>1, <2>2 DEF Expired
  <2>4. e.expireTime <= e.name + MaxLookup + Lifetime
    BY <2>1 DEF Inv, CacheInTime, EntryInTime
  <2> QED
    BY <1>2, <1>3, <2>2, <2>3, <2>4 DEF EntryInTime
<1>5. TickerAhead'
  BY <1>2, <1>3 DEF TickerAhead
<1> QED
  BY <1>1, <1>2, <1>4, <1>5 DEF Inv, CallsInTime, HostNotStale

\* Time passes.
LEMMA TickStep ==
  ASSUME Durations, Inv, Tick
  PROVE  Inv'
<1>1. TypeOK'
  BY TypeStep DEF Inv, Next
<1>2. /\ clock' = clock + 1 /\ UNCHANGED <<tick, cache, call, age, stopped>>
      /\ stopped \/ clock < tick
      /\ \A c \in Callers : call[c].pc = "store" => clock < call[c].name + MaxLookup
  BY DEF Tick
<1>3. clock \in Nat /\ tick \in Nat /\ Interval \in Nat /\ MaxLookup \in Nat
      /\ \A c \in Callers : call[c].name \in Nat
  BY DEF Inv, TypeOK, Durations
<1>4. TickerAhead'
  BY <1>2, <1>3 DEF Inv, TickerAhead
<1>5. CallsInTime'
  BY <1>2, <1>3 DEF CallsInTime
<1> QED
  BY <1>1, <1>2, <1>4, <1>5 DEF Inv, CacheInTime, EntryInTime, HostNotStale

\* Every step keeps all of it.
LEMMA InvStep == ASSUME Durations, Inv, [Next]_vars PROVE Inv'
<1>1. CASE Stop
  <2>1. stopped' = TRUE /\ UNCHANGED <<clock, tick, cache, call, age>>
    BY <1>1 DEF Stop
  <2>2. TypeOK'
    BY TypeStep DEF Inv
  <2> QED
    BY <2>1, <2>2 DEF Inv, TickerAhead, CacheInTime, EntryInTime, CallsInTime, HostNotStale
<1>2. CASE UNCHANGED vars
  BY <1>2 DEF vars, Inv, TypeOK, TickerAhead, CacheInTime, EntryInTime, CallsInTime,
     HostNotStale
<1> QED
  BY <1>1, <1>2, HitStep, LookupStep, StoreStep, InvalidateStep, TickStep DEF Next

\* A resolver that was just built.
LEMMA InitInv == ASSUME Durations, Init PROVE Inv
<1>1. TypeOK
  <2>1. cache \in [Ips -> SUBSET Entry]
    BY DEF Init
  <2>2. /\ call \in [Callers -> [pc : {"idle", "lookup", "store"}, ip : Ips \cup {0}, name : Nat]]
        /\ \A c \in Callers : call[c].pc = "idle"
    BY DEF Init, Idle
  <2>3. clock \in Nat /\ tick \in Nat /\ age \in Int
    BY DEF Init, Durations
  <2>4. stopped \in BOOLEAN
    BY DEF Init
  <2> QED
    BY <2>1, <2>2, <2>3, <2>4 DEF TypeOK
<1>2. CacheInTime /\ CallsInTime
  BY DEF Init, CacheInTime, CallsInTime, Idle
<1>3. TickerAhead /\ HostNotStale
  BY DEF Init, TickerAhead, HostNotStale, Durations
<1> QED
  BY <1>1, <1>2, <1>3 DEF Inv

\* GetHostFromIp never looks at expireTime, but no name it returns is older than
\* a lifetime, an interval of the ticker and the time of a lookup, whoever
\* overwrites whose entry.
THEOREM HostNotStaleCorrect == Durations => (Spec => []HostNotStale)
<1> SUFFICES ASSUME Durations PROVE Spec => []HostNotStale
  OBVIOUS
<1>1. Init => Inv
  BY InitInv
<1>2. Inv /\ [Next]_vars => Inv'
  BY InvStep
<1>3. Inv => HostNotStale
  BY DEF Inv
<1> QED
  BY <1>1, <1>2, <1>3, PTL DEF Spec

=============================================================================
