---------------------------- MODULE ParsersProofs ----------------------------
(***************************************************************************)
(* What is proved of the parser operators: of the cache of regex_parser,   *)
(* for any number of callers and any size; of severity mappings, for any   *)
(* configuration; of chains of parsers, for any operators; and of time     *)
(* stamps, for any years and days.                                         *)
(***************************************************************************)
EXTENDS MCParsers, SequenceTheorems, WellFoundedInduction, TLAPS

-----------------------------------------------------------------------------
(* The cache of regex_parser and its limiter *)

\* atomic.AddUint64 stays in the counter's width, and wraps around once.
LEMMA AddWraps ==
  ASSUME NEW a \in 0..(Wrap - 1), NEW n \in 0..(Wrap - 1)
  PROVE  /\ (a + n) % Wrap \in 0..(Wrap - 1)
         /\ a + n < Wrap => (a + n) % Wrap = a + n
         /\ a + n >= Wrap => (a + n) % Wrap = a + n - Wrap
  BY CacheAssumption, SMTT(30)

\* What the reset adds is a uint64 as well.
LEMMA ComplementType == Complement \in 0..(Wrap - 1) /\ max \in Nat /\ max < Wrap
<1>1. Tenth \in Nat /\ Tenth <= MaxSize + 1
  BY CacheAssumption DEF Tenth, max
<1> QED BY <1>1, CacheAssumption DEF Complement, max

\* Every step keeps the state well formed: the lock has at most one holder, and
\* only the holder changes the map and the queue.
LEMMA TypeStep == TypeOK /\ [Next]_vars => TypeOK'
<1> SUFFICES ASSUME TypeOK, [Next]_vars PROVE TypeOK'
  OBVIOUS
<1> USE CacheAssumption, ComplementType
<1>1. ASSUME NEW c \in Callers, NEW v \in Values, Match(c, v) PROVE TypeOK'
  BY <1>1 DEF TypeOK, Match, Locked
<1>2. ASSUME NEW c \in Callers, AddThrottled(c) PROVE TypeOK'
  BY <1>2 DEF TypeOK, AddThrottled, Locked
<1>3. ASSUME NEW c \in Callers, AddRoom(c) PROVE TypeOK'
  BY <1>3 DEF TypeOK, AddRoom, Locked
<1>4. ASSUME NEW c \in Callers, AddEvict(c) PROVE TypeOK'
  <2>1. keys \in Seq(Values) /\ keys # <<>>
    BY <1>4 DEF TypeOK, AddEvict, Full
  <2>2. Tail(keys) \in Seq(Values) /\ Len(Tail(keys)) = Len(keys) - 1
    BY <2>1
  <2> QED BY <1>4, <2>2 DEF TypeOK, AddEvict, Evicted, Locked
<1>5. ASSUME NEW c \in Callers, increment(c) PROVE TypeOK'
  <2>1. AddUint64(1) \in 0..(Wrap - 1)
    BY AddWraps DEF TypeOK, AddUint64
  <2> QED BY <1>5, <2>1 DEF TypeOK, increment, Locked
<1>6. ASSUME NEW c \in Callers, AddInsert(c) PROVE TypeOK'
  <2>1. keys \in Seq(Values) /\ value[c] \in Values
    BY DEF TypeOK
  <2>2. Append(keys, value[c]) \in Seq(Values) /\ Len(Append(keys, value[c])) = Len(keys) + 1
    BY <2>1
  <2> QED BY <1>6, <2>1, <2>2 DEF TypeOK, AddInsert, Locked
<1>7. ASSUME ResetCheck PROVE TypeOK'
  BY <1>7 DEF TypeOK, ResetCheck
<1>8. ASSUME ResetAdd PROVE TypeOK'
  <2>1. AddUint64(Complement) \in 0..(Wrap - 1)
    BY AddWraps DEF TypeOK, AddUint64
  <2> QED BY <1>8, <2>1 DEF TypeOK, ResetAdd
<1>9. ASSUME UNCHANGED vars PROVE TypeOK'
  BY <1>9 DEF TypeOK, vars
<1> QED
  BY <1>1, <1>2, <1>3, <1>4, <1>5, <1>6, <1>7, <1>8, <1>9
  DEF Next, add, Limiter

\* The cache is well formed in every state, and the lock is exclusive.
THEOREM TypeCorrect == Spec => []TypeOK
<1>1. ASSUME Init PROVE TypeOK
  <2>1. /\ pc \in [Callers -> {"idle", "add", "lock"} \cup Locked]
        /\ \A c \in Callers : pc[c] \in Locked <=> holder = c
    BY <1>1, CacheAssumption DEF Init, Locked
  <2>2. keys \in Seq(Values) /\ Len(keys) = 0
    BY <1>1 DEF Init
  <2>3. count \in 0..(Wrap - 1)
    BY <1>1, CacheAssumption DEF Init
  <2>4. resetting \in BOOLEAN
    BY <1>1 DEF Init
  <2> QED BY <1>1, <2>1, <2>2, <2>3, <2>4, CacheAssumption DEF Init, TypeOK
<1> QED BY <1>1, TypeStep, PTL DEF Spec

-----------------------------------------------------------------------------
\* The map and the queue stay in step: an eviction removes the key it takes
\* from the queue, whether or not the queue holds it a second time.
LEMMA CacheStep ==
  TypeOK /\ CachedIsQueued /\ RoomToInsert /\ [Next]_vars
    => CachedIsQueued' /\ RoomToInsert'
<1> SUFFICES ASSUME TypeOK, CachedIsQueued, RoomToInsert, [Next]_vars
             PROVE  CachedIsQueued' /\ RoomToInsert'
  OBVIOUS
<1> USE CacheAssumption
<1>1. ASSUME NEW c \in Callers, NEW v \in Values, Match(c, v)
      PROVE  CachedIsQueued' /\ RoomToInsert'
  BY <1>1 DEF TypeOK, CachedIsQueued, RoomToInsert, Match, Locked
<1>2. ASSUME NEW c \in Callers, AddThrottled(c)
      PROVE  CachedIsQueued' /\ RoomToInsert'
  BY <1>2 DEF TypeOK, CachedIsQueued, RoomToInsert, AddThrottled, Locked
<1>3. ASSUME NEW c \in Callers, AddRoom(c)
      PROVE  CachedIsQueued' /\ RoomToInsert'
  BY <1>3 DEF TypeOK, CachedIsQueued, RoomToInsert, AddRoom, Full, Locked
<1>4. ASSUME NEW c \in Callers, AddEvict(c)
      PROVE  CachedIsQueued' /\ RoomToInsert'
  <2>1. keys \in Seq(Values) /\ keys # <<>> /\ Len(keys) = MaxSize
    BY <1>4 DEF TypeOK, AddEvict, Full
  <2>2. keys' = Tail(keys) /\ cache' = cache \ {Head(keys)}
    BY <1>4 DEF AddEvict, Evicted
  <2>3. /\ Len(Tail(keys)) = Len(keys) - 1
        /\ \A i \in 1..Len(Tail(keys)) : Tail(keys)[i] = keys[i + 1]
    BY <2>1
  <2>4. ASSUME NEW v \in cache'
        PROVE  \E i \in 1..Len(keys') : keys'[i] = v
    <3>1. PICK i \in 1..Len(keys) : keys[i] = v
      BY <2>2, <2>4 DEF CachedIsQueued
    <3>2. i # 1
      BY <2>1, <2>2, <2>4, <3>1
    <3>3. i - 1 \in 1..Len(Tail(keys)) /\ Tail(keys)[i - 1] = v
      BY <2>1, <2>3, <3>1, <3>2
    <3> QED BY <2>2, <3>3
  <2>5. \A d \in Callers : pc'[d] \in Locked => Len(keys') < MaxSize
    BY <2>1, <2>2, <2>3
  <2> QED BY <2>4, <2>5 DEF CachedIsQueued, RoomToInsert
<1>5. ASSUME NEW c \in Callers, increment(c)
      PROVE  CachedIsQueued' /\ RoomToInsert'
  BY <1>5 DEF TypeOK, CachedIsQueued, RoomToInsert, increment, Locked
<1>6. ASSUME NEW c \in Callers, AddInsert(c)
      PROVE  CachedIsQueued' /\ RoomToInsert'
  <2>1. keys \in Seq(Values) /\ value[c] \in Values
    BY DEF TypeOK
  <2>2. keys' = Append(keys, value[c]) /\ cache' = cache \cup {value[c]}
    BY <1>6 DEF AddInsert
  <2>3. /\ Len(keys') = Len(keys) + 1
        /\ \A i \in 1..Len(keys) : keys'[i] = keys[i]
        /\ keys'[Len(keys) + 1] = value[c]
    BY <2>1, <2>2
  <2>4. CachedIsQueued'
    BY <2>1, <2>2, <2>3 DEF CachedIsQueued
  <2>5. \A d \in Callers : pc'[d] \notin Locked
    BY <1>6 DEF AddInsert, TypeOK, Locked
  <2> QED BY <2>4, <2>5 DEF RoomToInsert
<1>7. ASSUME ResetCheck PROVE CachedIsQueued' /\ RoomToInsert'
  BY <1>7 DEF CachedIsQueued, RoomToInsert, ResetCheck
<1>8. ASSUME ResetAdd PROVE CachedIsQueued' /\ RoomToInsert'
  BY <1>8 DEF CachedIsQueued, RoomToInsert, ResetAdd
<1>9. ASSUME UNCHANGED vars PROVE CachedIsQueued' /\ RoomToInsert'
  BY <1>9 DEF CachedIsQueued, RoomToInsert, vars
<1> QED
  BY <1>1, <1>2, <1>3, <1>4, <1>5, <1>6, <1>7, <1>8, <1>9
  DEF Next, add, Limiter

\* Everything in the cache can be evicted, and a caller that holds the lock is
\* never blocked by a full queue.
THEOREM CacheCorrect == Spec => []CacheSound
<1>1. Init => CachedIsQueued /\ RoomToInsert
  BY DEF Init, CachedIsQueued, RoomToInsert, Locked
<1>2. CachedIsQueued /\ RoomToInsert => CacheSound
  BY DEF CacheSound
<1> QED BY <1>1, <1>2, CacheStep, TypeCorrect, PTL DEF Spec

-----------------------------------------------------------------------------
\* What CountBounded needs to be inductive: a caller about to count found the
\* counter below the limit, and the reset found it positive.
CountInv ==
  /\ count <= max
  /\ \A c \in Callers : pc[c] = "increment" => count < max
  /\ resetting => count > 0

\* Only the holder of the lock adds and only the limiter's goroutine subtracts,
\* or leaves the counter alone, so what each of them read still bounds the counter
\* when it acts on it.
LEMMA CountStep ==
  ~Raises /\ TypeOK /\ CountInv /\ [Next]_vars => CountInv'
<1> SUFFICES ASSUME ~Raises, TypeOK, CountInv, [Next]_vars
             PROVE  CountInv'
  OBVIOUS
<1> USE CacheAssumption, ComplementType
<1>1. ASSUME NEW c \in Callers, NEW v \in Values, Match(c, v) PROVE CountInv'
  BY <1>1 DEF TypeOK, CountInv, Match, max
<1>2. ASSUME NEW c \in Callers, AddThrottled(c) PROVE CountInv'
  BY <1>2 DEF TypeOK, CountInv, AddThrottled, max
<1>3. ASSUME NEW c \in Callers, AddRoom(c) PROVE CountInv'
  BY <1>3 DEF TypeOK, CountInv, AddRoom, max
<1>4. ASSUME NEW c \in Callers, AddEvict(c) PROVE CountInv'
  BY <1>4 DEF TypeOK, CountInv, AddEvict, max
<1>5. ASSUME NEW c \in Callers, increment(c) PROVE CountInv'
  <2>1. count \in 0..(Wrap - 1) /\ count < max
    BY <1>5 DEF TypeOK, CountInv, increment
  <2>2. AddUint64(1) = count + 1
    BY <2>1, AddWraps DEF AddUint64
  <2>3. \A d \in Callers : pc'[d] # "increment"
    BY <1>5 DEF TypeOK, increment, Locked
  <2> QED BY <1>5, <2>1, <2>2, <2>3 DEF CountInv, increment
<1>6. ASSUME NEW c \in Callers, AddInsert(c) PROVE CountInv'
  BY <1>6 DEF TypeOK, CountInv, AddInsert, max
<1>7. ASSUME ResetCheck PROVE CountInv'
  BY <1>7 DEF TypeOK, CountInv, ResetCheck, Positive
<1>8. ASSUME ResetAdd PROVE CountInv'
  <2>1. count \in 0..(Wrap - 1) /\ count > 0
    BY <1>8 DEF TypeOK, CountInv, ResetAdd
  <2>2. count + (Wrap - 1) >= Wrap /\ Wrap - 1 \in 0..(Wrap - 1)
    BY <2>1
  <2>3. (count + (Wrap - 1)) % Wrap = count + (Wrap - 1) - Wrap
    BY <2>1, <2>2, AddWraps
  <2>4. CASE Complement = Wrap - 1
    <3>1. AddUint64(Complement) = count - 1
      BY <2>1, <2>3, <2>4 DEF AddUint64
    <3> QED BY <1>8, <2>1, <3>1 DEF CountInv, ResetAdd
  <2>5. CASE Complement = 0
    <3>1. count + 0 = count /\ 0 \in 0..(Wrap - 1) /\ count + 0 < Wrap
      BY <2>1
    <3>2. (count + 0) % Wrap = count
      BY <2>1, <3>1, AddWraps
    <3>3. AddUint64(Complement) = count
      BY <2>5, <3>2 DEF AddUint64
    <3> QED BY <1>8, <2>1, <3>3 DEF CountInv, ResetAdd
  <2> QED BY <2>4, <2>5 DEF Raises
<1>9. ASSUME UNCHANGED vars PROVE CountInv'
  BY <1>9 DEF CountInv, vars
<1> QED
  BY <1>1, <1>2, <1>3, <1>4, <1>5, <1>6, <1>7, <1>8, <1>9
  DEF Next, add, Limiter

\* Where the reset does not raise the counter, it never passes the limit or wraps.
THEOREM CountCorrect == Spec => []CountBounded
<1>1. CASE Raises
  <2>1. TypeOK => CountBounded
    BY <1>1 DEF CountBounded
  <2> QED BY <2>1, TypeCorrect, PTL
<1>2. CASE ~Raises
  <2>1. Init => CountInv
    BY ComplementType DEF Init, CountInv
  <2>2. TypeOK /\ CountInv /\ [Next]_vars => CountInv'
    BY <1>2, CountStep
  <2>3. CountInv => CountBounded
    BY DEF CountInv, CountBounded
  <2> QED BY <2>1, <2>2, <2>3, TypeCorrect, PTL DEF Spec
<1> QED BY <1>1, <1>2

-----------------------------------------------------------------------------
(* Severity mappings *)

\* A step is a step of Build, or leaves the mapping alone.
LEMMA SeveritySteps ==
  ASSUME [MCNext]_mcVars
  PROVE  [Severities!Next]_severityVars
BY DEF MCNext, mcVars

\* What a severity of the configuration claims, and what those claim that Build
\* has visited.
Texts(s) == UNION {Severities!parseableValues(v) : v \in config.mapping[s]}

Visited == DOMAIN config.mapping \ left

Claimed == UNION {Texts(s) : s \in Visited}

\* Build fails at the severity or at one of its values.
Bad(s) ==
  \/ Severities!validateSeverity(s) = {}
  \/ \E v \in config.mapping[s] : Severities!parseableValues(v) = {}

\* After each turn of the loop the mapping is right for what has been visited.
MappingInv ==
  LET preset == Severities!getBuiltinMapping(config.preset) IN
  /\ left \subseteq DOMAIN config.mapping
  /\ failed => \E s \in DOMAIN config.mapping : Bad(s)
  /\ ~failed =>
       /\ \A s \in Visited : ~Bad(s)
       /\ DOMAIN mapping = DOMAIN preset \cup Claimed
       /\ \A t \in DOMAIN mapping :
            IF t \in Claimed
            THEN \E s \in Visited : t \in Texts(s) /\ mapping[t] \in Severities!validateSeverity(s)
            ELSE mapping[t] = preset[t]

\* Before the loop the mapping is the preset.
LEMMA MappingStart == ASSUME Severities!Init PROVE MappingInv
<1>1. Visited = {} /\ Claimed = {}
  BY DEF Severities!Init, Visited, Claimed
<1> QED
  BY <1>1 DEF Severities!Init, MappingInv

\* A turn of the loop keeps it right: what was claimed before and is claimed
\* again has the new severity, which is one of those that claim it.
LEMMA MappingStep ==
  ASSUME MappingInv, [Severities!Next]_severityVars
  PROVE  MappingInv'
<1>1. CASE UNCHANGED severityVars
  BY <1>1 DEF severityVars, MappingInv, Visited, Claimed, Texts, Bad
<1>2. ASSUME NEW s \in left, Severities!Build(s)
      PROVE  MappingInv'
  <2> DEFINE preset == Severities!getBuiltinMapping(config.preset)
             sevs == Severities!validateSeverity(s)
             values == config.mapping[s]
  <2>1. /\ s \in left /\ ~failed /\ left' = left \ {s} /\ config' = config
        /\ left \subseteq DOMAIN config.mapping
    BY <1>2 DEF Severities!Build, MappingInv
  <2>2. CASE Bad(s)
    <3>1. failed' = TRUE /\ mapping' = mapping
      BY <1>2, <2>2 DEF Severities!Build, Bad
    <3>2. Bad(s)'
      BY <2>1, <2>2 DEF Bad
    <3> QED
      BY <2>1, <3>1, <3>2 DEF MappingInv
  <2>3. CASE ~Bad(s)
    <3>1. PICK sev \in sevs :
            failed' = failed /\ mapping' = Severities!add(mapping, sev, Texts(s))
      BY <1>2, <2>3 DEF Severities!Build, Bad, Texts
    <3>2. /\ \A t : Texts(t)' = Texts(t)
          /\ \A t : Bad(t)' <=> Bad(t)
          /\ preset' = preset
      BY <2>1 DEF Texts, Bad
    <3>3. Visited' = Visited \cup {s} /\ Claimed' = Claimed \cup Texts(s)
      <4>1. Visited' = Visited \cup {s}
        BY <2>1 DEF Visited
      <4>2. Claimed' = UNION {Texts(t) : t \in Visited'}
        BY <3>2 DEF Claimed
      <4> QED
        BY <4>1, <4>2 DEF Claimed
    <3>4. /\ DOMAIN mapping' = DOMAIN mapping \cup Texts(s)
          /\ \A t \in DOMAIN mapping' :
               mapping'[t] = IF t \in Texts(s) THEN sev ELSE mapping[t]
      BY <3>1 DEF Severities!add
    <3>5. /\ \A t \in Visited : ~Bad(t)
          /\ DOMAIN mapping = DOMAIN preset \cup Claimed
          /\ \A t \in DOMAIN mapping :
               IF t \in Claimed
               THEN \E u \in Visited : t \in Texts(u) /\ mapping[t] \in Severities!validateSeverity(u)
               ELSE mapping[t] = preset[t]
      BY <2>1 DEF MappingInv
    <3> HIDE DEF preset, sevs
    <3>6. DOMAIN mapping' = DOMAIN preset \cup Claimed'
      BY <3>3, <3>4, <3>5
    <3>7. ASSUME NEW t \in DOMAIN mapping'
          PROVE  IF t \in Claimed'
                 THEN \E u \in Visited' : t \in Texts(u) /\ mapping'[t] \in Severities!validateSeverity(u)
                 ELSE mapping'[t] = preset[t]
      <4>1. CASE t \in Texts(s)
        BY <3>1, <3>3, <3>4, <4>1 DEF sevs
      <4>2. CASE t \notin Texts(s)
        <5>1. t \in DOMAIN mapping /\ mapping'[t] = mapping[t]
          BY <3>4, <4>2
        <5> QED
          BY <3>3, <3>5, <4>2, <5>1
      <4> QED
        BY <4>1, <4>2
    <3>8. \A u \in Visited' : ~Bad(u)
      BY <2>3, <3>3, <3>5
    <3> QED
      BY <2>1, <3>1, <3>2, <3>6, <3>7, <3>8 DEF MappingInv, preset
  <2> QED
    BY <2>2, <2>3
<1> QED
  BY <1>1, <1>2 DEF Severities!Next

\* A severity mapping is what was configured, for any configuration, whatever
\* the order in which Build runs over it.
THEOREM MappingRightCorrect == MCSpec => []MappingRight
<1>1. MCInit => MappingInv
  BY MappingStart DEF MCInit
<1>2. MappingInv /\ [MCNext]_mcVars => MappingInv'
  BY SeveritySteps, MappingStep
<1>3. MappingInv => MappingRight
  <2> SUFFICES ASSUME MappingInv PROVE Severities!MappingRight
    BY DEF MappingRight
  <2> DEFINE preset == Severities!getBuiltinMapping(config.preset)
             claimed == UNION {UNION {Severities!parseableValues(v) : v \in config.mapping[s]} :
                                 s \in DOMAIN config.mapping}
  <2>1. ASSUME failed
        PROVE  \E s \in DOMAIN config.mapping :
                 \/ Severities!validateSeverity(s) = {}
                 \/ \E v \in config.mapping[s] : Severities!parseableValues(v) = {}
    BY <2>1 DEF MappingInv, Bad
  <2>2. ASSUME left = {}, ~failed
        PROVE  /\ \A s \in DOMAIN config.mapping :
                    /\ Severities!validateSeverity(s) # {}
                    /\ \A v \in config.mapping[s] : Severities!parseableValues(v) # {}
               /\ DOMAIN mapping = DOMAIN preset \cup claimed
               /\ \A t \in DOMAIN mapping :
                    IF t \in claimed THEN mapping[t] \in Severities!Claims(t)
                    ELSE mapping[t] = preset[t]
    <3>1. Visited = DOMAIN config.mapping
      BY <2>2 DEF Visited
    <3>2. claimed = Claimed
      BY <3>1 DEF Claimed, Texts
    <3>3. \A s \in Visited : ~Bad(s)
      BY <2>2 DEF MappingInv
    <3>4. ASSUME NEW t, NEW s \in Visited, t \in Texts(s),
                 mapping[t] \in Severities!validateSeverity(s)
          PROVE  mapping[t] \in Severities!Claims(t)
      <4>1. \E v \in config.mapping[s] : t \in Severities!parseableValues(v)
        BY <3>4 DEF Texts
      <4> QED
        BY <3>1, <3>4, <4>1 DEF Severities!Claims
    <3>5. /\ DOMAIN mapping = DOMAIN preset \cup Claimed
          /\ \A t \in DOMAIN mapping :
               IF t \in Claimed
               THEN \E s \in Visited : t \in Texts(s) /\ mapping[t] \in Severities!validateSeverity(s)
               ELSE mapping[t] = preset[t]
      BY <2>2 DEF MappingInv
    <3> HIDE DEF claimed, preset
    <3> QED
      BY <3>1, <3>2, <3>3, <3>4, <3>5 DEF Bad
  <2> QED
    BY <2>1, <2>2 DEF Severities!MappingRight
<1> QED
  BY <1>1, <1>2, <1>3, PTL DEF MCSpec

-----------------------------------------------------------------------------
(* Chains of parsers *)

\* A step is one of Parsers, or leaves the entry and its operators alone.
LEMMA ChainSteps ==
  ASSUME [MCNext]_mcVars
  PROVE  [Parsers!Next]_chainVars
BY DEF MCNext, mcVars

Entries ==
  [timestamp : Nat, severity : Nat, scope : Nat, trace : [Parsers!TraceParts -> Int],
   attributes : Parsers!Outcomes, body : Parsers!Outcomes]

\* The entry has what was parsed, and the fields of the steps that are done.
FieldSet(done, name, field) ==
  entry[field] = IF done /\ Parsers!Tries(name) /\ Parsers!Read(field) = "good" THEN at
                 ELSE before[field]

TraceSet(done) ==
  entry.trace = IF done /\ Parsers!Tries("trace")
                THEN [p \in Parsers!TraceParts |-> IF Parsers!Read(p) = "good" THEN at ELSE -1]
                ELSE before.trace

Parsed ==
  /\ Parsers!IsParser /\ Parsers!Tried
  /\ entry.attributes = Parsers!Merged(before).attributes
  /\ entry.body = Parsers!Merged(before).body
  /\ FieldSet(step # "time", "time", "timestamp")
  /\ FieldSet(step \notin {"time", "severity"}, "severity", "severity")
  /\ TraceSet(step \notin {"time", "severity", "trace"})
  /\ FieldSet(step \in {"errors", "callback"}, "scope", "scope")

ChainTypes ==
  /\ chain \in Seq(Parsers!Operator) /\ at \in 1..Len(chain)
  /\ entry \in Entries /\ before \in Entries

\* What SentOnce needs to be inductive: the errors that are not handled send nothing.
SentExactly ==
  LET unhandled == \/ Parsers!op.type = "csv" /\ ~Parsers!op.header
                   \/ /\ Parsers!op.type = "syslog" /\ Parsers!Tried /\ errs = {} /\ result = "error"
                      /\ LET attributes == Parsers!Merged(before).attributes
                         IN attributes["severity"] # "good" \/ attributes["timestamp"] = "absent"
  IN step = "returned" =>
       sent = IF unhandled \/ (result = "error" /\ Parsers!op.onError = "drop") THEN 0 ELSE 1

\* Where Process is, and what it has done by then.
ChainInv ==
  /\ ChainTypes
  /\ step \in {"process", "parse", "transform", "time", "severity", "trace", "scope", "errors",
               "callback", "returned"}
  /\ step # "returned" => sent = 0 /\ result = "nil"
  /\ step \in {"process", "parse", "transform"} => entry = before /\ errs = {}
  /\ step \in {"parse", "transform"} =>
       /\ Parsers!op.if = "true" /\ (Parsers!op.type = "csv" => Parsers!op.header)
       /\ Parsers!IsParser <=> step = "parse"
  /\ step \in {"time", "severity", "trace", "scope", "errors", "callback"} => Parsed
  /\ step = "callback" => errs = {} /\ Parsers!op.type = "syslog"
  /\ Parsers!StepsIndependent /\ SentExactly

\* The operator that has the entry.
LEMMA OperatorType == ASSUME ChainTypes PROVE Parsers!op \in Parsers!Operator /\ at \in Nat
<1>1. Len(chain) \in Nat
  BY LenProperties DEF ChainTypes
<1> QED
  BY <1>1, ElementOfSeq DEF ChainTypes, Parsers!op

\* Merging what was parsed changes nothing but parse_to.
LEMMA MergedEntry ==
  ASSUME NEW e \in Entries, Parsers!op \in Parsers!Operator
  PROVE  LET m == Parsers!Merged(e) IN
         /\ m \in Entries /\ m.timestamp = e.timestamp /\ m.severity = e.severity
         /\ m.scope = e.scope /\ m.trace = e.trace
<1> DEFINE values(old) == [n \in Parsers!Names |->
             IF Parsers!op.parsed[n] = "absent" THEN old[n] ELSE Parsers!op.parsed[n]]
<1>1. Parsers!op.to \in {"attributes", "body"} /\ Parsers!op.parsed \in Parsers!Outcomes
  BY DEF Parsers!Operator
<1>2. \A old \in Parsers!Outcomes : values(old) \in Parsers!Outcomes
  BY <1>1 DEF Parsers!Outcomes
<1>3. e.attributes \in Parsers!Outcomes /\ e.body \in Parsers!Outcomes
  BY DEF Entries
<1>4. CASE Parsers!op.to = "attributes"
  <2>1. Parsers!Merged(e) = [e EXCEPT !["attributes"] = values(e.attributes)]
    BY <1>4 DEF Parsers!Merged, Entries
  <2> HIDE DEF values
  <2> QED
    BY <1>2, <1>3, <2>1 DEF Entries
<1>5. CASE Parsers!op.to = "body"
  <2>1. Parsers!Merged(e) = [e EXCEPT !["body"] = values(e.body)]
    BY <1>5 DEF Parsers!Merged, Entries
  <2> HIDE DEF values
  <2> QED
    BY <1>2, <1>3, <2>1 DEF Entries
<1> QED
  BY <1>1, <1>4, <1>5

\* The parser of a field sets it to the operator if the value it reads is good.
LEMMA PutEntry ==
  ASSUME NEW e \in Entries, at \in Nat, NEW field \in {"timestamp", "severity", "scope"}
  PROVE  LET p == Parsers!Put(e, field, field) IN
         /\ p \in Entries
         /\ p[field] = IF Parsers!Source(e, field) = "good" THEN at ELSE e[field]
         /\ field # "timestamp" => p.timestamp = e.timestamp
         /\ field # "severity" => p.severity = e.severity
         /\ field # "scope" => p.scope = e.scope
         /\ p.trace = e.trace /\ p.attributes = e.attributes /\ p.body = e.body
<1>1. CASE Parsers!Source(e, field) = "good"
  <2>1. Parsers!Put(e, field, field) = [e EXCEPT ![field] = at]
    BY <1>1 DEF Parsers!Put
  <2> QED
    BY <1>1, <2>1 DEF Entries
<1>2. CASE Parsers!Source(e, field) # "good"
  BY <1>2 DEF Parsers!Put
<1> QED
  BY <1>1, <1>2

\* The trace parser sets both parts.
LEMMA TraceEntry ==
  ASSUME NEW e \in Entries, at \in Nat
  PROVE  LET p == Parsers!TraceParse(e) IN
         /\ p \in Entries
         /\ p.trace = [q \in Parsers!TraceParts |-> IF Parsers!Source(e, q) = "good" THEN at ELSE -1]
         /\ p.timestamp = e.timestamp /\ p.severity = e.severity /\ p.scope = e.scope
         /\ p.attributes = e.attributes /\ p.body = e.body
<1> DEFINE ids == [q \in Parsers!TraceParts |-> IF Parsers!Source(e, q) = "good" THEN at ELSE -1]
<1>1. Parsers!TraceParse(e) = [e EXCEPT !.trace = ids]
  BY DEF Parsers!TraceParse, Parsers!None
<1>2. ids \in [Parsers!TraceParts -> Int]
  OBVIOUS
<1> HIDE DEF ids
<1>3. LET p == Parsers!TraceParse(e) IN
      /\ p \in Entries /\ p.trace = ids
      /\ p.timestamp = e.timestamp /\ p.severity = e.severity /\ p.scope = e.scope
      /\ p.attributes = e.attributes /\ p.body = e.body
  BY <1>1, <1>2 DEF Entries
<1> QED
  BY <1>3 DEF ids

\* What each step does to the entry.
LEMMA ParseOf ==
  ASSUME NEW e
  PROVE  /\ Parsers!Parse("time", e) = Parsers!Put(e, "timestamp", "timestamp")
         /\ Parsers!Parse("severity", e) = Parsers!Put(e, "severity", "severity")
         /\ Parsers!Parse("scope", e) = Parsers!Put(e, "scope", "scope")
         /\ Parsers!Parse("trace", e) = Parsers!TraceParse(e)
BY Zenon DEF Parsers!Parse

\* The steps read what the operator parsed: none of them changes that.
LEMMA SourceRead ==
  ASSUME ChainTypes, Parsed, NEW name
  PROVE  Parsers!Source(entry, name) = Parsers!Read(name)
<1>1. Parsers!op.from \in {"attributes", "body"}
  BY OperatorType DEF Parsers!Operator
<1> DEFINE m == Parsers!Merged(before)
<1>2. m \in Entries /\ entry \in Entries
  BY OperatorType, MergedEntry DEF ChainTypes
<1>3. Parsers!Read(name) = m[Parsers!op.from][name]
  BY DEF Parsers!Read, Parsed
<1>4. m.attributes = entry.attributes /\ m.body = entry.body
  BY DEF Parsed
<1> HIDE DEF m
<1>5. m[Parsers!op.from] = entry[Parsers!op.from]
  BY <1>1, <1>2, <1>4 DEF Entries
<1> QED
  BY <1>3, <1>5 DEF Parsers!Source

\* Until an entry is forwarded its operator stays the same, and so does what the
\* steps read.
LEMMA SameOperator ==
  ASSUME UNCHANGED <<chain, at, before>>
  PROVE  /\ Parsers!op' = Parsers!op /\ (Parsers!IsParser' <=> Parsers!IsParser)
         /\ (Parsers!Tried' <=> Parsers!Tried)
         /\ Parsers!Merged(before)' = Parsers!Merged(before)
         /\ \A s : Parsers!Tries(s)' <=> Parsers!Tries(s)
         /\ \A n : Parsers!Read(n)' = Parsers!Read(n)
BY DEF Parsers!op, Parsers!IsParser, Parsers!Tried, Parsers!Merged, Parsers!Tries, Parsers!Read

\* An entry comes to the first operator.
LEMMA ChainStart == ASSUME MCInit PROVE ChainInv
<1>1. /\ chain \in Chains /\ at = 1 /\ step = "process" /\ errs = {} /\ sent = 0 /\ result = "nil"
      /\ before = entry
  BY DEF MCInit, Parsers!Init
<1>2. PICK a \in Arrivals :
        entry = [timestamp |-> 0, severity |-> 0, scope |-> 0,
                 trace |-> [p \in Parsers!TraceParts |-> 0], attributes |-> a, body |-> Parsers!Nothing]
  BY DEF MCInit, Parsers!Init
<1>3. chain \in Seq(Parsers!Operator) /\ chain # <<>> /\ a \in Parsers!Outcomes
  BY <1>1, ChainsAssumption
<1>4. 1 \in 1..Len(chain)
  <2>1. Len(chain) \in Nat \ {0}
    BY <1>3, EmptySeq
  <2> QED
    BY <2>1
<1>5. entry \in Entries
  <2>1. Parsers!Nothing \in Parsers!Outcomes /\ [p \in Parsers!TraceParts |-> 0] \in [Parsers!TraceParts -> Int]
    BY DEF Parsers!Nothing, Parsers!Outcomes
  <2> QED
    BY <1>2, <1>3, <2>1 DEF Entries
<1> QED
  BY <1>1, <1>3, <1>4, <1>5 DEF ChainInv, ChainTypes, Parsers!StepsIndependent, SentExactly

\* Process has returned and the operator was not to touch the entry.
LEMMA ReturnedUntouched ==
  ASSUME ChainTypes, UNCHANGED <<chain, at, before>>, ~Parsers!Tried, entry' = before,
         step' = "returned",
         sent' = IF (Parsers!op.type = "csv" /\ ~Parsers!op.header)
                    \/ (result' = "error" /\ Parsers!op.onError = "drop") THEN 0 ELSE 1
  PROVE  ChainInv'
<1>1. ~Parsers!Tried' /\ Parsers!op' = Parsers!op /\ \A s : ~Parsers!Tries(s)'
  BY SameOperator DEF Parsers!Tries
<1>2. Parsers!StepsIndependent'
  BY <1>1 DEF Parsers!StepsIndependent
<1>3. SentExactly'
  BY <1>1 DEF SentExactly
<1>4. ChainTypes'
  BY DEF ChainTypes
<1> QED
  BY <1>2, <1>3, <1>4 DEF ChainInv

\* The condition, and a csv_parser whose header is missing.
LEMMA ChainSkip == ASSUME ChainInv, Parsers!HeaderMissing \/ Parsers!Skip PROVE ChainInv'
<1>1. /\ step = "process" /\ entry' = before /\ entry' = entry /\ errs' = {} /\ sent = 0 /\ result = "nil"
      /\ UNCHANGED <<chain, at, before>> /\ ChainTypes /\ Parsers!op \in Parsers!Operator
  BY OperatorType DEF ChainInv, Parsers!HeaderMissing, Parsers!Skip, Parsers!Return, Parsers!Goto,
                      Parsers!HandleEntryError, Parsers!WriteEntry
<1>2. /\ Parsers!op.onError \in {"send", "drop"}
      /\ Parsers!op.type \in {"parser", "syslog", "csv", "time", "severity", "trace", "scope"}
      /\ Parsers!op.if \in {"true", "false", "error"}
  BY <1>1 DEF Parsers!Operator
<1>3. CASE Parsers!HeaderMissing
  <2>1. /\ Parsers!op.type = "csv" /\ ~Parsers!op.header /\ step' = "returned" /\ sent' = 0
        /\ ~Parsers!Tried
    BY <1>1, <1>3 DEF Parsers!HeaderMissing, Parsers!Return, Parsers!Tried, Parsers!IsParser
  <2> QED
    BY <1>1, <2>1, ReturnedUntouched
<1>4. CASE Parsers!Skip /\ Parsers!op.if # "true"
  <2>1. /\ step' = "returned" /\ ~Parsers!Tried /\ ~(Parsers!op.type = "csv" /\ ~Parsers!op.header)
        /\ sent' = IF result' = "error" /\ Parsers!op.onError = "drop" THEN 0 ELSE 1
    BY <1>1, <1>2, <1>4 DEF Parsers!Skip, Parsers!Return, Parsers!HandleEntryError, Parsers!Sends,
                            Parsers!WriteEntry, Parsers!Tried
  <2> QED
    BY <1>1, <2>1, ReturnedUntouched
<1>5. CASE Parsers!Skip /\ Parsers!op.if = "true"
  <2>1. /\ step' = IF Parsers!IsParser THEN "parse" ELSE "transform"
        /\ (Parsers!op.type = "csv" => Parsers!op.header)
        /\ sent' = 0 /\ result' = "nil"
    BY <1>1, <1>2, <1>5 DEF Parsers!Skip, Parsers!Goto
  <2>2. Parsers!op' = Parsers!op /\ (Parsers!IsParser' <=> Parsers!IsParser) /\ ChainTypes'
    BY <1>1, SameOperator DEF ChainTypes
  <2> QED
    BY <1>1, <1>5, <2>1, <2>2 DEF ChainInv, Parsers!StepsIndependent, SentExactly
<1> QED
  BY <1>3, <1>4, <1>5

\* The operators of one field.
LEMMA ChainTransform == ASSUME ChainInv, Parsers!Transform PROVE ChainInv'
<1>1. /\ step = "transform" /\ step' = "returned" /\ entry = before /\ errs' = errs /\ errs = {}
      /\ entry' = Parsers!Parse(Parsers!op.type, before) /\ sent = 0
      /\ UNCHANGED <<chain, at, before>> /\ ChainTypes /\ Parsers!op \in Parsers!Operator /\ at \in Nat
      /\ ~Parsers!IsParser /\ Parsers!op.if = "true" /\ before \in Entries
  BY OperatorType DEF ChainInv, ChainTypes, Parsers!Transform, Parsers!Return,
                      Parsers!HandleEntryError, Parsers!WriteEntry
<1>2. /\ Parsers!Tried /\ Parsers!op.onError \in {"send", "drop"}
      /\ Parsers!op.type \in {"time", "severity", "trace", "scope"}
      /\ \A s : Parsers!Tries(s) <=> s = Parsers!op.type
  BY <1>1 DEF Parsers!Operator, Parsers!IsParser, Parsers!Tried, Parsers!Tries
<1>3. sent' = IF result' = "error" /\ Parsers!op.onError = "drop" THEN 0 ELSE 1
  BY <1>1, <1>2 DEF Parsers!Transform, Parsers!Return, Parsers!HandleEntryError, Parsers!Sends,
                    Parsers!WriteEntry
<1>4. \A n : Parsers!Source(before, n) = Parsers!Read(n)
  BY <1>1 DEF Parsers!Source, Parsers!Read
<1>5. /\ Parsers!op' = Parsers!op /\ (Parsers!IsParser' <=> Parsers!IsParser)
      /\ (Parsers!Tried' <=> Parsers!Tried) /\ \A s : Parsers!Tries(s)' <=> Parsers!Tries(s)
      /\ \A n : Parsers!Read(n)' = Parsers!Read(n)
  BY <1>1, SameOperator
<1>6. SentExactly'
  BY <1>1, <1>2, <1>3, <1>5 DEF SentExactly
<1> DEFINE Set(name, field) ==
             entry'[field] = IF name = Parsers!op.type /\ Parsers!Read(field) = "good" THEN at
                             ELSE before[field]
<1>7. /\ entry' \in Entries /\ Set("time", "timestamp") /\ Set("severity", "severity")
      /\ Set("scope", "scope")
      /\ entry'.trace = IF "trace" = Parsers!op.type
                        THEN [p \in Parsers!TraceParts |-> IF Parsers!Read(p) = "good" THEN at ELSE -1]
                        ELSE before.trace
  <2>1. CASE Parsers!op.type = "time"
    <3>1. entry' = Parsers!Put(before, "timestamp", "timestamp")
      BY <1>1, <2>1, ParseOf
    <3>2. /\ entry' \in Entries
          /\ entry'.timestamp = IF Parsers!Read("timestamp") = "good" THEN at ELSE before.timestamp
          /\ entry'.severity = before.severity /\ entry'.scope = before.scope /\ entry'.trace = before.trace
      BY <1>1, <1>4, <3>1, PutEntry
    <3> QED
      BY <1>1, <2>1, <3>2 DEF Entries
  <2>2. CASE Parsers!op.type = "severity"
    <3>1. entry' = Parsers!Put(before, "severity", "severity")
      BY <1>1, <2>2, ParseOf
    <3>2. /\ entry' \in Entries
          /\ entry'.severity = IF Parsers!Read("severity") = "good" THEN at ELSE before.severity
          /\ entry'.timestamp = before.timestamp /\ entry'.scope = before.scope /\ entry'.trace = before.trace
      BY <1>1, <1>4, <3>1, PutEntry
    <3> QED
      BY <1>1, <2>2, <3>2 DEF Entries
  <2>3. CASE Parsers!op.type = "scope"
    <3>1. entry' = Parsers!Put(before, "scope", "scope")
      BY <1>1, <2>3, ParseOf
    <3>2. /\ entry' \in Entries
          /\ entry'.scope = IF Parsers!Read("scope") = "good" THEN at ELSE before.scope
          /\ entry'.timestamp = before.timestamp /\ entry'.severity = before.severity /\ entry'.trace = before.trace
      BY <1>1, <1>4, <3>1, PutEntry
    <3> QED
      BY <1>1, <2>3, <3>2 DEF Entries
  <2>4. CASE Parsers!op.type = "trace"
    <3>1. entry' = Parsers!TraceParse(before)
      BY <1>1, <2>4, ParseOf
    <3>2. /\ entry' \in Entries
          /\ entry'.trace = [p \in Parsers!TraceParts |-> IF Parsers!Read(p) = "good" THEN at ELSE -1]
          /\ entry'.timestamp = before.timestamp /\ entry'.severity = before.severity /\ entry'.scope = before.scope
      BY <1>1, <1>4, <3>1, TraceEntry
    <3> QED
      BY <1>1, <2>4, <3>2 DEF Entries
  <2> QED
    BY <1>2, <2>1, <2>2, <2>3, <2>4
<1>8. Parsers!StepsIndependent'
  BY <1>1, <1>2, <1>5, <1>7 DEF Parsers!StepsIndependent, Parsers!None
<1>9. ChainTypes'
  BY <1>1, <1>7 DEF ChainTypes
<1> QED
  BY <1>1, <1>6, <1>8, <1>9 DEF ChainInv

\* ParseWith, until the value is parsed.
LEMMA ChainParse == ASSUME ChainInv, Parsers!ParseValue PROVE ChainInv'
<1>1. /\ step = "parse" /\ entry = before /\ errs' = errs /\ errs = {} /\ sent = 0 /\ result = "nil"
      /\ UNCHANGED <<chain, at, before>> /\ ChainTypes /\ Parsers!op \in Parsers!Operator
      /\ Parsers!IsParser /\ Parsers!op.if = "true" /\ before \in Entries
      /\ (Parsers!op.type = "csv" => Parsers!op.header)
  BY OperatorType DEF ChainInv, ChainTypes, Parsers!ParseValue, Parsers!Return, Parsers!Goto,
                      Parsers!HandleEntryError, Parsers!WriteEntry
<1>2. Parsers!op.onError \in {"send", "drop"}
  BY <1>1 DEF Parsers!Operator
<1>3. CASE ~Parsers!op.parses
  <2>1. /\ step' = "returned" /\ entry' = before /\ ~Parsers!Tried
        /\ sent' = IF result' = "error" /\ Parsers!op.onError = "drop" THEN 0 ELSE 1
    BY <1>1, <1>2, <1>3 DEF Parsers!ParseValue, Parsers!Return, Parsers!HandleEntryError,
                            Parsers!Sends, Parsers!Tried
  <2> QED
    BY <1>1, <2>1, ReturnedUntouched
<1>4. CASE Parsers!op.parses
  <2>1. /\ step' = "time" /\ entry' = Parsers!Merged(before) /\ sent' = 0 /\ result' = "nil"
        /\ Parsers!Tried
    BY <1>1, <1>4 DEF Parsers!ParseValue, Parsers!Goto, Parsers!Tried
  <2> DEFINE m == Parsers!Merged(before)
  <2>2. /\ m \in Entries /\ m.timestamp = before.timestamp /\ m.severity = before.severity
        /\ m.scope = before.scope /\ m.trace = before.trace
    BY <1>1, MergedEntry
  <2>3. /\ Parsers!op' = Parsers!op /\ (Parsers!IsParser' <=> Parsers!IsParser)
        /\ (Parsers!Tried' <=> Parsers!Tried) /\ m' = m
    BY <1>1, SameOperator
  <2> HIDE DEF m
  <2>4. Parsed'
    <3>1. /\ FieldSet(step # "time", "time", "timestamp")'
          /\ FieldSet(step \notin {"time", "severity"}, "severity", "severity")'
          /\ TraceSet(step \notin {"time", "severity", "trace"})'
          /\ FieldSet(step \in {"errors", "callback"}, "scope", "scope")'
      BY <1>1, <2>1, <2>2 DEF FieldSet, TraceSet, Entries, m
    <3>2. entry'.attributes = m'.attributes /\ entry'.body = m'.body
      BY <2>1, <2>3 DEF m
    <3> QED
      BY <1>1, <2>1, <2>3, <3>1, <3>2 DEF Parsed, m
  <2>5. ChainTypes'
    BY <1>1, <2>1, <2>2 DEF ChainTypes, m
  <2> QED
    BY <2>1, <2>4, <2>5 DEF ChainInv, Parsers!StepsIndependent, SentExactly
<1> QED
  BY <1>3, <1>4

\* The parser of one field keeps the others, and sets its own from what was read.
LEMMA StepField ==
  ASSUME ChainTypes, Parsed, NEW name, NEW field \in {"timestamp", "severity", "scope"},
         entry' = IF Parsers!Attempted(name) THEN Parsers!Put(entry, field, field) ELSE entry
  PROVE  /\ entry' \in Entries
         /\ entry'[field] = IF Parsers!Tries(name) /\ Parsers!Read(field) = "good" THEN at
                            ELSE entry[field]
         /\ field # "timestamp" => entry'.timestamp = entry.timestamp
         /\ field # "severity" => entry'.severity = entry.severity
         /\ field # "scope" => entry'.scope = entry.scope
         /\ entry'.trace = entry.trace
         /\ entry'.attributes = entry.attributes /\ entry'.body = entry.body
<1>1. entry \in Entries /\ at \in Nat /\ (Parsers!Attempted(name) <=> Parsers!Tries(name))
  BY OperatorType DEF ChainTypes, Parsed, Parsers!Attempted, Parsers!Tries
<1>2. Parsers!Source(entry, field) = Parsers!Read(field)
  BY SourceRead
<1> QED
  BY <1>1, <1>2, PutEntry

\* The parser of the trace context keeps the other fields.
LEMMA StepTrace ==
  ASSUME ChainTypes, Parsed,
         entry' = IF Parsers!Attempted("trace") THEN Parsers!TraceParse(entry) ELSE entry
  PROVE  /\ entry' \in Entries
         /\ entry'.trace = IF Parsers!Tries("trace")
                           THEN [p \in Parsers!TraceParts |-> IF Parsers!Read(p) = "good" THEN at ELSE -1]
                           ELSE entry.trace
         /\ entry'.timestamp = entry.timestamp /\ entry'.severity = entry.severity
         /\ entry'.scope = entry.scope
         /\ entry'.attributes = entry.attributes /\ entry'.body = entry.body
<1>1. entry \in Entries /\ at \in Nat /\ (Parsers!Attempted("trace") <=> Parsers!Tries("trace"))
  BY OperatorType DEF ChainTypes, Parsed, Parsers!Attempted, Parsers!Tries
<1>2. \A p : Parsers!Source(entry, p) = Parsers!Read(p)
  BY SourceRead
<1>3. CASE Parsers!Tries("trace")
  <2>1. entry' = Parsers!TraceParse(entry)
    BY <1>1, <1>3
  <2> QED
    BY <1>1, <1>2, <1>3, <2>1, TraceEntry
<1>4. CASE ~Parsers!Tries("trace")
  BY <1>1, <1>4
<1> QED
  BY <1>3, <1>4

\* One of the embedded parsers, or its turn without it.
LEMMA ChainStep == ASSUME ChainInv, NEW i \in DOMAIN Parsers!Steps, Parsers!ParseStep(i) PROVE ChainInv'
<1>1. /\ i \in 1..4 /\ step = Parsers!Steps[i]
      /\ step' = IF i = 4 THEN "errors" ELSE Parsers!Steps[i + 1]
      /\ entry' = IF Parsers!Attempted(step) THEN Parsers!Parse(step, entry) ELSE entry
      /\ UNCHANGED <<chain, at, before, sent, result>>
  BY DEF Parsers!ParseStep, Parsers!Steps, Parsers!Goto
<1>2. \/ step = "time" /\ step' = "severity"
      \/ step = "severity" /\ step' = "trace"
      \/ step = "trace" /\ step' = "scope"
      \/ step = "scope" /\ step' = "errors"
  <2>1. i = 1 \/ i = 2 \/ i = 3 \/ i = 4
    BY <1>1
  <2> QED
    BY <1>1, <2>1 DEF Parsers!Steps
<1>3. Parsed /\ ChainTypes /\ sent' = 0 /\ result' = "nil" /\ entry \in Entries
  BY <1>1, <1>2 DEF ChainInv, ChainTypes
<1> DEFINE m == Parsers!Merged(before)
<1>4. /\ (Parsers!IsParser' <=> Parsers!IsParser) /\ (Parsers!Tried' <=> Parsers!Tried) /\ m' = m
      /\ \A s : Parsers!Tries(s)' <=> Parsers!Tries(s)
      /\ \A n : Parsers!Read(n)' = Parsers!Read(n)
  BY <1>1, SameOperator
<1> HIDE DEF m
<1>5. /\ Parsers!IsParser /\ Parsers!Tried
      /\ entry.attributes = m.attributes /\ entry.body = m.body
  BY <1>3 DEF Parsed, m
<1>6. ASSUME entry'.attributes = entry.attributes, entry'.body = entry.body, entry' \in Entries,
             FieldSet(step # "time", "time", "timestamp")',
             FieldSet(step \notin {"time", "severity"}, "severity", "severity")',
             TraceSet(step \notin {"time", "severity", "trace"})',
             FieldSet(step \in {"errors", "callback"}, "scope", "scope")'
      PROVE  ChainInv'
  <2>1. Parsed'
    BY <1>4, <1>5, <1>6 DEF Parsed, m
  <2>2. ChainTypes'
    BY <1>1, <1>3, <1>6 DEF ChainTypes
  <2> QED
    BY <1>2, <1>3, <2>1, <2>2 DEF ChainInv, Parsers!StepsIndependent, SentExactly
<1>7. CASE step = "time"
  <2>1. entry' = IF Parsers!Attempted("time") THEN Parsers!Put(entry, "timestamp", "timestamp") ELSE entry
    BY <1>1, <1>7, ParseOf
  <2>2. /\ entry' \in Entries
        /\ entry'.timestamp = IF Parsers!Tries("time") /\ Parsers!Read("timestamp") = "good" THEN at
                              ELSE entry.timestamp
        /\ entry'.severity = entry.severity /\ entry'.scope = entry.scope /\ entry'.trace = entry.trace
        /\ entry'.attributes = entry.attributes /\ entry'.body = entry.body
    BY <1>3, <2>1, StepField
  <2> QED
    BY <1>1, <1>2, <1>3, <1>4, <1>6, <1>7, <2>2 DEF Parsed, FieldSet, TraceSet
<1>8. CASE step = "severity"
  <2>1. entry' = IF Parsers!Attempted("severity") THEN Parsers!Put(entry, "severity", "severity") ELSE entry
    BY <1>1, <1>8, ParseOf
  <2>2. /\ entry' \in Entries
        /\ entry'.severity = IF Parsers!Tries("severity") /\ Parsers!Read("severity") = "good" THEN at
                             ELSE entry.severity
        /\ entry'.timestamp = entry.timestamp /\ entry'.scope = entry.scope /\ entry'.trace = entry.trace
        /\ entry'.attributes = entry.attributes /\ entry'.body = entry.body
    BY <1>3, <2>1, StepField
  <2> QED
    BY <1>1, <1>2, <1>3, <1>4, <1>6, <1>8, <2>2 DEF Parsed, FieldSet, TraceSet
<1>9. CASE step = "trace"
  <2>1. entry' = IF Parsers!Attempted("trace") THEN Parsers!TraceParse(entry) ELSE entry
    BY <1>1, <1>9, ParseOf
  <2>2. /\ entry' \in Entries
        /\ entry'.trace = IF Parsers!Tries("trace")
                          THEN [p \in Parsers!TraceParts |-> IF Parsers!Read(p) = "good" THEN at ELSE -1]
                          ELSE entry.trace
        /\ entry'.timestamp = entry.timestamp /\ entry'.severity = entry.severity
        /\ entry'.scope = entry.scope
        /\ entry'.attributes = entry.attributes /\ entry'.body = entry.body
    BY <1>3, <2>1, StepTrace
  <2> QED
    BY <1>1, <1>2, <1>3, <1>4, <1>6, <1>9, <2>2 DEF Parsed, FieldSet, TraceSet
<1>10. CASE step = "scope"
  <2>1. entry' = IF Parsers!Attempted("scope") THEN Parsers!Put(entry, "scope", "scope") ELSE entry
    BY <1>1, <1>10, ParseOf
  <2>2. /\ entry' \in Entries
        /\ entry'.scope = IF Parsers!Tries("scope") /\ Parsers!Read("scope") = "good" THEN at
                          ELSE entry.scope
        /\ entry'.timestamp = entry.timestamp /\ entry'.severity = entry.severity
        /\ entry'.trace = entry.trace
        /\ entry'.attributes = entry.attributes /\ entry'.body = entry.body
    BY <1>3, <2>1, StepField
  <2> QED
    BY <1>1, <1>2, <1>3, <1>4, <1>6, <1>10, <2>2 DEF Parsed, FieldSet, TraceSet
<1> QED
  BY <1>2, <1>7, <1>8, <1>9, <1>10

\* After the last step.
LEMMA ChainErrors == ASSUME ChainInv, Parsers!HandleErrors PROVE ChainInv'
<1>1. /\ step = "errors" /\ entry' = entry /\ errs' = errs /\ sent = 0 /\ result = "nil"
      /\ UNCHANGED <<chain, at, before>> /\ ChainTypes /\ Parsed /\ Parsers!op \in Parsers!Operator
  BY OperatorType DEF ChainInv, Parsers!HandleErrors, Parsers!Return, Parsers!Goto,
                      Parsers!HandleEntryError, Parsers!WriteEntry
<1> DEFINE m == Parsers!Merged(before)
<1>2. /\ Parsers!op' = Parsers!op /\ (Parsers!IsParser' <=> Parsers!IsParser)
      /\ (Parsers!Tried' <=> Parsers!Tried) /\ m' = m
      /\ \A s : Parsers!Tries(s)' <=> Parsers!Tries(s)
      /\ \A n : Parsers!Read(n)' = Parsers!Read(n)
  BY <1>1, SameOperator
<1> HIDE DEF m
<1>3. ChainTypes'
  BY <1>1 DEF ChainTypes
<1>4. CASE errs = {} /\ Parsers!op.type = "syslog"
  <2>1. step' = "callback" /\ sent' = 0 /\ result' = "nil"
    BY <1>1, <1>4 DEF Parsers!HandleErrors, Parsers!Goto
  <2>2. Parsed'
    BY <1>1, <1>2, <2>1 DEF Parsed, FieldSet, TraceSet, m
  <2> QED
    BY <1>1, <1>2, <1>3, <1>4, <2>1, <2>2 DEF ChainInv, Parsers!StepsIndependent, SentExactly
<1>5. CASE ~(errs = {} /\ Parsers!op.type = "syslog")
  <2>1. /\ step' = "returned" /\ Parsers!op.onError \in {"send", "drop"}
        /\ result' = IF errs = {} THEN "nil" ELSE "error"
        /\ sent' = IF result' = "error" /\ Parsers!op.onError = "drop" THEN 0 ELSE 1
    BY <1>1, <1>5 DEF Parsers!HandleErrors, Parsers!Return, Parsers!HandleEntryError,
                      Parsers!WriteEntry, Parsers!Sends, Parsers!Operator
  <2>2. Parsers!Tried /\ (Parsers!op.type = "csv" => Parsers!op.header)
    BY <1>1 DEF Parsed, Parsers!Tried
  <2>3. SentExactly'
    BY <1>1, <1>2, <1>5, <2>1, <2>2 DEF SentExactly
  <2>4. Parsers!StepsIndependent'
    BY <1>1, <1>2, <1>5, <2>1, <2>2 DEF Parsed, FieldSet, TraceSet, Parsers!StepsIndependent, Parsers!None
  <2> QED
    BY <2>1, <2>3, <2>4, <1>3 DEF ChainInv
<1> QED
  BY <1>4, <1>5

\* The callback of syslog_parser.
LEMMA ChainPostprocess == ASSUME ChainInv, Parsers!Postprocess PROVE ChainInv'
<1> DEFINE sev == entry.attributes["severity"]
           gone == IF sev = "good" THEN {"severity", "timestamp"} ELSE {"severity"}
           bad == sev # "good" \/ entry.attributes["timestamp"] = "absent"
           kept == [n \in Parsers!Names |-> IF n \in gone THEN "absent" ELSE entry.attributes[n]]
           e == IF sev = "good" THEN [entry EXCEPT !.severity = at] ELSE entry
<1>1. /\ step = "callback" /\ errs' = errs /\ errs = {} /\ sent = 0 /\ result = "nil"
      /\ UNCHANGED <<chain, at, before>> /\ ChainTypes /\ Parsed /\ Parsers!op.type = "syslog"
      /\ at \in Nat /\ entry \in Entries
  BY OperatorType DEF ChainInv, ChainTypes, Parsers!Postprocess, Parsers!Return, Parsers!WriteEntry
<1>2. /\ step' = "returned" /\ result' = IF bad THEN "error" ELSE "nil"
      /\ sent' = IF bad THEN 0 ELSE 1
  BY <1>1 DEF Parsers!Postprocess, Parsers!Return, Parsers!WriteEntry
<1>3. e \in Entries /\ e.attributes = entry.attributes
      /\ e.timestamp = entry.timestamp /\ e.scope = entry.scope /\ e.trace = entry.trace
      /\ (~bad => e.severity = at)
  <2>1. CASE sev = "good"
    BY <1>1, <2>1 DEF Entries
  <2>2. CASE sev # "good"
    BY <1>1, <2>2
  <2> QED
    BY <2>1, <2>2
<1>4. entry' = [e EXCEPT !.attributes = kept]
  <2>1. entry' = [e EXCEPT !.attributes =
                   [n \in Parsers!Names |-> IF n \in gone THEN "absent" ELSE @[n]]]
    BY <1>1 DEF Parsers!Postprocess
  <2> HIDE DEF e, gone
  <2> QED
    BY <1>3, <2>1
<1>5. kept \in Parsers!Outcomes /\ (~bad => kept["severity"] = "absent" /\ kept["timestamp"] = "absent")
  BY <1>1 DEF Entries, Parsers!Outcomes, Parsers!Names
<1> HIDE DEF e, kept
<1>6. /\ entry' \in Entries /\ entry'.timestamp = entry.timestamp /\ entry'.scope = entry.scope
      /\ entry'.trace = entry.trace
      /\ (~bad => entry'.severity = at /\ entry'.attributes = kept)
  BY <1>3, <1>4, <1>5 DEF Entries
<1> DEFINE m == Parsers!Merged(before)
<1>7. /\ Parsers!op' = Parsers!op /\ (Parsers!IsParser' <=> Parsers!IsParser)
      /\ (Parsers!Tried' <=> Parsers!Tried) /\ m' = m
      /\ \A s : Parsers!Tries(s)' <=> Parsers!Tries(s)
      /\ \A n : Parsers!Read(n)' = Parsers!Read(n)
  BY <1>1, SameOperator
<1>8. entry.attributes = m.attributes /\ Parsers!Tried /\ Parsers!IsParser
  BY <1>1 DEF Parsed
<1> HIDE DEF m
<1>9. ChainTypes'
  BY <1>1, <1>6 DEF ChainTypes
<1>10. SentExactly'
  BY <1>1, <1>2, <1>7, <1>8 DEF SentExactly, m
<1>11. Parsers!StepsIndependent'
  <2>1. /\ FieldSet(TRUE, "time", "timestamp") /\ FieldSet(TRUE, "scope", "scope") /\ TraceSet(TRUE)
    BY <1>1 DEF Parsed, FieldSet, TraceSet
  <2> HIDE DEF bad
  <2>2. result' = "nil" => entry'.severity = at /\ entry'.attributes = kept /\ kept["severity"] = "absent"
                           /\ kept["timestamp"] = "absent"
    BY <1>2, <1>5, <1>6
  <2> QED
    BY <1>1, <1>2, <1>6, <1>7, <1>8, <2>1, <2>2
       DEF FieldSet, TraceSet, Parsers!StepsIndependent, Parsers!None
<1> QED
  BY <1>2, <1>9, <1>10, <1>11 DEF ChainInv

\* The next operator has the entry.
LEMMA ChainForward == ASSUME ChainInv, Parsers!Forward PROVE ChainInv'
<1>1. /\ step' = "process" /\ errs' = {} /\ sent' = 0 /\ result' = "nil" /\ before' = entry
      /\ entry' = entry /\ chain' = chain /\ at' = at + 1 /\ at < Len(chain) /\ ChainTypes
  BY DEF ChainInv, Parsers!Forward
<1>2. at' \in 1..Len(chain')
  BY <1>1 DEF ChainTypes
<1>3. ChainTypes'
  BY <1>1, <1>2 DEF ChainTypes
<1> QED
  BY <1>1, <1>3 DEF ChainInv, Parsers!StepsIndependent, SentExactly

\* Nothing happens to the entry.
LEMMA ChainStutter == ASSUME ChainInv, UNCHANGED chainVars PROVE ChainInv'
<1>1. /\ UNCHANGED <<chain, at, before>> /\ UNCHANGED <<entry, errs, sent, result, step>>
  BY DEF chainVars
<1>2. /\ Parsers!op' = Parsers!op /\ (Parsers!IsParser' <=> Parsers!IsParser)
      /\ (Parsers!Tried' <=> Parsers!Tried) /\ Parsers!Merged(before)' = Parsers!Merged(before)
      /\ \A s : Parsers!Tries(s)' <=> Parsers!Tries(s)
      /\ \A n : Parsers!Read(n)' = Parsers!Read(n)
  BY <1>1, SameOperator
<1>3. Parsers!StepsIndependent' /\ SentExactly'
  BY <1>1, <1>2 DEF ChainInv, Parsers!StepsIndependent, SentExactly
<1>4. ChainTypes' /\ (Parsed => Parsed')
  BY <1>1, <1>2 DEF ChainInv, ChainTypes, Parsed, FieldSet, TraceSet
<1> QED
  BY <1>1, <1>2, <1>3, <1>4 DEF ChainInv

\* Every step keeps the invariant of the chain.
LEMMA ChainNext == ASSUME ChainInv, [MCNext]_mcVars PROVE ChainInv'
<1>1. Parsers!Next \/ UNCHANGED chainVars
  BY ChainSteps
<1> QED
  BY <1>1, ChainSkip, ChainTransform, ChainParse, ChainStep, ChainErrors, ChainPostprocess,
     ChainForward, ChainStutter DEF Parsers!Next

\* A step of a parser that fails keeps no other from setting its field, and
\* touches nothing itself: ParseWith of helper/parser.go.
THEOREM StepsIndependentCorrect == MCSpec => []StepsIndependent
<1>1. MCInit => ChainInv
  BY ChainStart
<1>2. ChainInv /\ [MCNext]_mcVars => ChainInv'
  BY ChainNext
<1>3. ChainInv => StepsIndependent
  BY DEF ChainInv, StepsIndependent
<1> QED
  BY <1>1, <1>2, <1>3, PTL DEF MCSpec

\* What an operator writes is one entry or, with on_error: drop and an error,
\* none; only csv_parser and syslog_parser lose entries otherwise.
THEOREM SentOnceCorrect == MCSpec => []SentOnce
<1>1. MCInit => ChainInv
  BY ChainStart
<1>2. ChainInv /\ [MCNext]_mcVars => ChainInv'
  BY ChainNext
<1>3. ChainInv => SentOnce
  BY DEF ChainInv, SentExactly, SentOnce, Parsers!SentOnce
<1> QED
  BY <1>1, <1>2, <1>3, PTL DEF MCSpec

-----------------------------------------------------------------------------
(* Time stamps *)

\* Leap days up to a year.
LeapDays(y) == y \div 4 - y \div 100 + y \div 400

\* A year has one more leap day behind it than the year before if it is one.
LEMMA LeapCount ==
  ASSUME NEW y \in Nat \ {0}
  PROVE  /\ LeapDays(y) \in Int /\ LeapDays(y - 1) \in Int
         /\ Timestamps!Leap(y) => LeapDays(y) = LeapDays(y - 1) + 1
         /\ ~Timestamps!Leap(y) => LeapDays(y) = LeapDays(y - 1)
<1>1. /\ y % 4 = 0 => y \div 4 = (y - 1) \div 4 + 1
      /\ y % 4 # 0 => y \div 4 = (y - 1) \div 4
  OBVIOUS
<1>2. /\ y % 100 = 0 => y \div 100 = (y - 1) \div 100 + 1
      /\ y % 100 # 0 => y \div 100 = (y - 1) \div 100
  OBVIOUS
<1>3. /\ y % 400 = 0 => y \div 400 = (y - 1) \div 400 + 1
      /\ y % 400 # 0 => y \div 400 = (y - 1) \div 400
  OBVIOUS
<1>4. (y % 400 = 0 => y % 100 = 0) /\ (y % 100 = 0 => y % 4 = 0)
  OBVIOUS
<1>5. /\ y \div 4 \in Int /\ y \div 100 \in Int /\ y \div 400 \in Int
      /\ (y - 1) \div 4 \in Int /\ (y - 1) \div 100 \in Int /\ (y - 1) \div 400 \in Int
  OBVIOUS
<1> QED
  BY <1>1, <1>2, <1>3, <1>4, <1>5 DEF LeapDays, Timestamps!Leap

\* No two years in a row are leap years.
LEMMA LeapAlone ==
  ASSUME NEW y \in Nat \ {0}, Timestamps!Leap(y)
  PROVE  ~Timestamps!Leap(y - 1)
BY DEF Timestamps!Leap

\* The day of a date in its year.
DayOf(t) ==
  Timestamps!Before[t.month] + t.day + IF t.month > 2 /\ Timestamps!Leap(t.year) THEN 1 ELSE 0

\* A date is one of its year.
LEMMA DateOf ==
  ASSUME NEW t \in Timestamps!Dates
  PROVE  /\ t.year \in Nat \ {0} /\ t.month \in 1..12 /\ t.day \in 1..31 /\ t.half \in {0, 1}
         /\ t.month = 2 /\ t.day = 29 => Timestamps!Leap(t.year)
         /\ t = [year |-> t.year, half |-> t.half, month |-> t.month, day |-> t.day]
         /\ DayOf(t) \in Nat \ {0}
         /\ DayOf(t) <= IF Timestamps!Leap(t.year) THEN 366 ELSE 365
<1>1. /\ t \in [year : Years, month : {d[1] : d \in Days}, day : {d[2] : d \in Days}, half : {0, 1}]
      /\ <<t.month, t.day>> \in Days
      /\ t = Timestamps!Date(t.year, t.month, t.day, t.half)
  BY DEF Timestamps!Dates
<1>2. /\ t.year \in Nat \ {0} /\ t.month \in 1..12 /\ t.day \in 1..31 /\ t.half \in {0, 1}
      /\ t.month \in {4, 6, 9, 11} => t.day <= 30
      /\ t.month = 2 => t.day <= 29
  <2> DEFINE p == <<t.month, t.day>>
  <2>1. p \in Days /\ p[1] = t.month /\ p[2] = t.day
    BY <1>1
  <2>2. p \in (1..12) \X (1..31) /\ (p[1] \in {4, 6, 9, 11} => p[2] <= 30) /\ (p[1] = 2 => p[2] <= 29)
    BY <2>1, TimesAssumption
  <2>3. t.year \in Nat \ {0} /\ t.half \in {0, 1}
    BY <1>1, TimesAssumption
  <2> QED
    BY <2>1, <2>2, <2>3
<1>3. t.month = 2 /\ t.day = 29 => Timestamps!Leap(t.year)
  <2> SUFFICES ASSUME t.month = 2, t.day = 29, ~Timestamps!Leap(t.year) PROVE FALSE
    OBVIOUS
  <2>1. Timestamps!Date(t.year, t.month, t.day, t.half).month = 3
    BY DEF Timestamps!Date
  <2> QED
    BY <1>1, <2>1
<1>4. /\ DayOf(t) \in Nat \ {0}
      /\ DayOf(t) <= IF Timestamps!Leap(t.year) THEN 366 ELSE 365
  <2>1. t.month = 1 \/ t.month = 2 \/ t.month = 3 \/ t.month = 4 \/ t.month = 5 \/ t.month = 6
        \/ t.month = 7 \/ t.month = 8 \/ t.month = 9 \/ t.month = 10 \/ t.month = 11 \/ t.month = 12
    BY <1>2
  <2> DEFINE b == Timestamps!Before[t.month]
             leap == Timestamps!Leap(t.year)
  <2>2. /\ b \in Nat /\ b <= 334
        /\ b + t.day <= 365
        /\ t.month = 2 => b = 31
        /\ t.month = 1 => b = 0
    BY <1>2, <2>1 DEF Timestamps!Before
  <2>3. DayOf(t) = b + t.day + IF t.month > 2 /\ leap THEN 1 ELSE 0
    BY DEF DayOf
  <2> HIDE DEF b, leap
  <2>4. CASE leap
    BY <1>2, <2>2, <2>3, <2>4 DEF leap
  <2>5. CASE ~leap
    BY <1>2, <2>2, <2>3, <2>5 DEF leap
  <2> QED
    BY <2>4, <2>5
<1>5. t = [year |-> t.year, half |-> t.half, month |-> t.month, day |-> t.day]
  BY <1>1
<1> QED
  BY <1>2, <1>3, <1>4, <1>5

\* The instants of a year.
LEMMA InstantOf ==
  ASSUME NEW t \in Timestamps!Dates
  PROVE  /\ LeapDays(t.year - 1) \in Int
         /\ Timestamps!Instant(t) = 2 * (365 * (t.year - 1) + LeapDays(t.year - 1) + DayOf(t)) + t.half
         /\ Timestamps!Instant(t) \in Int
<1>1. /\ t.year \in Nat \ {0} /\ t.month \in 1..12 /\ t.day \in 1..31 /\ t.half \in {0, 1}
      /\ DayOf(t) \in Nat \ {0} /\ LeapDays(t.year - 1) \in Int
  BY DateOf, LeapCount
<1> DEFINE y == t.year - 1
           l == IF t.month > 2 /\ Timestamps!Leap(t.year) THEN 1 ELSE 0
           b == Timestamps!Before[t.month]
<1>2. y \in Nat /\ l \in Nat /\ b \in Nat /\ t.day \in Nat
      /\ y \div 4 \in Int /\ y \div 100 \in Int /\ y \div 400 \in Int
  BY <1>1 DEF Timestamps!Before
<1>3. Timestamps!Instant(t) = 2 * (365 * y + y \div 4 - y \div 100 + y \div 400 + b + t.day + l) + t.half
  BY DEF Timestamps!Instant
<1>4. DayOf(t) = b + t.day + l /\ LeapDays(y) = y \div 4 - y \div 100 + y \div 400
  BY DEF DayOf, LeapDays
<1> HIDE DEF y, l, b
<1>5. Timestamps!Instant(t) = 2 * (365 * y + LeapDays(y) + DayOf(t)) + t.half
  BY <1>1, <1>2, <1>3, <1>4
<1>6. Timestamps!Instant(t) \in Int
  BY <1>1, <1>2, <1>4, <1>5
<1> QED
  BY <1>1, <1>5, <1>6 DEF y

\* A date that is parsed soon after it was written, and exists in that year.
RecentlyWritten(t, n) ==
  /\ t.year <= n.year
  /\ Timestamps!Instant(t) <= Timestamps!Instant(n) + Timestamps!Week
  /\ Timestamps!Instant(t) > (Timestamps!Instant(n) + Timestamps!Week) - 2 * 365
  /\ t.month = 2 /\ t.day = 29 => Timestamps!Leap(n.year)

\* A stamp without a year: the year before the clock's is chosen exactly when the
\* date would be more than a week ahead in the clock's year, which is when the
\* stamp was written in the year before.
LEMMA YearChosen ==
  ASSUME NEW t \in Timestamps!Dates, NEW n \in Timestamps!Dates, NEW z,
         z.year = 0, z.month = t.month, z.day = t.day, z.half = t.half, RecentlyWritten(t, n)
  PROVE  Timestamps!setTimestampYear(z, n) = t
<1> DEFINE d == Timestamps!Date(n.year, t.month, t.day, t.half)
<1>1. /\ t.year <= n.year
      /\ Timestamps!Instant(t) <= Timestamps!Instant(n) + Timestamps!Week
      /\ Timestamps!Instant(t) > (Timestamps!Instant(n) + Timestamps!Week) - 2 * 365
      /\ t.month = 2 /\ t.day = 29 => Timestamps!Leap(n.year)
  BY DEF RecentlyWritten
<1>2. /\ t.year \in Nat \ {0} /\ t.month \in 1..12 /\ t.day \in 1..31 /\ t.half \in {0, 1}
      /\ t.month = 2 /\ t.day = 29 => Timestamps!Leap(t.year)
      /\ t = [year |-> t.year, half |-> t.half, month |-> t.month, day |-> t.day]
      /\ DayOf(t) \in Nat \ {0}
      /\ DayOf(t) <= IF Timestamps!Leap(t.year) THEN 366 ELSE 365
  BY DateOf
<1>3. n.year \in Nat \ {0} /\ n.half \in {0, 1} /\ DayOf(n) \in Nat \ {0}
  BY DateOf
<1>4. d = [year |-> n.year, half |-> t.half, month |-> t.month, day |-> t.day]
  BY <1>1 DEF Timestamps!Date
<1>5. Timestamps!setTimestampYear(z, n) =
        IF Timestamps!TooLate(d, n) THEN Timestamps!Date(n.year - 1, t.month, t.day, t.half) ELSE d
  BY <1>4 DEF Timestamps!setTimestampYear
<1> HIDE DEF d
<1>6. /\ LeapDays(t.year - 1) \in Int /\ LeapDays(n.year - 1) \in Int
      /\ Timestamps!Instant(t) = 2 * (365 * (t.year - 1) + LeapDays(t.year - 1) + DayOf(t)) + t.half
      /\ Timestamps!Instant(n) = 2 * (365 * (n.year - 1) + LeapDays(n.year - 1) + DayOf(n)) + n.half
  BY InstantOf
<1>7. CASE t.year = n.year
  <2>1. d = t
    BY <1>2, <1>4, <1>7
  <2>2. ~Timestamps!TooLate(d, n)
    <3>1. Timestamps!Instant(t) \in Int /\ Timestamps!Instant(n) \in Int
      BY InstantOf
    <3> QED
      BY <1>1, <2>1, <3>1 DEF Timestamps!TooLate, Timestamps!Week
  <2> QED
    BY <1>5, <2>1, <2>2
<1>8. CASE t.year = n.year - 1
  <2>1. ~(t.month = 2 /\ t.day = 29)
    BY <1>1, <1>2, <1>3, <1>8, LeapAlone
  <2>2. Timestamps!Date(n.year - 1, t.month, t.day, t.half) = t
    BY <1>2, <1>8, <2>1 DEF Timestamps!Date
  <2> DEFINE lt == IF Timestamps!Leap(t.year) THEN 1 ELSE 0
             ln == IF Timestamps!Leap(n.year) THEN 1 ELSE 0
             b == Timestamps!Before[t.month]
  <2>3. LeapDays(n.year - 1) = LeapDays(t.year - 1) + lt
    <3>1. LeapDays(n.year - 1) = LeapDays(t.year)
      BY <1>8
    <3>2. /\ Timestamps!Leap(t.year) => LeapDays(t.year) = LeapDays(t.year - 1) + 1
          /\ ~Timestamps!Leap(t.year) => LeapDays(t.year) = LeapDays(t.year - 1)
      BY <1>2, LeapCount
    <3> QED
      BY <1>6, <3>1, <3>2
  <2>4. Timestamps!Instant(d) = 2 * (365 * (n.year - 1) + LeapDays(n.year - 1) + b + t.day
                                     + IF t.month > 2 THEN ln ELSE 0) + t.half
    <3> DEFINE y == n.year - 1
               l == IF t.month > 2 THEN ln ELSE 0
    <3>1. Timestamps!Instant(d) = 2 * (365 * y + y \div 4 - y \div 100 + y \div 400 + b + t.day + l) + t.half
      BY <1>4 DEF Timestamps!Instant
    <3>2. LeapDays(y) = y \div 4 - y \div 100 + y \div 400
      BY DEF LeapDays
    <3>3. y \in Nat /\ l \in Nat /\ b \in Nat /\ t.day \in Nat
          /\ y \div 4 \in Int /\ y \div 100 \in Int /\ y \div 400 \in Int
      BY <1>2, <1>3 DEF Timestamps!Before
    <3> HIDE DEF y, l, b
    <3>4. Timestamps!Instant(d) = 2 * (365 * y + LeapDays(y) + b + t.day + l) + t.half
      BY <1>2, <3>1, <3>2, <3>3
    <3> QED
      BY <3>4 DEF y, l
  <2>5. DayOf(t) = b + t.day + IF t.month > 2 THEN lt ELSE 0
    BY DEF DayOf
  <2>6. b \in Nat /\ t.day \in Nat /\ lt \in {0, 1} /\ ln \in {0, 1} /\ t.month \in Int
    BY <1>2 DEF Timestamps!Before
  <2> HIDE DEF b, lt, ln
  <2>7. Timestamps!Instant(d) \in Int /\ Timestamps!Instant(d) >= Timestamps!Instant(t) + 2 * 365
    BY <1>2, <1>3, <1>6, <1>8, <2>3, <2>4, <2>5, <2>6
  <2>8. Timestamps!TooLate(d, n)
    <3>1. Timestamps!Instant(t) \in Int /\ Timestamps!Instant(n) \in Int
      BY InstantOf
    <3> QED
      BY <1>1, <2>7, <3>1 DEF Timestamps!TooLate, Timestamps!Week
  <2> QED
    BY <1>5, <2>2, <2>8
<1>9. CASE t.year < n.year - 1
  <2>1. t.year \in Nat \ {0} /\ t.year + 1 \in Nat \ {0}
    BY <1>2
  <2>2. LeapDays(n.year - 1) >= LeapDays(t.year)
    <3> DEFINE y == t.year
               last == n.year - 1
    <3>1. y \in Nat /\ last \in Nat /\ y <= last
      BY <1>2, <1>3, <1>9
    <3> HIDE DEF y, last
    <3>2. y \div 4 - y \div 100 <= last \div 4 - last \div 100
      BY <3>1
    <3>3. y \div 400 <= last \div 400
      BY <3>1
    <3>4. /\ y \div 4 \in Int /\ y \div 100 \in Int /\ y \div 400 \in Int
          /\ last \div 4 \in Int /\ last \div 100 \in Int /\ last \div 400 \in Int
      BY <3>1
    <3> QED
      BY <3>2, <3>3, <3>4 DEF LeapDays, y, last
  <2>3. /\ LeapDays(t.year) \in Int
        /\ Timestamps!Leap(t.year) => LeapDays(t.year) = LeapDays(t.year - 1) + 1
        /\ ~Timestamps!Leap(t.year) => LeapDays(t.year) = LeapDays(t.year - 1)
    BY <1>2, LeapCount
  <2>4. LeapDays(t.year - 1) + DayOf(t) <= LeapDays(t.year) + 365
    BY <1>2, <1>6, <2>3
  <2>5. Timestamps!Instant(n) + 14 - 2 * 365 >= Timestamps!Instant(t)
    BY <1>2, <1>3, <1>6, <1>9, <2>2, <2>3, <2>4
  <2>6. Timestamps!Instant(t) \in Int /\ Timestamps!Instant(n) \in Int
    BY InstantOf
  <2> QED
    BY <1>1, <2>5, <2>6 DEF Timestamps!Week
<1> QED
  BY <1>1, <1>2, <1>3, <1>7, <1>8, <1>9

\* A zone of the database is known to the location of its name.
LEMMA ZonesKnown ==
  /\ Timestamps!Hours["UTC"] = 0
  /\ Timestamps!Abbreviations("GMT") = {"GMT"} /\ Timestamps!Abbreviations("EST") = {"EST"}
<1>1. "UTC" \in Timestamps!Zones
  BY DEF Timestamps!Zones
<1>2. Timestamps!Hours["UTC"] = CASE "UTC" = "EST" -> -5 [] "UTC" = "EDT" -> -4 [] OTHER -> 0
  BY <1>1, Zenon DEF Timestamps!Hours
<1>3. "UTC" # "EST" /\ "UTC" # "EDT"
  OBVIOUS
<1>4. Timestamps!Hours["UTC"] = 0
  BY <1>2, <1>3, Zenon
<1>5. /\ "GMT" # "New_York" /\ "GMT" # "London" /\ "GMT" # "Azores"
      /\ "EST" # "New_York" /\ "EST" # "London" /\ "EST" # "Azores"
  OBVIOUS
<1>6. Timestamps!Abbreviations("GMT") = {"GMT"}
  BY <1>5, Zenon DEF Timestamps!Abbreviations
<1>7. Timestamps!Abbreviations("EST") = {"EST"}
  BY <1>5, Zenon DEF Timestamps!Abbreviations
<1> QED
  BY <1>4, <1>6, <1>7

\* An offset of zero is never taken for that of another zone.
LEMMA ZoneParsed ==
  ASSUME NEW zone \in Timestamps!Zones, NEW loc
  PROVE  Timestamps!parseGotime(zone, loc) \in {Timestamps!Error, <<Timestamps!Hours[zone]>>}
<1> DEFINE offset == Timestamps!ParseInLocation(zone, loc)
<1>1. CASE offset # 0
  BY <1>1 DEF Timestamps!parseGotime, Timestamps!ParseInLocation
<1>2. CASE offset = 0 /\ zone = "UTC"
  BY <1>2, ZonesKnown DEF Timestamps!parseGotime
<1>3. CASE offset = 0 /\ zone # "UTC" /\ zone \notin Timestamps!Database
  BY <1>3 DEF Timestamps!parseGotime
<1>4. CASE offset = 0 /\ zone # "UTC" /\ zone \in Timestamps!Database
  <2>1. zone \in Timestamps!Abbreviations(zone)
    BY <1>4, ZonesKnown DEF Timestamps!Database
  <2>2. Timestamps!parseGotime(zone, loc) = <<Timestamps!ParseInLocation(zone, zone)>>
    BY <1>4 DEF Timestamps!parseGotime
  <2> QED
    BY <2>1, <2>2 DEF Timestamps!ParseInLocation
<1> QED
  BY <1>1, <1>2, <1>3, <1>4

-----------------------------------------------------------------------------
(* Seconds since the epoch *)

\* The decimals of a layout.
LEMMA DecimalsOf ==
  ASSUME NEW l \in DOMAIN Timestamps!Decimals
  PROVE  /\ Timestamps!Decimals[l] \in 0..3
         /\ Timestamps!Dotted(l) => Timestamps!Decimals[l] \in 1..3
<1>1. l \in {"s", "ms", "us", "ns", "s.ms", "s.us", "s.ns"}
  BY DEF Timestamps!Decimals
<1>2. Timestamps!Decimals[l] =
        CASE l = "s" -> 0 [] l \in {"ms", "s.ms"} -> 1
          [] l \in {"us", "s.us"} -> 2 [] l \in {"ns", "s.ns"} -> 3
  BY <1>1, Zenon DEF Timestamps!Decimals
<1>3. CASE l = "s"
  <2>1. Timestamps!Decimals[l] = 0
    BY <1>2, <1>3, Zenon
  <2> QED
    BY <1>3, <2>1 DEF Timestamps!Dotted
<1>4. CASE l \in {"ms", "s.ms"}
  <2>1. l # "s" /\ l \notin {"us", "s.us"} /\ l \notin {"ns", "s.ns"}
    BY <1>4
  <2>2. Timestamps!Decimals[l] = 1
    BY <1>2, <1>4, <2>1, Zenon
  <2> QED
    BY <2>2
<1>5. CASE l \in {"us", "s.us"}
  <2>1. l # "s" /\ l \notin {"ms", "s.ms"} /\ l \notin {"ns", "s.ns"}
    BY <1>5
  <2>2. Timestamps!Decimals[l] = 2
    BY <1>2, <1>5, <2>1, Zenon
  <2> QED
    BY <2>2
<1>6. CASE l \in {"ns", "s.ns"}
  <2>1. l # "s" /\ l \notin {"us", "s.us"} /\ l \notin {"ms", "s.ms"}
    BY <1>6
  <2>2. Timestamps!Decimals[l] = 3
    BY <1>2, <1>6, <2>1, Zenon
  <2> QED
    BY <2>2
<1> QED
  BY <1>1, <1>3, <1>4, <1>5, <1>6

\* Units of a decimal, and decimals of a second.
LEMMA UnitOf ==
  ASSUME NEW d \in 0..3
  PROVE  /\ d = 0 => Timestamps!Pow10(d) = 1 /\ Timestamps!Pow10(3 - d) = 1000
         /\ d = 1 => Timestamps!Pow10(d) = 10 /\ Timestamps!Pow10(3 - d) = 100
         /\ d = 2 => Timestamps!Pow10(d) = 100 /\ Timestamps!Pow10(3 - d) = 10
         /\ d = 3 => Timestamps!Pow10(d) = 1000 /\ Timestamps!Pow10(3 - d) = 1
         /\ d = 0 \/ d = 1 \/ d = 2 \/ d = 3
BY DEF Timestamps!Pow10

\* Whole units and the rest make up the number.
LEMMA QuoRem ==
  ASSUME NEW i \in Int, NEW p \in Int, NEW u \in Int,
         <<p, u>> \in {<<1, 1000>>, <<10, 100>>, <<100, 10>>, <<1000, 1>>}
  PROVE  Timestamps!Unix(Timestamps!Quo(i, p), Timestamps!Rem(i, p) * u) = u * i
<1> DEFINE q == Timestamps!Quo(i, p)
<1>1. q \in Int
  <2>1. p \in Nat \ {0}
    OBVIOUS
  <2> QED
    BY <2>1 DEF Timestamps!Quo, Timestamps!Abs
<1>2. Timestamps!Unix(q, Timestamps!Rem(i, p) * u) = 1000 * q + (i - p * q) * u
  BY DEF Timestamps!Unix, Timestamps!Rem
<1> HIDE DEF q
<1>3. 1000 * q + (i - p * q) * u = u * i
  <2>0. \/ p = 1 /\ u = 1000
        \/ p = 10 /\ u = 100
        \/ p = 100 /\ u = 10
        \/ p = 1000 /\ u = 1
    OBVIOUS
  <2>1. CASE p = 1 /\ u = 1000
    BY <1>1, <2>1
  <2>2. CASE p = 10 /\ u = 100
    BY <1>1, <2>2
  <2>3. CASE p = 100 /\ u = 10
    BY <1>1, <2>3
  <2>4. CASE p = 1000 /\ u = 1
    BY <1>1, <2>4
  <2> QED
    BY <2>0, <2>1, <2>2, <2>3, <2>4
<1> QED
  BY <1>2, <1>3 DEF q

\* getEpochStamp, for each type of value.
LEMMA StampOf ==
  ASSUME NEW l, NEW v
  PROVE  /\ v.type = "string" => Timestamps!getEpochStamp(l, v) = v.text
         /\ v.type = "int" => Timestamps!getEpochStamp(l, v) =
              IF Timestamps!Dotted(l) THEN [Timestamps!Signed(v.n) EXCEPT !.digits = 1]
              ELSE Timestamps!Signed(v.n)
         /\ v.type = "float" => Timestamps!getEpochStamp(l, v) =
              IF Timestamps!Dotted(l) THEN Timestamps!Sprintf(v.n, Timestamps!Decimals[l])
              ELSE Timestamps!Signed(Timestamps!Quo(v.n, 1000))
<1>1. "string" # "int" /\ "string" # "float" /\ "int" # "float"
  OBVIOUS
<1>2. ASSUME v.type = "string" PROVE Timestamps!getEpochStamp(l, v) = v.text
  BY <1>1, <1>2, Zenon DEF Timestamps!getEpochStamp
<1>3. ASSUME v.type = "int"
      PROVE  Timestamps!getEpochStamp(l, v) =
               IF Timestamps!Dotted(l) THEN [Timestamps!Signed(v.n) EXCEPT !.digits = 1]
               ELSE Timestamps!Signed(v.n)
  BY <1>1, <1>3, Zenon DEF Timestamps!getEpochStamp
<1>4. ASSUME v.type = "float"
      PROVE  Timestamps!getEpochStamp(l, v) =
               IF Timestamps!Dotted(l) THEN Timestamps!Sprintf(v.n, Timestamps!Decimals[l])
               ELSE Timestamps!Signed(Timestamps!Quo(v.n, 1000))
  BY <1>1, <1>4, Zenon DEF Timestamps!getEpochStamp
<1> QED
  BY <1>2, <1>3, <1>4

\* A number keeps its value when it is printed.
LEMMA SignedOf ==
  ASSUME NEW n \in Int
  PROVE  LET t == Timestamps!Signed(n) IN
         Timestamps!Negate(t.neg, t.whole) = n /\ t.digits = -1 /\ t.frac = 0 /\ t.padded = FALSE
<1> DEFINE t == Timestamps!Signed(n)
<1>1. t = [neg |-> n < 0, whole |-> Timestamps!Abs(n), frac |-> 0, digits |-> -1, padded |-> FALSE]
  BY DEF Timestamps!Signed, Timestamps!Text
<1> HIDE DEF t
<1>2. /\ t.neg <=> n < 0
      /\ t.whole = Timestamps!Abs(n)
      /\ t.digits = -1 /\ t.frac = 0 /\ t.padded = FALSE
  BY <1>1
<1>3. Timestamps!Negate(t.neg, t.whole) = n
  <2>1. CASE n < 0
    <3>1. t.neg /\ t.whole = -n
      BY <1>2, <2>1 DEF Timestamps!Abs
    <3> QED
      BY <3>1 DEF Timestamps!Negate
  <2>2. CASE ~(n < 0)
    <3>1. ~t.neg /\ t.whole = n
      BY <1>2, <2>2 DEF Timestamps!Abs
    <3> QED
      BY <3>1 DEF Timestamps!Negate
  <2> QED
    BY <2>1, <2>2
<1> QED
  BY <1>2, <1>3 DEF t

\* Layouts without decimals: a whole number of units.
LEMMA WholeUnits ==
  ASSUME NEW l \in DOMAIN Timestamps!Decimals, ~Timestamps!Dotted(l), NEW v, NEW i \in Int,
         LET t == Timestamps!getEpochStamp(l, v)
         IN Timestamps!Negate(t.neg, t.whole) = i /\ t.digits = -1
  PROVE  Timestamps!parseEpochTime(l, v) = <<Timestamps!Pow10(3 - Timestamps!Decimals[l]) * i>>
<1> DEFINE per == Timestamps!Pow10(Timestamps!Decimals[l])
           unit == Timestamps!Pow10(3 - Timestamps!Decimals[l])
<1>1. <<per, unit>> \in {<<1, 1000>>, <<10, 100>>, <<100, 10>>, <<1000, 1>>}
  <2> DEFINE d == Timestamps!Decimals[l]
  <2>1. d \in 0..3
    BY DecimalsOf
  <2> HIDE DEF d
  <2>2. <<Timestamps!Pow10(d), Timestamps!Pow10(3 - d)>> \in
          {<<1, 1000>>, <<10, 100>>, <<100, 10>>, <<1000, 1>>}
    BY <2>1, UnitOf
  <2> QED
    BY <2>2 DEF d
<1>2. Timestamps!parseEpochTime(l, v) =
        <<Timestamps!Unix(Timestamps!Quo(i, per), Timestamps!Rem(i, per) * (1000 \div per))>>
  BY DEF Timestamps!parseEpochTime
<1> HIDE DEF per, unit
<1>3. per \in Int /\ unit \in Int /\ 1000 \div per = unit
  BY <1>1
<1>4. Timestamps!Unix(Timestamps!Quo(i, per), Timestamps!Rem(i, per) * unit) = unit * i
  BY <1>1, <1>3, QuoRem
<1> QED
  BY <1>2, <1>3, <1>4 DEF unit

\* Layouts with decimals: whole seconds and the decimals.
LEMMA DottedUnits ==
  ASSUME NEW l \in DOMAIN Timestamps!Decimals, Timestamps!Dotted(l), NEW v, NEW t,
         t = Timestamps!getEpochStamp(l, v)
  PROVE  Timestamps!parseEpochTime(l, v) =
           IF t.digits = -1 \/ t.padded THEN Timestamps!Error
           ELSE <<1000 * Timestamps!Negate(t.neg, t.whole)
                  + t.frac * Timestamps!Pow10(3 - Timestamps!Decimals[l])>>
BY DEF Timestamps!parseEpochTime, Timestamps!Unix, Timestamps!Subsec

\* Integers are exact.
LEMMA EpochInt ==
  ASSUME NEW l \in DOMAIN Timestamps!Decimals, NEW v, v.type = "int", v.n \in Int
  PROVE  Timestamps!parseEpochTime(l, v) =
           <<v.n * (IF Timestamps!Dotted(l) THEN 1000 ELSE Timestamps!Pow10(3 - Timestamps!Decimals[l]))>>
<1> DEFINE t == Timestamps!Signed(v.n)
           unit == Timestamps!Pow10(3 - Timestamps!Decimals[l])
<1>1. /\ Timestamps!Negate(t.neg, t.whole) = v.n /\ t.digits = -1 /\ t.frac = 0 /\ t.padded = FALSE
      /\ t = [neg |-> v.n < 0, whole |-> Timestamps!Abs(v.n), frac |-> 0, digits |-> -1, padded |-> FALSE]
  BY SignedOf DEF Timestamps!Signed, Timestamps!Text
<1>2. unit \in Int
  BY DecimalsOf DEF Timestamps!Pow10
<1> HIDE DEF t, unit
<1>3. CASE Timestamps!Dotted(l)
  <2> DEFINE u == [t EXCEPT !.digits = 1]
  <2>1. u.neg = t.neg /\ u.whole = t.whole /\ u.frac = 0 /\ u.digits = 1 /\ u.padded = FALSE
    BY <1>1
  <2>2. u = Timestamps!getEpochStamp(l, v)
    BY <1>3, StampOf DEF t
  <2> HIDE DEF u
  <2>3. Timestamps!parseEpochTime(l, v) = <<1000 * v.n + 0 * unit>>
    BY <1>1, <1>3, <2>1, <2>2, DottedUnits DEF unit
  <2>4. 1000 * v.n + 0 * unit = v.n * 1000
    BY <1>2
  <2> QED
    BY <1>3, <2>3, <2>4
<1>4. CASE ~Timestamps!Dotted(l)
  <2>1. Timestamps!getEpochStamp(l, v) = t
    BY <1>4, StampOf DEF t
  <2>2. Timestamps!parseEpochTime(l, v) = <<unit * v.n>>
    BY <1>1, <1>4, <2>1, WholeUnits DEF unit
  <2>3. unit * v.n = v.n * unit
    BY <1>2
  <2> QED
    BY <1>4, <2>2, <2>3 DEF unit
<1> QED
  BY <1>3, <1>4

\* So are texts with the decimals of the layout,
LEMMA EpochText ==
  ASSUME NEW l \in DOMAIN Timestamps!Decimals, Timestamps!Dotted(l), NEW v, v.type = "string",
         v.text.whole \in Nat, v.text.frac \in Nat, v.text.padded = FALSE, ~v.text.neg,
         v.text.digits = Timestamps!Decimals[l]
  PROVE  Timestamps!parseEpochTime(l, v) =
           <<Timestamps!Unix(v.text.whole, Timestamps!Pow10(3 - Timestamps!Decimals[l]) * v.text.frac)>>
<1> DEFINE unit == Timestamps!Pow10(3 - Timestamps!Decimals[l])
           t == v.text
<1>1. Timestamps!getEpochStamp(l, v) = t /\ t.digits # -1
  BY StampOf, DecimalsOf
<1>2. unit \in Int
  BY DecimalsOf DEF Timestamps!Pow10
<1>3. Timestamps!parseEpochTime(l, v) = <<1000 * Timestamps!Negate(t.neg, t.whole) + t.frac * unit>>
  BY <1>1, DottedUnits
<1>4. Timestamps!Negate(t.neg, t.whole) = t.whole
  BY DEF Timestamps!Negate
<1> HIDE DEF unit
<1>5. t.frac * unit = unit * t.frac
  BY <1>2
<1> QED
  BY <1>3, <1>4, <1>5 DEF unit, Timestamps!Unix

\* and texts without decimals.
LEMMA EpochWholeText ==
  ASSUME NEW l \in DOMAIN Timestamps!Decimals, ~Timestamps!Dotted(l), NEW v, v.type = "string",
         v.text.whole \in Nat, v.text.neg \in BOOLEAN, v.text.digits = -1
  PROVE  Timestamps!parseEpochTime(l, v) =
           <<Timestamps!Pow10(3 - Timestamps!Decimals[l]) * Timestamps!Negate(v.text.neg, v.text.whole)>>
<1> DEFINE t == v.text
           i == Timestamps!Negate(t.neg, t.whole)
<1>1. i \in Int
  BY DEF Timestamps!Negate
<1> HIDE DEF i
<1>2. LET s == Timestamps!getEpochStamp(l, v)
      IN Timestamps!Negate(s.neg, s.whole) = i /\ s.digits = -1
  BY StampOf DEF i
<1> QED
  BY <1>1, <1>2, WholeUnits DEF i

\* Decimals and units of a layout with decimals.
LEMMA LayoutUnits ==
  ASSUME NEW l \in DOMAIN Timestamps!Decimals
  PROVE  LET d == Timestamps!Decimals[l] IN
         /\ d \in 0..3 /\ (Timestamps!Dotted(l) => d \in 1..3)
         /\ <<d, Timestamps!Pow10(d), Timestamps!Pow10(3 - d)>> \in
              {<<0, 1, 1000>>, <<1, 10, 100>>, <<2, 100, 10>>, <<3, 1000, 1>>}
<1> DEFINE d == Timestamps!Decimals[l]
<1>1. d \in 0..3 /\ (Timestamps!Dotted(l) => d \in 1..3)
  BY DecimalsOf
<1> HIDE DEF d
<1>2. <<d, Timestamps!Pow10(d), Timestamps!Pow10(3 - d)>> \in
        {<<0, 1, 1000>>, <<1, 10, 100>>, <<2, 100, 10>>, <<3, 1000, 1>>}
  BY <1>1, UnitOf
<1> QED
  BY <1>1, <1>2 DEF d

\* A float is rounded to the decimals of its layout, and is refused if it is short.
LEMMA EpochRounded ==
  ASSUME NEW l \in DOMAIN Timestamps!Decimals, Timestamps!Dotted(l), NEW v, v.type = "float",
         v.n \in Nat
  PROVE  LET parse == Timestamps!parseEpochTime(l, v)
             d == Timestamps!Decimals[l]
         IN IF parse = Timestamps!Error THEN v.n < 100000 /\ d < 3
            ELSE 2 * Timestamps!Abs(parse[1] - v.n) <= Timestamps!Pow10(3 - d)
<1> DEFINE d == Timestamps!Decimals[l]
           per == Timestamps!Pow10(d)
           unit == Timestamps!Pow10(3 - d)
           n == v.n
           q == n \div unit
           r == n % unit
           rounded == IF 2 * r > unit \/ (2 * r = unit /\ q % 2 = 1) THEN q + 1 ELSE q
           whole == rounded \div per
           frac == rounded % per
           length == 1 + d + (IF whole < 10 THEN 1 ELSE IF whole < 100 THEN 2 ELSE 3)
           t == Timestamps!Sprintf(n, d)
           parse == Timestamps!parseEpochTime(l, v)
<1>1. d \in 1..3 /\ <<d, per, unit>> \in {<<1, 10, 100>>, <<2, 100, 10>>, <<3, 1000, 1>>}
  <2>1. d \in 1..3 /\ <<d, per, unit>> \in {<<0, 1, 1000>>, <<1, 10, 100>>, <<2, 100, 10>>, <<3, 1000, 1>>}
    BY LayoutUnits
  <2> HIDE DEF d, per, unit
  <2> QED
    BY <2>1
<1>2. t.digits = d /\ (t.padded <=> length < 5) /\ t.neg = FALSE /\ t.whole = whole /\ t.frac = frac
  <2> DEFINE short == length < Timestamps!Width
             neg == n < 0
             text == Timestamps!Text(FALSE, whole, frac, d)
  <2>1. neg = FALSE /\ Timestamps!Abs(n) = n
    BY DEF Timestamps!Abs
  <2>2. t = [Timestamps!Text(neg, whole, frac, d) EXCEPT !.padded = short]
    BY <2>1 DEF Timestamps!Sprintf
  <2>3. text = [neg |-> FALSE, whole |-> whole, frac |-> frac, digits |-> d, padded |-> FALSE]
    BY DEF Timestamps!Text
  <2>4. short <=> length < 5
    BY DEF Timestamps!Width
  <2> HIDE DEF t, whole, frac, length, d, short, neg, text
  <2>5. t = [text EXCEPT !.padded = short]
    BY <2>1, <2>2 DEF text
  <2>6. t.digits = d /\ t.padded = short /\ t.neg = FALSE /\ t.whole = whole /\ t.frac = frac
    BY <2>3, <2>5
  <2> QED
    BY <2>4, <2>6
<1>3. parse = IF t.digits = -1 \/ t.padded THEN Timestamps!Error
              ELSE <<1000 * Timestamps!Negate(t.neg, t.whole) + t.frac * unit>>
  <2>1. t = Timestamps!getEpochStamp(l, v)
    BY StampOf
  <2> HIDE DEF t
  <2> QED
    BY <2>1, DottedUnits
<1> HIDE DEF t, parse
<1>4. parse = IF length < 5 THEN Timestamps!Error ELSE <<1000 * whole + frac * unit>>
  <2> HIDE DEF d, per, whole, frac, length, unit
  <2>1. Timestamps!Negate(t.neg, t.whole) = whole /\ t.digits # -1
    BY <1>1, <1>2 DEF Timestamps!Negate
  <2> QED
    BY <1>2, <1>3, <2>1
<1> HIDE DEF d, per, unit
<1>5. d \in Int /\ per \in Nat \ {0} /\ unit \in Nat \ {0} /\ n \in Nat
  BY <1>1
<1>6. q \in Nat /\ r \in 0..(unit - 1) /\ n = unit * q + r
  <2>1. unit = 100 \/ unit = 10 \/ unit = 1
    BY <1>1
  <2> QED
    BY <1>5, <2>1
<1> HIDE DEF n, q, r
<1>7. rounded \in Nat /\ rounded \in {q, q + 1} /\ 2 * Timestamps!Abs(unit * rounded - n) <= unit
  <2>1. CASE 2 * r > unit \/ (2 * r = unit /\ q % 2 = 1)
    <3>1. rounded = q + 1
      BY <2>1
    <3>2. 2 * r >= unit
      BY <1>5, <1>6, <2>1
    <3>3. unit * (q + 1) - n = unit - r
      BY <1>1, <1>5, <1>6
    <3> QED
      BY <1>5, <1>6, <3>1, <3>2, <3>3 DEF Timestamps!Abs
  <2>2. CASE ~(2 * r > unit \/ (2 * r = unit /\ q % 2 = 1))
    <3>1. rounded = q
      BY <2>2
    <3>2. 2 * r <= unit
      BY <1>5, <1>6, <2>2
    <3>3. unit * q - n = -r
      BY <1>1, <1>5, <1>6
    <3> QED
      BY <1>5, <1>6, <3>1, <3>2, <3>3 DEF Timestamps!Abs
  <2> QED
    BY <2>1, <2>2
<1> HIDE DEF rounded
<1>8. 1000 * whole + frac * unit = unit * rounded /\ whole \in Nat /\ rounded < per * (whole + 1)
  <2>1. \/ per = 10 /\ unit = 100
        \/ per = 100 /\ unit = 10
        \/ per = 1000 /\ unit = 1
    BY <1>1
  <2> QED
    BY <1>7, <2>1
<1> HIDE DEF whole, frac
<1>9. length < 5 => n < 100000 /\ d < 3
  <2>1. CASE d = 1
    <3>1. per = 10 /\ unit = 100
      BY <1>1, <2>1
    <3>2. length < 5 => whole < 100
      BY <1>8, <2>1
    <3> QED
      BY <1>5, <1>6, <1>7, <1>8, <2>1, <3>1, <3>2
  <2>2. CASE d = 2
    <3>1. per = 100 /\ unit = 10
      BY <1>1, <2>2
    <3>2. length < 5 => whole < 10
      BY <1>8, <2>2
    <3> QED
      BY <1>5, <1>6, <1>7, <1>8, <2>2, <3>1, <3>2
  <2>3. CASE d = 3
    BY <1>8, <2>3
  <2> QED
    BY <1>1, <2>1, <2>2, <2>3
<1>10. CASE length < 5
  BY <1>4, <1>9, <1>10 DEF d, n, parse
<1>11. CASE ~(length < 5)
  <2>1. parse = <<unit * rounded>> /\ parse # Timestamps!Error /\ parse[1] = unit * rounded
    BY <1>4, <1>8, <1>11 DEF Timestamps!Error
  <2>2. 2 * Timestamps!Abs(parse[1] - n) <= unit
    BY <1>7, <2>1
  <2> QED
    BY <2>1, <2>2 DEF parse, n, unit, d
<1> QED
  BY <1>10, <1>11

\* In a layout without decimals a float is cut off.
LEMMA EpochCut ==
  ASSUME NEW l \in DOMAIN Timestamps!Decimals, ~Timestamps!Dotted(l), NEW v, v.type = "float",
         v.n \in Int
  PROVE  LET unit == Timestamps!Pow10(3 - Timestamps!Decimals[l])
         IN Timestamps!Abs(1000 * Timestamps!parseEpochTime(l, v)[1] - unit * v.n) < 1000 * unit
<1> DEFINE unit == Timestamps!Pow10(3 - Timestamps!Decimals[l])
           q == Timestamps!Quo(v.n, 1000)
           n == v.n
<1>1. q \in Int /\ 1000 * q - n < 1000 /\ 1000 * q - n > -1000
  BY DEF Timestamps!Quo, Timestamps!Abs
<1> HIDE DEF q
<1>2. LET t == Timestamps!getEpochStamp(l, v)
      IN Timestamps!Negate(t.neg, t.whole) = q /\ t.digits = -1
  <2>1. Timestamps!getEpochStamp(l, v) = Timestamps!Signed(q)
    BY StampOf DEF q
  <2>2. q \in Int
    BY <1>1
  <2>3. LET t == Timestamps!Signed(q) IN Timestamps!Negate(t.neg, t.whole) = q /\ t.digits = -1
    BY <2>2, SignedOf
  <2> QED
    BY <2>1, <2>3, Zenon
<1>3. Timestamps!parseEpochTime(l, v) = <<unit * q>>
  BY <1>1, <1>2, WholeUnits
<1>4. unit \in {1, 10, 100, 1000}
  <2>1. <<Timestamps!Decimals[l], Timestamps!Pow10(Timestamps!Decimals[l]), unit>> \in
          {<<0, 1, 1000>>, <<1, 10, 100>>, <<2, 100, 10>>, <<3, 1000, 1>>}
    BY LayoutUnits
  <2> HIDE DEF unit
  <2> QED
    BY <2>1
<1> HIDE DEF unit
<1>5. n \in Int
  OBVIOUS
<1> HIDE DEF n
<1>6. Timestamps!Abs(1000 * (unit * q) - unit * n) < 1000 * unit
  <2>1. CASE unit = 1
    BY <1>1, <1>5, <2>1 DEF Timestamps!Abs
  <2>2. CASE unit = 10
    BY <1>1, <1>5, <2>2 DEF Timestamps!Abs
  <2>3. CASE unit = 100
    BY <1>1, <1>5, <2>3 DEF Timestamps!Abs
  <2>4. CASE unit = 1000
    BY <1>1, <1>5, <2>4 DEF Timestamps!Abs
  <2> QED
    BY <1>4, <2>1, <2>2, <2>3, <2>4
<1>7. Timestamps!parseEpochTime(l, v)[1] = unit * q
  BY <1>3
<1> QED
  BY <1>6, <1>7 DEF unit, n

-----------------------------------------------------------------------------
(* Configurations of time parsers *)

Zones == {"", "UTC", "Local", "New_York"}
Layouts == {"", "%Y", "%YZ", "%?", "2006", "2006Z", "invalid", "s", "s.ns"}

Configs ==
  [kind : {"config"}, from : BOOLEAN, zone : Zones,
   type : {"", "strptime", "gotime", "epoch", "native", "other"},
   layout : Layouts, location : {"", "New_York", "Nowhere"}]

\* Validate, for each type.
LEMMA ValidateOf ==
  ASSUME NEW c \in Configs, c.from, c.layout # "" \/ c.type = "native"
  PROVE  /\ c.type = "native" => Timestamps!Validate(c) = <<c>>
         /\ c.type = "gotime" => Timestamps!Validate(c) = Timestamps!setLocation(c)
         /\ c.type \in {"", "strptime"} =>
              Timestamps!Validate(c) = IF Timestamps!ToNative(c.layout) = "invalid" THEN Timestamps!Error
                                       ELSE Timestamps!setLocation(Timestamps!Remapped(c))
         /\ c.type = "epoch" =>
              Timestamps!Validate(c) = IF c.layout \in DOMAIN Timestamps!Decimals THEN <<c>>
                                       ELSE Timestamps!Error
         /\ c.type \notin {"native", "gotime", "", "strptime", "epoch"} =>
              Timestamps!Validate(c) = Timestamps!Error
<1>1. Timestamps!Validate(c) =
        CASE c.type = "native" -> <<c>>
          [] c.type = "gotime" -> Timestamps!setLocation(c)
          [] c.type \in {"", "strptime"} ->
               IF Timestamps!ToNative(c.layout) = "invalid" THEN Timestamps!Error
               ELSE Timestamps!setLocation(Timestamps!Remapped(c))
          [] c.type = "epoch" -> IF c.layout \in DOMAIN Timestamps!Decimals THEN <<c>> ELSE Timestamps!Error
          [] OTHER -> Timestamps!Error
  BY Zenon DEF Timestamps!Validate
<1>2. /\ "native" # "gotime" /\ "native" # "epoch" /\ "gotime" # "epoch"
      /\ "native" \notin {"", "strptime"} /\ "gotime" \notin {"", "strptime"} /\ "epoch" \notin {"", "strptime"}
  OBVIOUS
<1>3. ASSUME c.type = "native" PROVE Timestamps!Validate(c) = <<c>>
  BY <1>1, <1>2, <1>3, Zenon
<1>4. ASSUME c.type = "gotime" PROVE Timestamps!Validate(c) = Timestamps!setLocation(c)
  BY <1>1, <1>2, <1>4, Zenon
<1>5. ASSUME c.type \in {"", "strptime"}
      PROVE  Timestamps!Validate(c) = IF Timestamps!ToNative(c.layout) = "invalid" THEN Timestamps!Error
                                      ELSE Timestamps!setLocation(Timestamps!Remapped(c))
  <2>1. c.type # "native" /\ c.type # "gotime" /\ c.type # "epoch"
    BY <1>5
  <2> QED
    BY <1>1, <1>5, <2>1, Zenon
<1>6. ASSUME c.type = "epoch"
      PROVE  Timestamps!Validate(c) = IF c.layout \in DOMAIN Timestamps!Decimals THEN <<c>>
                                      ELSE Timestamps!Error
  BY <1>1, <1>2, <1>6, Zenon
<1>7. ASSUME c.type \notin {"native", "gotime", "", "strptime", "epoch"}
      PROVE  Timestamps!Validate(c) = Timestamps!Error
  <2>1. c.type # "native" /\ c.type # "gotime" /\ c.type # "epoch" /\ c.type \notin {"", "strptime"}
    BY <1>7
  <2> QED
    BY <1>1, <2>1, Zenon
<1> QED
  BY <1>3, <1>4, <1>5, <1>6, <1>7

\* What the location makes of the zone, and nothing else.
LEMMA LocationOf ==
  ASSUME NEW c \in Configs
  PROVE  \/ Timestamps!setLocation(c) = Timestamps!Error
         \/ \E d \in Configs :
              /\ Timestamps!setLocation(c) = <<d>> /\ Timestamps!setLocation(d) = <<d>>
              /\ d.from = c.from /\ d.type = c.type /\ d.layout = c.layout
<1> DEFINE zone == IF c.location # "" THEN c.location
                   ELSE IF c.layout = "2006Z" THEN "UTC" ELSE "Local"
           d == [c EXCEPT !.zone = zone]
<1>1. c.location # "Nowhere" => zone \in Zones
  BY DEF Configs, Zones
<1>2. CASE c.location = "Nowhere"
  BY <1>2 DEF Timestamps!setLocation
<1>3. CASE c.location # "Nowhere"
  <2>1. Timestamps!setLocation(c) = <<d>>
    BY <1>3 DEF Timestamps!setLocation
  <2>2. Timestamps!setLocation(d) =
          IF d.location = "Nowhere" THEN Timestamps!Error
          ELSE <<[d EXCEPT !.zone = IF d.location # "" THEN d.location
                                    ELSE IF d.layout = "2006Z" THEN "UTC" ELSE "Local"]>>
    BY DEF Timestamps!setLocation
  <2>3. d \in Configs /\ d.location = c.location /\ d.layout = c.layout /\ d.from = c.from
        /\ d.type = c.type /\ d.zone = zone
    <3> HIDE DEF zone
    <3> QED
      BY <1>1, <1>3 DEF Configs
  <2>4. zone = IF d.location # "" THEN d.location
               ELSE IF d.layout = "2006Z" THEN "UTC" ELSE "Local"
    <3> HIDE DEF d
    <3> QED
      BY <2>3
  <2> HIDE DEF d, zone
  <2>5. Timestamps!setLocation(d) = <<[d EXCEPT !.zone = zone]>>
    BY <1>3, <2>2, <2>3, <2>4
  <2>6. [d EXCEPT !.zone = zone] = d
    BY <2>3 DEF Configs
  <2> QED
    BY <2>1, <2>3, <2>5, <2>6
<1> QED
  BY <1>2, <1>3

\* A gotime configuration that is accepted is accepted again as it is.
LEMMA GotimeOnce ==
  ASSUME NEW c \in Configs, c.from, c.layout # "", c.type = "gotime",
         Timestamps!setLocation(c) # Timestamps!Error
  PROVE  LET e == Timestamps!setLocation(c)
         IN e[1].type = "gotime" /\ Timestamps!Validate(e[1]) = e
<1>1. PICK d \in Configs :
        /\ Timestamps!setLocation(c) = <<d>> /\ Timestamps!setLocation(d) = <<d>>
        /\ d.from = c.from /\ d.type = c.type /\ d.layout = c.layout
  BY LocationOf
<1>2. d.from /\ d.layout # "" /\ d.type = "gotime"
  BY <1>1
<1>3. Timestamps!Validate(d) = <<d>>
  BY <1>1, <1>2, ValidateOf
<1> DEFINE e == Timestamps!setLocation(c)
<1> HIDE DEF e
<1>4. e = <<d>>
  BY <1>1 DEF e
<1>5. e[1].type = "gotime" /\ Timestamps!Validate(e[1]) = e
  BY <1>2, <1>3, <1>4
<1> QED
  BY <1>5 DEF e

\* A strptime layout becomes one of package time.
LEMMA RemappedOf ==
  ASSUME NEW c \in Configs, c.layout # ""
  PROVE  LET r == Timestamps!Remapped(c)
         IN r \in Configs /\ r.from = c.from /\ r.layout # "" /\ r.type = "gotime"
<1> DEFINE native == Timestamps!ToNative(c.layout)
<1>1. native \in Layouts /\ native # ""
  <2>1. native = CASE c.layout = "%Y" -> "2006" [] c.layout = "%YZ" -> "2006Z" [] c.layout = "%?" -> "invalid"
                   [] OTHER -> c.layout
    BY DEF Timestamps!ToNative
  <2> HIDE DEF native
  <2>2. "%Y" # "%YZ" /\ "%Y" # "%?" /\ "%YZ" # "%?"
    OBVIOUS
  <2>3. CASE c.layout = "%Y"
    <3>1. native = "2006"
      BY <2>1, <2>2, <2>3, Zenon
    <3> QED
      BY <3>1 DEF Layouts
  <2>4. CASE c.layout = "%YZ"
    <3>1. native = "2006Z"
      BY <2>1, <2>2, <2>4, Zenon
    <3> QED
      BY <3>1 DEF Layouts
  <2>5. CASE c.layout = "%?"
    <3>1. native = "invalid"
      BY <2>1, <2>2, <2>5, Zenon
    <3> QED
      BY <3>1 DEF Layouts
  <2>6. CASE c.layout # "%Y" /\ c.layout # "%YZ" /\ c.layout # "%?"
    <3>1. native = c.layout
      BY <2>1, <2>6, Zenon
    <3> QED
      BY <3>1 DEF Configs
  <2> QED
    BY <2>3, <2>4, <2>5, <2>6
<1> HIDE DEF native
<1> DEFINE a == [c EXCEPT !.layout = native]
<1>2. Timestamps!Remapped(c) = [a EXCEPT !.type = "gotime"]
  BY DEF Timestamps!Remapped, native
<1>3. a \in Configs /\ a.from = c.from /\ a.layout = native
  BY <1>1 DEF Configs
<1> DEFINE r == Timestamps!Remapped(c)
<1> HIDE DEF a, r
<1>4. r \in Configs /\ r.from = a.from /\ r.layout = a.layout /\ r.type = "gotime"
  BY <1>2, <1>3 DEF Configs, r
<1> QED
  BY <1>1, <1>3, <1>4 DEF r

\* Whatever Validate accepts, it accepts again as it is.
LEMMA ValidOnce ==
  ASSUME NEW c \in Configs
  PROVE  LET e == Timestamps!Validate(c)
         IN e # Timestamps!Error =>
              e[1].type \in {"native", "gotime", "epoch"} /\ Timestamps!Validate(e[1]) = e
<1> DEFINE e == Timestamps!Validate(c)
<1> SUFFICES ASSUME e # Timestamps!Error
             PROVE  e[1].type \in {"native", "gotime", "epoch"} /\ Timestamps!Validate(e[1]) = e
  OBVIOUS
<1>1. c.from /\ (c.layout # "" \/ c.type = "native")
  BY DEF Timestamps!Validate
<1> HIDE DEF e
<1>2. ASSUME e = <<c>>, c.type \in {"native", "epoch"}
      PROVE  e[1].type \in {"native", "gotime", "epoch"} /\ Timestamps!Validate(e[1]) = e
  <2>1. e[1] = c
    BY <1>2
  <2>2. Timestamps!Validate(c) = e
    BY DEF e
  <2> QED
    BY <1>2, <2>1, <2>2
<1>3. CASE c.type = "gotime"
  <2>1. e = Timestamps!setLocation(c)
    BY <1>1, <1>3, ValidateOf DEF e
  <2> QED
    BY <1>1, <1>3, <2>1, GotimeOnce
<1>4. CASE c.type \in {"", "strptime"}
  <2> DEFINE r == Timestamps!Remapped(c)
  <2>1. c.layout # ""
    BY <1>1, <1>4
  <2>2. e = Timestamps!setLocation(r)
    BY <1>1, <1>4, ValidateOf DEF e
  <2>3. r \in Configs /\ r.from = c.from /\ r.layout # "" /\ r.type = "gotime"
    BY <2>1, RemappedOf
  <2> HIDE DEF r
  <2> QED
    BY <1>1, <2>2, <2>3, GotimeOnce
<1>5. CASE c.type = "epoch"
  <2>1. e = <<c>>
    BY <1>1, <1>5, ValidateOf DEF e
  <2> QED
    BY <1>2, <1>5, <2>1
<1>6. CASE c.type \notin {"native", "gotime", "", "strptime", "epoch"}
  BY <1>1, <1>6, ValidateOf DEF e
<1>7. CASE c.type = "native"
  <2>1. e = <<c>>
    BY <1>1, <1>7, ValidateOf DEF e
  <2> QED
    BY <1>2, <1>7, <2>1
<1> QED
  BY <1>3, <1>4, <1>5, <1>6, <1>7

-----------------------------------------------------------------------------
(* The stamp that waits *)

\* The stamp is one of Stamps, and the clock shows one of the dates.
TimesInv ==
  /\ stamp \in Timestamps!Stamps
  /\ stamp.kind = "date" => clock \in Timestamps!Dates

\* What a stamp of each kind is.
LEMMA StampKinds ==
  ASSUME stamp \in Timestamps!Stamps
  PROVE  /\ stamp.kind = "date" => stamp.at \in Timestamps!Dates
         /\ stamp.kind = "zone" => stamp.zone \in Timestamps!Zones
         /\ stamp.kind = "epoch" =>
              /\ stamp.layout \in DOMAIN Timestamps!Decimals
              /\ stamp.value \in [type : {"int", "float"}, n : Int]
                   \cup [type : {"string"},
                         text : [neg : BOOLEAN, whole : Nat, frac : Nat, digits : Int, padded : {FALSE}]]
         /\ stamp.kind = "config" => stamp \in Configs
<1>1. CASE stamp \in [kind : {"date"}, at : Timestamps!Dates]
  BY <1>1
<1>2. CASE stamp \in [kind : {"zone"}, zone : Timestamps!Zones,
                      loc : {"New_York", "London", "Azores", "UTC"}]
  BY <1>2
<1> DEFINE values ==
      [type : {"int", "float"}, n : Epochs]
      \cup [type : {"string"},
            text : [neg : BOOLEAN, whole : {0, 1, 120}, frac : {0, 5}, digits : {-1, 1, 2, 3},
                    padded : {FALSE}]]
<1>3. CASE stamp \in [kind : {"epoch"}, layout : DOMAIN Timestamps!Decimals, value : values]
  <2>1. stamp.kind = "epoch" /\ stamp.layout \in DOMAIN Timestamps!Decimals /\ stamp.value \in values
    <3> HIDE DEF values
    <3> QED
      BY <1>3
  <2>2. values \subseteq [type : {"int", "float"}, n : Int]
          \cup [type : {"string"},
                text : [neg : BOOLEAN, whole : Nat, frac : Nat, digits : Int, padded : {FALSE}]]
    <3>1. [type : {"int", "float"}, n : Epochs] \subseteq [type : {"int", "float"}, n : Int]
      BY TimesAssumption
    <3>2. [type : {"string"},
           text : [neg : BOOLEAN, whole : {0, 1, 120}, frac : {0, 5}, digits : {-1, 1, 2, 3},
                   padded : {FALSE}]]
            \subseteq [type : {"string"},
                       text : [neg : BOOLEAN, whole : Nat, frac : Nat, digits : Int, padded : {FALSE}]]
      <4> DEFINE few == [neg : BOOLEAN, whole : {0, 1, 120}, frac : {0, 5}, digits : {-1, 1, 2, 3},
                         padded : {FALSE}]
                 all == [neg : BOOLEAN, whole : Nat, frac : Nat, digits : Int, padded : {FALSE}]
      <4>1. few \subseteq all
        <5> SUFFICES ASSUME NEW f \in few PROVE f \in all
          OBVIOUS
        <5>1. f.neg \in BOOLEAN /\ f.whole \in {0, 1, 120} /\ f.frac \in {0, 5}
              /\ f.digits \in {-1, 1, 2, 3} /\ f.padded \in {FALSE}
          OBVIOUS
        <5>2. f = [neg |-> f.neg, whole |-> f.whole, frac |-> f.frac, digits |-> f.digits,
                   padded |-> f.padded]
          OBVIOUS
        <5>3. f.whole \in Nat /\ f.frac \in Nat /\ f.digits \in Int
          BY <5>1
        <5> QED
          BY <5>1, <5>2, <5>3
      <4> HIDE DEF few, all
      <4>2. [type : {"string"}, text : few] \subseteq [type : {"string"}, text : all]
        BY <4>1
      <4> QED
        BY <4>2 DEF few, all
    <3> QED
      BY <3>1, <3>2
  <2> HIDE DEF values
  <2> QED
    BY <2>1, <2>2
<1>4. CASE stamp \in [kind : {"config"}, from : BOOLEAN, zone : {""},
                      type : {"", "strptime", "gotime", "epoch", "native", "other"},
                      layout : {"", "%Y", "%YZ", "%?", "2006Z", "s", "s.ns"},
                      location : {"", "New_York", "Nowhere"}]
  BY <1>4 DEF Configs, Layouts, Zones
<1> QED
  BY <1>1, <1>2, <1>3, <1>4 DEF Timestamps!Stamps

\* Parse, for each kind of stamp.
LEMMA ParseKinds ==
  /\ stamp.kind = "date" =>
       Timestamps!Parse = <<Timestamps!setTimestampYear([stamp.at EXCEPT !.year = 0], clock)>>
  /\ stamp.kind = "zone" => Timestamps!Parse = Timestamps!parseGotime(stamp.zone, stamp.loc)
  /\ stamp.kind = "epoch" => Timestamps!Parse = Timestamps!parseEpochTime(stamp.layout, stamp.value)
<1>1. "date" # "zone" /\ "date" # "epoch" /\ "zone" # "epoch"
  OBVIOUS
<1>2. ASSUME stamp.kind = "date"
      PROVE  Timestamps!Parse = <<Timestamps!setTimestampYear([stamp.at EXCEPT !.year = 0], clock)>>
  BY <1>1, <1>2, Zenon DEF Timestamps!Parse
<1>3. ASSUME stamp.kind = "zone"
      PROVE  Timestamps!Parse = Timestamps!parseGotime(stamp.zone, stamp.loc)
  BY <1>1, <1>3, Zenon DEF Timestamps!Parse
<1>4. ASSUME stamp.kind = "epoch"
      PROVE  Timestamps!Parse = Timestamps!parseEpochTime(stamp.layout, stamp.value)
  BY <1>1, <1>4, Zenon DEF Timestamps!Parse
<1> QED
  BY <1>2, <1>3, <1>4

\* The clock starts at the earliest date.
LEMMA ClockStart ==
  ASSUME Timestamps!Dates # {}, clock = CHOOSE t \in Timestamps!Dates :
           \A u \in Timestamps!Dates : Timestamps!Instant(t) <= Timestamps!Instant(u)
  PROVE  clock \in Timestamps!Dates
<1> DEFINE I == {Timestamps!Instant(t) : t \in Timestamps!Dates}
<1>1. \A t \in Timestamps!Dates : Timestamps!Instant(t) \in Nat
  <2> TAKE t \in Timestamps!Dates
  <2>1. /\ t.year \in Nat \ {0} /\ t.half \in {0, 1} /\ DayOf(t) \in Nat \ {0}
    BY DateOf
  <2>2. LeapDays(t.year - 1) \in Nat
    BY <2>1 DEF LeapDays
  <2>3. Timestamps!Instant(t) = 2 * (365 * (t.year - 1) + LeapDays(t.year - 1) + DayOf(t)) + t.half
    BY InstantOf
  <2> QED
    BY <2>1, <2>2, <2>3
<1>2. PICK i \in I : \A j \in I : i <= j
  <2>1. I \subseteq Nat /\ I # {}
    BY <1>1
  <2> HIDE DEF I
  <2>2. \E x \in I : \A y \in I : ~(<<y, x>> \in OpToRel(<, Nat))
    BY <2>1, NatLessThanWellFounded, WFMin
  <2>3. PICK x \in I : \A y \in I : ~(y < x)
    BY <2>1, <2>2 DEF OpToRel
  <2>4. \A y \in I : x \in Nat /\ y \in Nat
    BY <2>1
  <2> QED
    BY <2>3, <2>4
<1>3. PICK t \in Timestamps!Dates : i = Timestamps!Instant(t)
  BY <1>2
<1>4. \A u \in Timestamps!Dates : Timestamps!Instant(t) <= Timestamps!Instant(u)
  BY <1>2, <1>3
<1> QED
  BY <1>4

\* A stamp is one of Stamps at first.
LEMMA TimesStart == ASSUME MCInit PROVE TimesInv
<1>1. /\ stamp \in Timestamps!Stamps
      /\ clock = CHOOSE t \in Timestamps!Dates :
                   \A u \in Timestamps!Dates : Timestamps!Instant(t) <= Timestamps!Instant(u)
  BY DEF MCInit, Timestamps!Init
<1>2. stamp.kind = "date" => Timestamps!Dates # {}
  BY <1>1, StampKinds
<1> QED
  BY <1>1, <1>2, ClockStart DEF TimesInv

\* The year, for any clock.
LEMMA YearRestoredHolds == ASSUME TimesInv PROVE Timestamps!YearRestored
<1> DEFINE date == stamp.at
<1> SUFFICES ASSUME stamp.kind = "date", RecentlyWritten(date, clock)
             PROVE  Timestamps!Parse = <<date>>
  BY Zenon DEF Timestamps!YearRestored, RecentlyWritten
<1>1. date \in Timestamps!Dates /\ clock \in Timestamps!Dates
  BY StampKinds DEF TimesInv
<1> DEFINE z == [date EXCEPT !.year = 0]
<1>2. z.year = 0 /\ z.month = date.month /\ z.day = date.day /\ z.half = date.half
  <2>1. date = [year |-> date.year, half |-> date.half, month |-> date.month, day |-> date.day]
    BY <1>1, DateOf
  <2> QED
    BY <2>1
<1>3. Timestamps!Parse = <<Timestamps!setTimestampYear(z, clock)>>
  BY ParseKinds
<1> HIDE DEF date, z
<1>4. Timestamps!setTimestampYear(z, clock) = date
  BY <1>1, <1>2, YearChosen, Zenon
<1> QED
  BY <1>3, <1>4

\* The seconds, in any layout.
LEMMA EpochExactHolds == ASSUME TimesInv PROVE Timestamps!EpochExact
<1> DEFINE l == stamp.layout
           v == stamp.value
           unit == Timestamps!Pow10(3 - Timestamps!Decimals[l])
           parse == Timestamps!Parse
<1> SUFFICES ASSUME stamp.kind = "epoch"
             PROVE  /\ v.type = "int" => parse = <<v.n * (IF Timestamps!Dotted(l) THEN 1000 ELSE unit)>>
                    /\ v.type = "string" /\ Timestamps!Dotted(l)
                       /\ v.text.digits = Timestamps!Decimals[l] /\ ~v.text.neg
                       => parse = <<1000 * v.text.whole + unit * v.text.frac>>
                    /\ v.type = "string" /\ ~Timestamps!Dotted(l) /\ v.text.digits = -1
                       => parse = <<unit * Timestamps!Negate(v.text.neg, v.text.whole)>>
                    /\ v.type = "float" /\ ~Timestamps!Dotted(l)
                       => Timestamps!Abs(1000 * parse[1] - unit * v.n) < 1000 * unit
                    /\ v.type = "float" /\ Timestamps!Dotted(l) /\ v.n >= 0
                       => IF parse = Timestamps!Error THEN v.n < 100000 /\ Timestamps!Decimals[l] < 3
                          ELSE 2 * Timestamps!Abs(parse[1] - v.n) <= unit
  BY DEF Timestamps!EpochExact
<1>1. parse = Timestamps!parseEpochTime(l, v)
  BY ParseKinds
<1>2. /\ l \in DOMAIN Timestamps!Decimals
      /\ v \in [type : {"int", "float"}, n : Int]
               \cup [type : {"string"},
                     text : [neg : BOOLEAN, whole : Nat, frac : Nat, digits : Int, padded : {FALSE}]]
  BY StampKinds DEF TimesInv
<1> HIDE DEF l, v, parse
<1>3. ASSUME v.type = "int"
      PROVE  parse = <<v.n * (IF Timestamps!Dotted(l) THEN 1000 ELSE unit)>>
  <2>1. v.n \in Int
    BY <1>2, <1>3
  <2> QED
    BY <1>1, <1>2, <1>3, <2>1, EpochInt
<1>4. ASSUME v.type = "string"
      PROVE  v.text.whole \in Nat /\ v.text.frac \in Nat /\ v.text.padded = FALSE /\ v.text.neg \in BOOLEAN
  <2>1. v.text \in [neg : BOOLEAN, whole : Nat, frac : Nat, digits : Int, padded : {FALSE}]
    BY <1>2, <1>4
  <2> QED
    BY <2>1
<1>5. ASSUME v.type = "string", Timestamps!Dotted(l), v.text.digits = Timestamps!Decimals[l], ~v.text.neg
      PROVE  parse = <<1000 * v.text.whole + unit * v.text.frac>>
  <2>1. parse = <<Timestamps!Unix(v.text.whole, unit * v.text.frac)>>
    BY <1>1, <1>2, <1>4, <1>5, EpochText
  <2> QED
    BY <2>1 DEF Timestamps!Unix
<1>6. ASSUME v.type = "string", ~Timestamps!Dotted(l), v.text.digits = -1
      PROVE  parse = <<unit * Timestamps!Negate(v.text.neg, v.text.whole)>>
  BY <1>1, <1>2, <1>4, <1>6, EpochWholeText
<1>7. ASSUME v.type = "float", ~Timestamps!Dotted(l)
      PROVE  Timestamps!Abs(1000 * parse[1] - unit * v.n) < 1000 * unit
  <2>1. v.n \in Int
    BY <1>2, <1>7
  <2> QED
    BY <1>1, <1>2, <1>7, <2>1, EpochCut
<1>8. ASSUME v.type = "float", Timestamps!Dotted(l), v.n >= 0
      PROVE  IF parse = Timestamps!Error THEN v.n < 100000 /\ Timestamps!Decimals[l] < 3
             ELSE 2 * Timestamps!Abs(parse[1] - v.n) <= unit
  <2>1. v.n \in Int
    BY <1>2, <1>8
  <2>2. v.n \in Nat
    BY <1>8, <2>1
  <2> QED
    BY <1>1, <1>2, <1>8, <2>2, EpochRounded
<1> QED
  BY <1>3, <1>5, <1>6, <1>7, <1>8

\* What TimeParser makes of a stamp is the moment it stands for: the year of a
\* stamp that has none, the zone, the seconds since the epoch, and the
\* configuration itself; TimeParser of helper/time.go.
THEOREM TimesRightCorrect == MCSpec => []TimesRight
<1>1. MCInit => TimesInv
  BY TimesStart
<1>2. TimesInv /\ [MCNext]_mcVars => TimesInv'
  <2> SUFFICES ASSUME TimesInv, [MCNext]_mcVars PROVE TimesInv'
    OBVIOUS
  <2>1. CASE Timestamps!Tick
    BY <2>1 DEF TimesInv, Timestamps!Tick
  <2>2. CASE UNCHANGED timeVars
    BY <2>2 DEF TimesInv, timeVars
  <2>3. Timestamps!Tick \/ UNCHANGED timeVars
    BY DEF MCNext, mcVars, Timestamps!Next
  <2> QED
    BY <2>1, <2>2, <2>3
<1>3. TimesInv => TimesRight
  <2> SUFFICES ASSUME TimesInv PROVE TimesRight
    OBVIOUS
  <2>1. Timestamps!ZoneRight
    <3> SUFFICES ASSUME stamp.kind = "zone"
                 PROVE  Timestamps!Parse \in {Timestamps!Error, <<Timestamps!Hours[stamp.zone]>>}
      BY DEF Timestamps!ZoneRight
    <3>1. stamp.zone \in Timestamps!Zones
      BY StampKinds DEF TimesInv
    <3>2. Timestamps!Parse = Timestamps!parseGotime(stamp.zone, stamp.loc)
      BY ParseKinds
    <3> QED
      BY <3>1, <3>2, ZoneParsed
  <2>2. Timestamps!ValidatedOnce
    <3> SUFFICES ASSUME stamp.kind = "config"
                 PROVE  LET c == Timestamps!Validate(stamp)
                        IN c # Timestamps!Error =>
                             c[1].type \in {"native", "gotime", "epoch"} /\ Timestamps!Validate(c[1]) = c
      BY Zenon DEF Timestamps!ValidatedOnce
    <3>1. stamp \in Configs
      BY StampKinds DEF TimesInv
    <3> QED
      BY <3>1, ValidOnce
  <2> QED
    BY <2>1, <2>2, YearRestoredHolds, EpochExactHolds DEF TimesRight, Timestamps!TimesRight
<1> QED
  BY <1>1, <1>2, <1>3, PTL DEF MCSpec

=============================================================================
