----------------------------- MODULE InputsProofs -----------------------------
(***************************************************************************)
(* What is proved of the other inputs, for every number of clients, lines, *)
(* entries, starts and failures.  In a behaviour of MCInputs one input     *)
(* takes steps; for each of the others every step is a stuttering one.     *)
(***************************************************************************)
EXTENDS MCInputs, SequenceTheorems, FiniteSetTheorems, TLAPS

\* A step is a step of the network input, or leaves it alone.
LEMMA NetSteps == ASSUME [MCNext]_mcVars PROVE [Net!Next]_(Net!vars)
<1> DEFINE idle == UNCHANGED <<proto, nLife, socket, loop, peer, lines, conn, subctx, reader,
                               closer, resolver>>
<1>1. CASE idle
  BY <1>1 DEF Net!vars, Net!clients, Net!conns
<1>2. Net!Next \/ idle
  BY DEF MCNext, mcVars, netVars
<1> QED
  BY <1>1, <1>2

-----------------------------------------------------------------------------
(* tcp_input and udp_input *)

NetTypes ==
  /\ conn \in [Peers -> {"none", "open", "closed"}]
  /\ reader \in [Peers -> {"none", "running", "ended"}]
  /\ closer \in [Peers -> {"none", "running", "ended"}]

\* What each step of Stop relies on: an open connection has a goroutine that will
\* close it, and what Stop has waited for does not come back.
NetInv ==
  /\ NetTypes
  /\ \A p \in Peers : conn[p] = "open" => closer[p] = "running"
  /\ nLife \in {"closed", "waited", "ended"} => ~socket
  /\ nLife \in {"waited", "ended"} =>
       loop = "ended" /\ \A p \in Peers : reader[p] # "running" /\ closer[p] # "running"
  /\ nLife = "ended" => resolver # "running"

\* Every step keeps it.
LEMMA NetStep == ASSUME NetInv, [Net!Next]_(Net!vars) PROVE NetInv'
<1> USE DEF NetInv, NetTypes, Net!clients, Net!conns
<1>1. CASE Net!Start
  BY <1>1 DEF Net!Start
<1>2. CASE Net!AcceptFails \/ Net!BackedOff \/ Net!ReadMessageFails
  BY <1>2 DEF Net!AcceptFails, Net!BackedOff, Net!ReadMessageFails
<1>3. CASE Net!Cancel \/ Net!Close
  BY <1>3 DEF Net!Cancel, Net!Close, Net!SocketClosed
<1>4. CASE Net!Wait
  BY <1>4 DEF Net!Wait, Net!Counted
<1>5. CASE Net!Stop
  BY <1>5 DEF Net!Stop
<1>6. ASSUME NEW p \in Peers, Net!Connect(p) \/ Net!Send(p) \/ Net!HangUp(p)
      PROVE  NetInv'
  BY <1>6 DEF Net!Connect, Net!Send, Net!HangUp
<1>7. ASSUME NEW p \in Peers, Net!Accept(p) PROVE NetInv'
  BY <1>7 DEF Net!Accept
<1>8. ASSUME NEW p \in Peers, Net!ReadLine(p) \/ Net!ReadMessage(p) PROVE NetInv'
  BY <1>8 DEF Net!ReadLine, Net!ReadMessage
<1>9. ASSUME NEW p \in Peers, Net!ReadEnds(p) PROVE NetInv'
  BY <1>9 DEF Net!ReadEnds
<1>10. ASSUME NEW p \in Peers, Net!CloseConn(p) PROVE NetInv'
  BY <1>10 DEF Net!CloseConn
<1>11. CASE UNCHANGED Net!vars
  BY <1>11 DEF Net!vars
<1> QED
  BY <1>1, <1>2, <1>3, <1>4, <1>5, <1>6, <1>7, <1>8, <1>9, <1>10, <1>11
     DEF Net!Next, Net!Stopping

\* When Stop of tcp_input or udp_input returns nothing is left: no goroutine, no
\* connection, no socket and no resolver, however many clients connected, and
\* whenever they did.
THEOREM NothingLeftCorrect == MCSpec => []NothingLeft
<1>1. MCInit => NetInv
  BY DEF MCInit, Net!Init, NetInv, NetTypes
<1>2. NetInv /\ [MCNext]_mcVars => NetInv'
  BY NetSteps, NetStep
<1>3. NetInv => NothingLeft
  BY DEF NetInv, NothingLeft, Net!NothingLeft
<1> QED
  BY <1>1, <1>2, <1>3, PTL DEF MCSpec

-----------------------------------------------------------------------------
(* The resolver *)

ResolverProofs == INSTANCE IPResolverProofs WITH Callers <- Peers, Ips <- {1}

\* A step is a step of the resolver, or leaves it alone.
LEMMA ResolverSteps ==
  ASSUME [MCNext]_mcVars PROVE [ResolverProofs!Next]_(ResolverProofs!vars)
<1> DEFINE idle == UNCHANGED <<clock, tick, cache, call, age, stopped>>
<1>1. CASE idle
  BY <1>1 DEF ResolverProofs!vars
<1>2. Resolver!Next \/ idle
  BY DEF MCNext, mcVars, resolverVars
<1>3. Resolver!Next => ResolverProofs!Next
  BY DEF Resolver!Next, Resolver!Lookup, Resolver!Store, Resolver!Hit, Resolver!Miss,
         Resolver!invalidateCache, Resolver!Expired, Resolver!Stop, Resolver!Tick, Resolver!Idle,
         ResolverProofs!Next, ResolverProofs!Lookup, ResolverProofs!Store, ResolverProofs!Hit,
         ResolverProofs!Miss, ResolverProofs!invalidateCache, ResolverProofs!Expired,
         ResolverProofs!Stop, ResolverProofs!Tick, ResolverProofs!Idle
<1> QED
  BY <1>1, <1>2, <1>3

\* No name the resolver gives is older than a lifetime, an interval and a lookup.
THEOREM HostNotStaleCorrect == Resolver!Durations => (MCSpec => []HostNotStale)
<1> SUFFICES ASSUME Resolver!Durations PROVE MCSpec => []HostNotStale
  OBVIOUS
<1>0. ResolverProofs!Durations
  BY DEF Resolver!Durations, ResolverProofs!Durations
<1>1. MCInit => ResolverProofs!Inv
  <2> SUFFICES ASSUME MCInit PROVE ResolverProofs!Inv
    OBVIOUS
  <2>1. ResolverProofs!Init
    BY DEF MCInit, Resolver!Init, Resolver!Idle, ResolverProofs!Init, ResolverProofs!Idle
  <2> QED
    BY <1>0, <2>1, ResolverProofs!InitInv
<1>2. ResolverProofs!Inv /\ [MCNext]_mcVars => ResolverProofs!Inv'
  BY <1>0, ResolverSteps, ResolverProofs!InvStep
<1>3. ResolverProofs!Inv => HostNotStale
  BY DEF ResolverProofs!Inv, ResolverProofs!HostNotStale, HostNotStale, Resolver!HostNotStale
<1> QED
  BY <1>1, <1>2, <1>3, PTL DEF MCSpec

-----------------------------------------------------------------------------
(* journald_input *)

\* A step is a step of journald_input, or leaves it alone.
LEMMA JournaldSteps == ASSUME [MCNext]_mcVars PROVE [Journald!Next]_(Journald!vars)
<1> DEFINE idle == UNCHANGED <<jStartAt, jLogged, jStored, jLife, jPc, jStarts, jOut, after,
                               child, sent, taken, failed, first, crashes>>
<1>1. CASE idle
  BY <1>1 DEF Journald!vars, Journald!source, Journald!record
<1>2. Journald!Next \/ idle
  BY DEF MCNext, mcVars, journaldVars
<1> QED
  BY <1>1, <1>2

JournaldTypes ==
  /\ jStartAt \in {"beginning", "end"}
  /\ jLogged \in Nat /\ jStored \in Nat /\ after \in Nat /\ sent \in Nat /\ taken \in Nat
  /\ first \in Nat /\ crashes \in Nat
  /\ jLife \in {"stopped", "running", "stopping"}
  /\ jPc \in {"done", "reading", "storing", "writing"}
  /\ jOut \in Seq(Nat)

\* The goroutine does not go back behind the stored cursor, which is the last one
\* it could store: what it has yet to write it has not written, unless storing
\* its cursor had failed.
CursorBehind ==
  /\ jLife = "stopped" => jPc = "done"
  /\ after # 0 => jStored # 0
  /\ first = 0 <=> jStored = 0
  /\ jPc # "done" => jStored <= taken
  /\ jPc = "storing" => jStored < taken
  /\ jPc = "writing" => jStored = taken \/ taken \in failed
  /\ jPc = "writing" /\ taken \in Journald!Written => taken \in failed
  /\ \A e \in Journald!Written : e <= jStored \/ e \in failed

\* How far the entries have been dealt with, and those that were not.
Upto == IF jPc = "done" THEN jStored ELSE taken
Base == IF jStartAt = "beginning" THEN 0 ELSE first
Pending == IF jPc \in {"storing", "writing"} THEN {taken} ELSE {}
Lost(base, upto, written, pending) ==
  ((base + 1)..upto) \ (Unreadable \cup written \cup pending)

\* All but one for each crash are written or about to be, up to where the
\* goroutine is and not only up to the cursor.
FewLost ==
  jStartAt = "beginning" \/ first # 0 =>
    Cardinality(Lost(Base, Upto, Journald!Written, Pending)) <= crashes

JournaldInv == JournaldTypes /\ CursorBehind /\ Journald!AtMostOnce /\ FewLost

\* Lost entries are finitely many.
LEMMA LostFinite ==
  ASSUME NEW base \in Nat, NEW upto \in Nat, NEW written, NEW pending
  PROVE  /\ IsFiniteSet(Lost(base, upto, written, pending))
         /\ Cardinality(Lost(base, upto, written, pending)) \in Nat
<1>1. IsFiniteSet((base + 1)..upto)
  BY FS_Interval
<1>2. Lost(base, upto, written, pending) \subseteq (base + 1)..upto
  BY DEF Lost
<1> QED
  BY <1>1, <1>2, FS_Subset, FS_CardinalityType

\* Fewer entries are lost of fewer.
LEMMA FewerLost ==
  ASSUME NEW base \in Nat, NEW upto \in Nat, NEW written, NEW pending,
         NEW base2 \in Nat, NEW upto2 \in Nat, NEW written2, NEW pending2,
         Lost(base2, upto2, written2, pending2) \subseteq Lost(base, upto, written, pending),
         NEW n \in Nat, Cardinality(Lost(base, upto, written, pending)) <= n
  PROVE  Cardinality(Lost(base2, upto2, written2, pending2)) <= n
<1>1. /\ IsFiniteSet(Lost(base, upto, written, pending))
      /\ Cardinality(Lost(base, upto, written, pending)) \in Nat
      /\ Cardinality(Lost(base2, upto2, written2, pending2)) \in Nat
  BY LostFinite
<1>2. Cardinality(Lost(base2, upto2, written2, pending2))
        <= Cardinality(Lost(base, upto, written, pending))
  BY <1>1, FS_Subset
<1> QED
  BY <1>1, <1>2

\* The operator is built.
LEMMA JournaldInit == ASSUME Journald!Init PROVE JournaldInv
<1> USE DEF Journald!Init
<1>1. JournaldTypes
  BY DEF JournaldTypes
<1>2. Journald!Written = {} /\ Len(jOut) = 0
  BY DEF Journald!Written
<1>3. CursorBehind /\ Journald!AtMostOnce
  BY <1>2 DEF CursorBehind, Journald!AtMostOnce
<1>4. FewLost
  <2>1. Lost(Base, Upto, Journald!Written, Pending) = {}
    BY DEF Lost, Base, Upto
  <2> QED
    BY <2>1, FS_EmptySet DEF FewLost
<1> QED
  BY <1>1, <1>3, <1>4 DEF JournaldInv

\* The operator starts: the goroutine goes on behind the stored cursor.
LEMMA JournaldStart == ASSUME JournaldInv, Journald!Start PROVE JournaldInv'
<1>1. /\ jLife = "stopped" /\ jLife' = "running" /\ jPc' = "reading"
      /\ UNCHANGED <<jStartAt, jLogged, jStored, jOut, failed, first, crashes>>
      /\ after' = (IF jStored # 0 THEN jStored ELSE after)
      /\ taken' = sent'
      /\ taken' \in (IF after' # 0 THEN {after'} ELSE IF jStartAt = "beginning" THEN {0} ELSE 0..jLogged)
  BY DEF Journald!Start, Journald!newCmd, Journald!Beginnings, Journald!record
<1>2. jPc = "done" /\ JournaldTypes /\ CursorBehind
  BY <1>1 DEF JournaldInv, CursorBehind
<1>3. JournaldTypes'
  BY <1>1, <1>2 DEF JournaldTypes
<1>4. Journald!Written' = Journald!Written
  BY <1>1 DEF Journald!Written
<1>5. jStored <= taken' /\ (jStored # 0 \/ jStartAt = "beginning" => taken' = jStored)
  BY <1>1, <1>2 DEF JournaldTypes, CursorBehind
<1>6. CursorBehind'
  BY <1>1, <1>2, <1>4, <1>5 DEF CursorBehind
<1>7. Journald!AtMostOnce'
  BY <1>1 DEF JournaldInv, Journald!AtMostOnce
<1>8. FewLost'
  <2> SUFFICES ASSUME jStartAt = "beginning" \/ first # 0 PROVE FewLost'
    BY <1>1 DEF FewLost
  <2>1. taken' = jStored
    BY <1>2, <1>5 DEF CursorBehind
  <2>2. Upto' = Upto /\ Base' = Base /\ Pending' = {} /\ Pending = {}
    BY <1>1, <1>2, <2>1 DEF Upto, Base, Pending
  <2> QED
    BY <1>1, <1>4, <2>2 DEF FewLost, JournaldInv
<1> QED
  BY <1>3, <1>6, <1>7, <1>8 DEF JournaldInv

\* A crash loses the entry whose cursor is stored and that is not written.
LEMMA JournaldCrash == ASSUME JournaldInv, Journald!Crash PROVE JournaldInv'
<1>1. /\ jLife' = "stopped" /\ jPc' = "done" /\ after' = 0 /\ crashes' = crashes + 1
      /\ UNCHANGED <<jStartAt, jLogged, jStored, sent, taken, jOut, failed, first>>
  BY DEF Journald!Crash, Journald!source
<1>2. JournaldTypes /\ CursorBehind
  BY DEF JournaldInv
<1>3. JournaldTypes'
  BY <1>1, <1>2 DEF JournaldTypes
<1>4. Journald!Written' = Journald!Written
  BY <1>1 DEF Journald!Written
<1>5. CursorBehind' /\ Journald!AtMostOnce'
  BY <1>1, <1>2, <1>4 DEF CursorBehind, JournaldInv, Journald!AtMostOnce
<1>6. FewLost'
  <2> SUFFICES ASSUME jStartAt = "beginning" \/ first # 0 PROVE FewLost'
    BY <1>1 DEF FewLost
  <2> DEFINE old == Lost(Base, Upto, Journald!Written, Pending)
             new == Lost(Base, jStored, Journald!Written, {})
  <2>1. Base \in Nat /\ Upto \in Nat /\ jStored \in Nat /\ taken \in Nat /\ crashes \in Nat
        /\ jStored <= Upto
    BY <1>2 DEF JournaldTypes, CursorBehind, Base, Upto
  <2>2. new \subseteq old \cup {taken}
    BY <2>1 DEF Lost, Pending
  <2>3. IsFiniteSet(old) /\ Cardinality(old) \in Nat /\ Cardinality(old) <= crashes
        /\ Cardinality(new) \in Nat
    BY <2>1, LostFinite DEF JournaldInv, FewLost
  <2> HIDE DEF old, new
  <2>4. IsFiniteSet(old \cup {taken}) /\ Cardinality(old \cup {taken}) \in Nat
        /\ Cardinality(old \cup {taken}) <= Cardinality(old) + 1
    <3>1. /\ IsFiniteSet(old \cup {taken})
          /\ \/ taken \in old /\ Cardinality(old \cup {taken}) = Cardinality(old)
             \/ Cardinality(old \cup {taken}) = Cardinality(old) + 1
      BY <2>3, FS_AddElement
    <3> QED
      BY <2>3, <3>1
  <2>5. Cardinality(new) <= Cardinality(old \cup {taken})
    BY <2>2, <2>4, FS_Subset
  <2>6. Cardinality(new) <= crashes + 1
    BY <2>1, <2>3, <2>4, <2>5
  <2>7. Base' = Base /\ Upto' = jStored /\ Pending' = {}
    BY <1>1 DEF Base, Upto, Pending
  <2> QED
    BY <1>1, <1>4, <2>6, <2>7 DEF FewLost, new
<1> QED
  BY <1>3, <1>5, <1>6 DEF JournaldInv

\* The next entry is read; one that cannot be parsed is passed over.
LEMMA JournaldRead == ASSUME JournaldInv, Journald!ReadEntry PROVE JournaldInv'
<1>1. /\ jPc = "reading" /\ taken' = taken + 1
      /\ jPc' = (IF taken' \in Unreadable THEN "reading" ELSE "storing")
      /\ UNCHANGED <<jStartAt, jLogged, jStored, after, jLife, sent, jOut, failed, first, crashes>>
  BY DEF Journald!ReadEntry, Journald!source, Journald!record
<1>2. JournaldTypes /\ CursorBehind
  BY DEF JournaldInv
<1>3. JournaldTypes'
  BY <1>1, <1>2 DEF JournaldTypes
<1>4. Journald!Written' = Journald!Written
  BY <1>1 DEF Journald!Written
<1>5. CursorBehind'
  BY <1>1, <1>2, <1>4 DEF CursorBehind, JournaldTypes
<1>6. Journald!AtMostOnce'
  BY <1>1 DEF JournaldInv, Journald!AtMostOnce
<1>7. FewLost'
  <2> SUFFICES ASSUME jStartAt = "beginning" \/ first # 0 PROVE FewLost'
    BY <1>1 DEF FewLost
  <2>1. /\ Base \in Nat /\ Upto \in Nat /\ Base' = Base /\ Upto' \in Nat /\ crashes \in Nat
        /\ Upto' = Upto + 1 /\ Upto' = taken'
    BY <1>1, <1>2, <1>3 DEF JournaldTypes, Base, Upto
  <2>2. Pending = {} /\ (taken' \in Unreadable \/ Pending' = {taken'})
    BY <1>1 DEF Pending
  <2>3. Lost(Base, Upto', Journald!Written, Pending') \subseteq Lost(Base, Upto, Journald!Written, Pending)
    BY <2>1, <2>2 DEF Lost
  <2>4. Cardinality(Lost(Base, Upto', Journald!Written, Pending')) <= crashes
    BY <2>1, <2>3, FewerLost DEF JournaldInv, FewLost
  <2> QED
    BY <1>1, <1>4, <2>1, <2>4 DEF FewLost
<1> QED
  BY <1>3, <1>5, <1>6, <1>7 DEF JournaldInv

\* The pipe has ended.
LEMMA JournaldEOF == ASSUME JournaldInv, Journald!ReadEOF PROVE JournaldInv'
<1>1. /\ jPc = "reading" /\ jPc' = "done"
      /\ UNCHANGED <<jStartAt, jLogged, jStored, after, jLife, sent, taken, jOut, failed, first,
                     crashes>>
  BY DEF Journald!ReadEOF, Journald!source, Journald!record
<1>2. JournaldTypes /\ CursorBehind
  BY DEF JournaldInv
<1>3. JournaldTypes'
  BY <1>1, <1>2 DEF JournaldTypes
<1>4. Journald!Written' = Journald!Written
  BY <1>1 DEF Journald!Written
<1>5. CursorBehind' /\ Journald!AtMostOnce'
  BY <1>1, <1>2, <1>4 DEF CursorBehind, JournaldInv, Journald!AtMostOnce
<1>6. FewLost'
  <2> SUFFICES ASSUME jStartAt = "beginning" \/ first # 0 PROVE FewLost'
    BY <1>1 DEF FewLost
  <2>1. /\ Base \in Nat /\ Upto \in Nat /\ Base' = Base /\ Upto' \in Nat /\ crashes \in Nat
        /\ Upto' <= Upto /\ Pending = {} /\ Pending' = {}
    BY <1>1, <1>2 DEF JournaldTypes, CursorBehind, Base, Upto, Pending
  <2>2. Lost(Base, Upto', Journald!Written, {}) \subseteq Lost(Base, Upto, Journald!Written, {})
    BY <2>1 DEF Lost
  <2>3. Cardinality(Lost(Base, Upto', Journald!Written, {})) <= crashes
    BY <2>1, <2>2, FewerLost DEF JournaldInv, FewLost
  <2> QED
    BY <1>1, <1>4, <2>1, <2>3 DEF FewLost
<1> QED
  BY <1>3, <1>5, <1>6 DEF JournaldInv

\* The cursor of the entry is stored, or that fails.
LEMMA JournaldSet ==
  ASSUME JournaldInv, Journald!Set \/ Journald!SetFails
  PROVE  JournaldInv'
<1>1. /\ jPc = "storing" /\ jPc' = "writing"
      /\ UNCHANGED <<jStartAt, jLogged, after, jLife, sent, taken, jOut, crashes>>
      /\ \/ /\ jStored' = taken /\ first' = (IF first = 0 THEN taken ELSE first)
            /\ failed' = failed
         \/ jStored' = jStored /\ first' = first /\ failed' = failed \cup {taken}
  BY DEF Journald!Set, Journald!SetFails, Journald!source, Journald!Cursor
<1>2. JournaldTypes /\ CursorBehind
  BY DEF JournaldInv
<1>3. JournaldTypes'
  BY <1>1, <1>2 DEF JournaldTypes
<1>4. Journald!Written' = Journald!Written
  BY <1>1 DEF Journald!Written
<1>5. \A e \in Journald!Written : e \in Nat
  BY <1>2 DEF JournaldTypes, Journald!Written
<1>6. CursorBehind'
  BY <1>1, <1>2, <1>4, <1>5 DEF CursorBehind, JournaldTypes
<1>7. Journald!AtMostOnce'
  BY <1>1 DEF JournaldInv, Journald!AtMostOnce
<1>8. FewLost'
  <2>1. Upto' = taken /\ Upto = taken /\ Pending' = Pending /\ taken \in Nat /\ crashes \in Nat
    BY <1>1, <1>2 DEF Upto, Pending, JournaldTypes
  <2>2. CASE Base' = Base /\ (jStartAt = "beginning" \/ first # 0)
    BY <1>1, <1>4, <2>1, <2>2 DEF FewLost, JournaldInv
  <2>3. CASE ~(jStartAt = "beginning" \/ first # 0) /\ first' # 0
    <3>1. Base' = taken
      BY <1>1, <1>2, <2>3 DEF Base
    <3>2. Lost(Base', Upto', Journald!Written', Pending') = {}
      BY <2>1, <3>1 DEF Lost
    <3> QED
      BY <1>1, <2>1, <3>2, FS_EmptySet DEF FewLost
  <2>4. CASE ~(jStartAt = "beginning" \/ first # 0) /\ first' = 0
    BY <1>1, <2>4 DEF FewLost
  <2> QED
    BY <1>1, <2>2, <2>3, <2>4 DEF Base
<1> QED
  BY <1>3, <1>6, <1>7, <1>8 DEF JournaldInv

\* The entry is written.
LEMMA JournaldWrite == ASSUME JournaldInv, Journald!Write PROVE JournaldInv'
<1>1. /\ jPc = "writing" /\ jPc' = "reading" /\ jOut' = Append(jOut, taken)
      /\ UNCHANGED <<jStartAt, jLogged, jStored, after, jLife, sent, taken, failed, first, crashes>>
  BY DEF Journald!Write, Journald!source, Journald!record
<1>2. JournaldTypes /\ CursorBehind
  BY DEF JournaldInv
<1>3. jOut \in Seq(Nat) /\ taken \in Nat /\ Len(jOut) \in Nat
  BY <1>2 DEF JournaldTypes
<1>4. /\ Len(jOut') = Len(jOut) + 1 /\ jOut' \in Seq(Nat)
      /\ \A i \in 1..Len(jOut) : jOut'[i] = jOut[i]
      /\ jOut'[Len(jOut) + 1] = taken
  BY <1>1, <1>3
<1>5. JournaldTypes'
  BY <1>1, <1>2, <1>4 DEF JournaldTypes
<1>6. Journald!Written' = Journald!Written \cup {taken}
  BY SMTT(30), <1>3, <1>4 DEF Journald!Written
<1>7. CursorBehind'
  BY <1>1, <1>2, <1>6 DEF CursorBehind, JournaldTypes
<1>8. Journald!AtMostOnce'
  <2> SUFFICES ASSUME NEW i \in 1..Len(jOut'), NEW j \in 1..Len(jOut'), i # j,
                      jOut'[i] = jOut'[j]
               PROVE  jOut'[i] \in failed
    BY <1>1 DEF Journald!AtMostOnce
  <2>1. CASE i \in 1..Len(jOut) /\ j \in 1..Len(jOut)
    BY <1>4, <2>1 DEF JournaldInv, Journald!AtMostOnce
  <2>2. CASE ~(i \in 1..Len(jOut) /\ j \in 1..Len(jOut))
    <3>1. jOut'[i] = taken /\ taken \in Journald!Written
      <4>1. i = Len(jOut) + 1 \/ i \in 1..Len(jOut)
        BY <1>3, <1>4
      <4>2. j = Len(jOut) + 1 \/ j \in 1..Len(jOut)
        BY <1>3, <1>4
      <4>3. jOut'[i] = taken /\ jOut'[j] = taken
        BY <1>4, <2>2, <4>1, <4>2
      <4>4. \E k \in 1..Len(jOut) : jOut[k] = taken
        BY <1>4, <4>1, <4>2, <4>3
      <4> QED
        BY <4>3, <4>4 DEF Journald!Written
    <3> QED
      BY <1>1, <1>2, <3>1 DEF CursorBehind
  <2> QED
    BY <2>1, <2>2
<1>9. FewLost'
  <2>1. Upto' = Upto /\ Base' = Base /\ Pending = {taken} /\ Pending' = {}
    BY <1>1 DEF Upto, Base, Pending
  <2>2. Lost(Base', Upto', Journald!Written', Pending')
          = Lost(Base, Upto, Journald!Written, Pending)
    BY <1>6, <2>1 DEF Lost
  <2> QED
    BY <1>1, <2>2 DEF FewLost, JournaldInv
<1> QED
  BY <1>5, <1>7, <1>8, <1>9 DEF JournaldInv

\* The journal, the child and Stop do not touch what the goroutine has done.
LEMMA JournaldOthers ==
  ASSUME JournaldInv,
         \/ Journald!LogEntry \/ Journald!Cancel \/ Journald!Stop
         \/ Journald!Output \/ Journald!Exit \/ UNCHANGED Journald!vars
  PROVE  JournaldInv'
<1>1. /\ UNCHANGED <<jStartAt, jStored, after, taken, jPc, jOut, failed, first, crashes>>
      /\ jLogged' \in {jLogged, jLogged + 1} /\ sent' \in {sent, sent + 1}
      /\ jLife' \in {"stopped", "running", "stopping"}
      /\ jLife' = "stopped" => jPc = "done"
  BY DEF JournaldInv, JournaldTypes, CursorBehind, Journald!LogEntry, Journald!Cancel,
         Journald!Stop, Journald!Waited, Journald!Output, Journald!Exit, Journald!vars,
         Journald!source, Journald!record
<1>2. JournaldTypes'
  BY <1>1 DEF JournaldInv, JournaldTypes
<1>3. Journald!Written' = Journald!Written
  BY <1>1 DEF Journald!Written
<1>4. CursorBehind' /\ Journald!AtMostOnce'
  BY <1>1, <1>3 DEF JournaldInv, CursorBehind, Journald!AtMostOnce
<1>5. Upto' = Upto /\ Base' = Base /\ Pending' = Pending
  BY <1>1 DEF Upto, Base, Pending
<1>6. FewLost'
  BY <1>1, <1>3, <1>5 DEF JournaldInv, FewLost
<1> QED
  BY <1>2, <1>4, <1>6 DEF JournaldInv

\* The inductive invariant is what the stored cursor promises, and more.
LEMMA JournaldSound == ASSUME JournaldInv PROVE Journald!CursorSound
<1>1. JournaldTypes /\ CursorBehind
  BY DEF JournaldInv
<1>2. /\ Base \in Nat /\ Upto \in Nat /\ jStored \in Nat /\ crashes \in Nat /\ jStored <= Upto
  BY <1>1 DEF JournaldTypes, CursorBehind, Base, Upto
<1>3. Cardinality(Lost(Base, jStored, Journald!Written, Pending)) <= crashes
  <2>1. CASE jStartAt = "beginning" \/ first # 0
    <3>1. Lost(Base, jStored, Journald!Written, Pending)
            \subseteq Lost(Base, Upto, Journald!Written, Pending)
      BY <1>2 DEF Lost
    <3> QED
      BY <1>2, <2>1, <3>1, FewerLost DEF JournaldInv, FewLost
  <2>2. CASE ~(jStartAt = "beginning" \/ first # 0)
    <3>1. jStored = 0
      BY <1>1, <2>2 DEF CursorBehind
    <3>2. Lost(Base, jStored, Journald!Written, Pending) = {}
      BY <1>2, <3>1 DEF Lost
    <3> QED
      BY <1>2, <3>2, FS_EmptySet
  <2> QED
    BY <2>1, <2>2
<1>4. Journald!LostOnlyByCrash
  <2>1. Journald!LostOnlyByCrash
          <=> Cardinality(((Base + 1)..jStored)
                            \ (Unreadable \cup Journald!Written \cup Pending)) <= crashes
    BY DEF Journald!LostOnlyByCrash, Base, Pending, Journald!Cardinality, Cardinality
  <2> QED
    BY <1>3, <2>1 DEF Lost
<1> QED
  BY <1>4 DEF Journald!CursorSound, JournaldInv

\* journald_input writes an entry twice only if its cursor could not be stored, and
\* loses at most one for each crash, whatever the order in which it is stopped,
\* crashes, is started again and fails to store cursors.
THEOREM CursorSoundCorrect == MCSpec => []CursorSound
<1>1. MCInit => JournaldInv
  BY JournaldInit DEF MCInit
<1>2. JournaldInv /\ [MCNext]_mcVars => JournaldInv'
  <2> SUFFICES ASSUME JournaldInv, [Journald!Next]_(Journald!vars) PROVE JournaldInv'
    BY JournaldSteps
  <2> QED
    BY JournaldStart, JournaldCrash, JournaldRead, JournaldEOF, JournaldSet, JournaldWrite,
       JournaldOthers DEF Journald!Next, Journald!Goroutine
<1>3. JournaldInv => CursorSound
  BY JournaldSound DEF CursorSound
<1> QED
  BY <1>1, <1>2, <1>3, PTL DEF MCSpec

-----------------------------------------------------------------------------
(* k8s_event_input *)

\* A step is a step of k8s_event_input, or leaves it alone.
LEMMA K8sSteps == ASSUME [MCNext]_mcVars PROVE [K8s!Next]_(K8s!vars)
<1> DEFINE idle == UNCHANGED <<discover, namespaces, ranged, turn, kLife, opening, watching,
                               finder, found, cluster, refused, changes, shifted>>
<1>1. CASE idle
  BY <1>1 DEF K8s!vars, K8s!list, K8s!finding, K8s!world
<1>2. K8s!Next \/ idle
  BY DEF MCNext, mcVars, k8sVars
<1> QED
  BY <1>1, <1>2

Distinct(s) == \A i, j \in 1..Len(s) : s[i] = s[j] => i = j
Has(s, ns)  == \E i \in 1..Len(s) : s[i] = ns

\* No namespace is configured twice: it would be watched twice.
DistinctNamespaces ==
  /\ IsFiniteSet(Namespaces)
  /\ \A c \in Configs :
       /\ c.namespaces \in Seq(Namespaces) /\ Distinct(c.namespaces)
       /\ c.cluster \subseteq Namespaces

K8sTypes ==
  /\ namespaces \in Seq(Namespaces) /\ found \in Seq(Namespaces) /\ cluster \subseteq Namespaces
  /\ opening \in [Namespaces -> Nat] /\ watching \in [Namespaces -> Nat]
  /\ turn \in Nat
  /\ kLife \in {"stopped", "starting", "running", "stopping", "ended"}

\* Before Start has ranged over the list, the namespaces up to its turn are
\* watched.
StartingSound ==
  kLife = "starting" /\ ~shifted =>
    /\ ranged = namespaces /\ turn \in 1..(Len(namespaces) + 1)
    /\ \A ns \in Namespaces :
         K8s!Goroutines(ns) = IF \E i \in 1..(turn - 1) : namespaces[i] = ns THEN 1 ELSE 0

\* A namespace is in the list before its goroutine is started.
FinderSound ==
  /\ kLife \in {"stopped", "starting"} => finder = "none"
  /\ finder = "starting" => found # <<>>
  /\ finder = "starting" /\ kLife = "running" /\ ~shifted => Has(namespaces, Head(found))

\* WatchedOnce, with Has.
RunningSound ==
  kLife = "running" /\ ~shifted =>
    \A ns \in Namespaces :
      K8s!Goroutines(ns)
        = IF Has(namespaces, ns) /\ ~(finder = "starting" /\ ns = Head(found)) THEN 1 ELSE 0

K8sInv ==
  /\ K8sTypes /\ Distinct(namespaces)
  /\ kLife = "stopped" => opening = K8s!NoGoroutine /\ watching = K8s!NoGoroutine
  /\ StartingSound /\ FinderSound /\ RunningSound

\* hasNamespace, in other words.
LEMMA HasNamespace ==
  ASSUME K8sTypes, NEW ns PROVE K8s!hasNamespace(ns) <=> Has(namespaces, ns)
<1>1. DOMAIN namespaces = 1..Len(namespaces)
  BY DEF K8sTypes
<1> QED
  BY <1>1 DEF K8s!hasNamespace, Has

\* A sequence without one of its elements.
LEMMA RemoveAtProperties ==
  ASSUME NEW S, NEW s \in Seq(S), NEW k \in 1..Len(s)
  PROVE  /\ K8s!RemoveAt(s, k) \in Seq(S)
         /\ Len(K8s!RemoveAt(s, k)) = Len(s) - 1
         /\ \A i \in 1..(Len(s) - 1) :
              K8s!RemoveAt(s, k)[i] = IF i < k THEN s[i] ELSE s[i + 1]
<1> DEFINE a == SubSeq(s, 1, k - 1)
           b == SubSeq(s, k + 1, Len(s))
<1>0. Len(s) \in Nat /\ k \in Int /\ 1 <= k /\ k <= Len(s)
      /\ \A i \in 1..Len(s) : s[i] \in S
  OBVIOUS
<1>1. a \in Seq(S) /\ Len(a) = k - 1 /\ \A i \in 1..(k - 1) : a[i] = s[i]
  BY <1>0
<1>2. b \in Seq(S) /\ Len(b) = Len(s) - k /\ \A i \in 1..(Len(s) - k) : b[i] = s[k + i]
  BY <1>0
<1> HIDE DEF a, b
<1>3. /\ a \o b \in Seq(S) /\ Len(a \o b) = Len(a) + Len(b)
      /\ \A i \in 1..(Len(a) + Len(b)) : (a \o b)[i] = IF i <= Len(a) THEN a[i] ELSE b[i - Len(a)]
  BY <1>1, <1>2, ConcatProperties
<1>4. Len(a) + Len(b) = Len(s) - 1
  BY <1>0, <1>1, <1>2
<1>5. ASSUME NEW i \in 1..(Len(s) - 1)
      PROVE  (a \o b)[i] = IF i < k THEN s[i] ELSE s[i + 1]
  <2>1. CASE i < k
    BY <1>0, <1>1, <1>3, <1>4, <2>1
  <2>2. CASE ~(i < k)
    <3>1. i - Len(a) \in 1..(Len(s) - k) /\ k + (i - Len(a)) = i + 1
      BY <1>0, <1>1, <2>2
    <3>2. (a \o b)[i] = b[i - Len(a)]
      BY <1>0, <1>1, <1>3, <1>4, <2>2
    <3> QED
      BY <1>2, <2>2, <3>1, <3>2
  <2> QED
    BY <2>1, <2>2
<1>6. K8s!RemoveAt(s, k) = a \o b
  BY DEF K8s!RemoveAt, a, b
<1> QED
  BY <1>3, <1>4, <1>5, <1>6

\* removeNamespace removes the namespace, and no other.
LEMMA RemoveNamespace ==
  ASSUME K8sTypes, Distinct(namespaces), NEW ns, K8s!removeNamespace(ns)
  PROVE  /\ namespaces' \in Seq(Namespaces) /\ Distinct(namespaces')
         /\ \A x : Has(namespaces', x) <=> Has(namespaces, x) /\ x # ns
<1>1. CASE ~K8s!hasNamespace(ns)
  <2>1. namespaces' = namespaces /\ ~Has(namespaces, ns)
    BY <1>1, HasNamespace DEF K8s!removeNamespace
  <2> QED
    BY <2>1 DEF K8sTypes
<1>2. CASE K8s!hasNamespace(ns)
  <2> DEFINE s == namespaces
             place == CHOOSE i \in DOMAIN namespaces :
                     namespaces[i] = ns /\ \A j \in 1..(i - 1) : namespaces[j] # ns
  <2>1. s \in Seq(Namespaces) /\ Len(s) \in Nat /\ DOMAIN s = 1..Len(s)
    BY DEF K8sTypes
  <2>2. namespaces' = K8s!RemoveAt(s, place)
    BY <1>2 DEF K8s!removeNamespace
  <2>3. PICK i \in 1..Len(s) : s[i] = ns
    BY <1>2, HasNamespace DEF Has
  <2>4. \A j \in 1..(i - 1) : s[j] # ns
    BY <2>1, <2>3 DEF Distinct
  <2>5. place \in 1..Len(s) /\ s[place] = ns
    BY <2>1, <2>3, <2>4
  <2> HIDE DEF place
  <2>6. /\ namespaces' \in Seq(Namespaces) /\ Len(namespaces') = Len(s) - 1
        /\ \A j \in 1..(Len(s) - 1) : namespaces'[j] = IF j < place THEN s[j] ELSE s[j + 1]
    BY <2>1, <2>2, <2>5, RemoveAtProperties
  <2> HIDE DEF s
  <2>7. Distinct(s)
    BY DEF s
  <2>8. Distinct(namespaces')
    <3> SUFFICES ASSUME NEW j \in 1..(Len(s) - 1), NEW k \in 1..(Len(s) - 1),
                        namespaces'[j] = namespaces'[k]
                 PROVE  j = k
      BY <2>6 DEF Distinct
    <3> DEFINE jj == IF j < place THEN j ELSE j + 1
               kk == IF k < place THEN k ELSE k + 1
    <3>1. s[jj] = s[kk] /\ jj \in 1..Len(s) /\ kk \in 1..Len(s)
      BY <2>1, <2>5, <2>6
    <3>2. jj = kk
      BY <2>7, <3>1 DEF Distinct
    <3> QED
      BY <2>1, <2>5, <3>2
  <2>9. ASSUME NEW x PROVE Has(namespaces', x) <=> Has(s, x) /\ x # ns
    <3>1. ASSUME NEW j \in 1..(Len(s) - 1), namespaces'[j] = x PROVE Has(s, x) /\ x # ns
      <4> DEFINE jj == IF j < place THEN j ELSE j + 1
      <4>1. jj \in 1..Len(s) /\ s[jj] = x /\ jj # place
        BY <2>1, <2>5, <2>6, <3>1
      <4> QED
        BY <2>5, <2>7, <4>1 DEF Has, Distinct
    <3>2. ASSUME NEW j \in 1..Len(s), s[j] = x, x # ns PROVE Has(namespaces', x)
      <4> DEFINE jj == IF j < place THEN j ELSE j - 1
      <4>1. j # place
        BY <2>5, <3>2
      <4>2. jj \in 1..(Len(s) - 1) /\ namespaces'[jj] = s[j]
        BY <2>1, <2>5, <2>6, <4>1
      <4> QED
        BY <2>6, <3>2, <4>2 DEF Has
    <3> QED
      BY <2>6, <3>1, <3>2 DEF Has
  <2> QED
    BY <2>6, <2>8, <2>9 DEF s
<1> QED
  BY <1>1, <1>2

\* One goroutine more.
LEMMA CountMore ==
  ASSUME NEW f \in [Namespaces -> Nat], NEW x, NEW f2, f2 = [f EXCEPT ![x] = @ + 1]
  PROVE  /\ f2 \in [Namespaces -> Nat]
         /\ \A ns \in Namespaces : f2[ns] = IF ns = x THEN f[ns] + 1 ELSE f[ns]
<1>1. ASSUME NEW ns \in Namespaces
      PROVE  /\ f2[ns] = IF ns = x THEN f[ns] + 1 ELSE f[ns]
             /\ f2[ns] \in Nat
  OBVIOUS
<1> QED
  BY <1>1

\* One goroutine fewer.
LEMMA CountLess ==
  ASSUME NEW f \in [Namespaces -> Nat], NEW x \in Namespaces, f[x] > 0,
         NEW f2, f2 = [f EXCEPT ![x] = @ - 1]
  PROVE  /\ f2 \in [Namespaces -> Nat]
         /\ \A ns \in Namespaces : f2[ns] = IF ns = x THEN f[ns] - 1 ELSE f[ns]
<1>1. ASSUME NEW ns \in Namespaces
      PROVE  /\ f2[ns] = IF ns = x THEN f[ns] - 1 ELSE f[ns]
             /\ f2[ns] \in Nat
  OBVIOUS
<1> QED
  BY <1>1

\* What the API lists is a sequence of different namespaces.
LEMMA ListingProperties ==
  ASSUME NEW S, IsFiniteSet(S), NEW s \in K8s!Listings(S)
  PROVE  s \in Seq(S) /\ Distinct(s)
<1>1. Cardinality(S) \in Nat /\ K8s!Cardinality(S) = Cardinality(S)
  <2>1. Cardinality(S) \in Nat
    BY FS_CardinalityType
  <2>2. K8s!Cardinality(S) = Cardinality(S)
    BY DEF K8s!Cardinality, Cardinality
  <2> QED
    BY <2>1, <2>2
<1>2. /\ s \in [1..Cardinality(S) -> S]
      /\ \A i, j \in 1..Cardinality(S) : i # j => s[i] # s[j]
  BY <1>1 DEF K8s!Listings, K8s!SetToSeqs
<1>3. s \in Seq(S) /\ Len(s) = Cardinality(S)
  BY <1>1, <1>2
<1> QED
  BY <1>2, <1>3 DEF Distinct

\* Start: the list it ranges over names each namespace once.
LEMMA K8sStart ==
  ASSUME DistinctNamespaces, K8sInv, K8s!Start \/ K8s!StartFails
  PROVE  K8sInv'
<1>1. /\ kLife = "stopped" /\ kLife' \in {"starting", "ended"}
      /\ kLife' = "starting" => ranged' = namespaces' /\ turn' = 1
      /\ turn' \in {1, turn}
      /\ UNCHANGED <<opening, watching, finder, found, cluster, shifted>>
      /\ K8s!Listed
  BY DEF K8s!Start, K8s!StartFails, K8s!finding, K8s!world
<1>2. K8sTypes /\ Distinct(namespaces) /\ finder = "none"
      /\ opening = K8s!NoGoroutine /\ watching = K8s!NoGoroutine
  BY <1>1 DEF K8sInv, FinderSound
<1>3. namespaces' \in Seq(Namespaces) /\ Distinct(namespaces')
  <2>1. CASE ~discover
    BY <1>1, <1>2, <2>1 DEF K8s!Listed, K8sTypes
  <2>2. CASE discover
    <3> DEFINE S == {ns \in cluster : ~K8s!hasNamespace(ns)}
    <3>1. PICK new \in K8s!Listings(S) : namespaces' = namespaces \o new
      BY <1>1, <2>2 DEF K8s!Listed, K8s!addNamespaces
    <3>2. S \subseteq Namespaces /\ \A x \in S : ~Has(namespaces, x)
      BY <1>2, HasNamespace DEF K8sTypes
    <3> HIDE DEF S
    <3>3. IsFiniteSet(S)
      BY <3>2, FS_Subset DEF DistinctNamespaces
    <3>4. new \in Seq(S) /\ Distinct(new)
      BY <3>1, <3>3, ListingProperties
    <3>5. /\ new \in Seq(Namespaces) /\ namespaces \in Seq(Namespaces)
          /\ Len(new) \in Nat /\ Len(namespaces) \in Nat
          /\ \A i \in 1..Len(new) : new[i] \in S
      BY <1>2, <3>2, <3>4 DEF K8sTypes
    <3> DEFINE n == Len(namespaces)
    <3>6. /\ namespaces' \in Seq(Namespaces) /\ Len(namespaces') = n + Len(new)
          /\ \A i \in 1..(n + Len(new)) :
               namespaces'[i] = IF i <= n THEN namespaces[i] ELSE new[i - n]
      BY <3>1, <3>5, ConcatProperties
    <3>7. ASSUME NEW i \in 1..Len(namespaces'), NEW j \in 1..Len(namespaces'),
                 namespaces'[i] = namespaces'[j], i <= n
          PROVE  i = j
      <4>1. namespaces'[i] = namespaces[i] /\ i \in 1..n
        BY <3>5, <3>6, <3>7
      <4>2. CASE j <= n
        <5>1. namespaces'[j] = namespaces[j] /\ j \in 1..n
          BY <3>5, <3>6, <3>7, <4>2
        <5>2. namespaces[i] = namespaces[j]
          BY <3>7, <4>1, <5>1
        <5> QED
          BY <1>2, <4>1, <5>1, <5>2 DEF Distinct
      <4>3. CASE ~(j <= n)
        <5>1. namespaces'[j] = new[j - n] /\ j - n \in 1..Len(new)
          BY <3>5, <3>6, <4>3
        <5>2. namespaces[i] \in S
          BY <3>5, <3>7, <4>1, <5>1
        <5> QED
          BY <3>2, <4>1, <5>2 DEF Has
      <4> QED
        BY <4>2, <4>3
    <3>8. ASSUME NEW i \in 1..Len(namespaces'), NEW j \in 1..Len(namespaces'),
                 namespaces'[i] = namespaces'[j], ~(i <= n), ~(j <= n)
          PROVE  i = j
      <4>1. namespaces'[i] = new[i - n] /\ i - n \in 1..Len(new)
        BY <3>5, <3>6, <3>8
      <4>2. namespaces'[j] = new[j - n] /\ j - n \in 1..Len(new)
        BY <3>5, <3>6, <3>8
      <4>3. i - n = j - n
        BY <3>4, <3>8, <4>1, <4>2 DEF Distinct
      <4> QED
        BY <3>5, <3>6, <4>3
    <3> QED
      BY <3>6, <3>7, <3>8 DEF Distinct
  <2> QED
    BY <2>1, <2>2
<1>4. K8sTypes'
  BY <1>1, <1>2, <1>3 DEF K8sTypes
<1>5. StartingSound'
  <2> SUFFICES ASSUME kLife' = "starting" PROVE StartingSound'
    BY DEF StartingSound
  <2>1. ranged' = namespaces' /\ turn' = 1 /\ Len(namespaces') \in Nat
    BY <1>1, <1>3
  <2>2. ASSUME NEW ns \in Namespaces PROVE K8s!Goroutines(ns)' = 0
    BY <1>1, <1>2 DEF K8s!Goroutines, K8s!NoGoroutine
  <2> QED
    BY <2>1, <2>2 DEF StartingSound
<1>6. FinderSound' /\ RunningSound' /\ kLife' # "stopped"
  BY <1>1, <1>2 DEF FinderSound, RunningSound
<1> QED
  BY <1>3, <1>4, <1>5, <1>6 DEF K8sInv

\* A turn of the loop of Start, and its end.
LEMMA K8sStarter == ASSUME K8sInv, K8s!Starter PROVE K8sInv'
<1>0. /\ K8sTypes /\ kLife = "starting" /\ finder = "none"
      /\ UNCHANGED <<namespaces, ranged, shifted, watching, found, cluster>>
  BY DEF K8sInv, FinderSound, K8s!Starter, K8s!StartWatching, K8s!Started, K8s!finding, K8s!world,
         K8s!list
<1>1. CASE K8s!StartWatching
  <2>1. /\ turn <= Len(ranged) /\ turn' = turn + 1 /\ kLife' = kLife /\ finder' = finder
        /\ opening' = [opening EXCEPT ![ranged[turn]] = @ + 1]
    BY <1>1 DEF K8s!StartWatching, K8s!startWatchingNamespace, K8s!finding
  <2>0. /\ opening' \in [Namespaces -> Nat]
        /\ \A ns \in Namespaces :
             opening'[ns] = IF ns = ranged[turn] THEN opening[ns] + 1 ELSE opening[ns]
    <3>1. opening \in [Namespaces -> Nat]
      BY <1>0 DEF K8sTypes
    <3> QED
      BY <2>1, <3>1, CountMore
  <2>2. K8sTypes'
    BY <1>0, <2>0, <2>1 DEF K8sTypes
  <2>3. StartingSound'
    <3> SUFFICES ASSUME ~shifted PROVE StartingSound'
      BY <1>0 DEF StartingSound
    <3>1. /\ ranged = namespaces /\ turn \in 1..(Len(namespaces) + 1) /\ Len(namespaces) \in Nat
          /\ \A ns \in Namespaces :
               K8s!Goroutines(ns) = IF \E i \in 1..(turn - 1) : namespaces[i] = ns THEN 1 ELSE 0
      BY <1>0 DEF K8sInv, StartingSound, K8sTypes
    <3>2. turn \in 1..Len(namespaces) /\ turn' \in 1..(Len(namespaces) + 1) /\ turn' - 1 = turn
      BY <2>1, <3>1
    <3>3. \A i \in 1..(turn - 1) : namespaces[i] # namespaces[turn]
      BY <3>2 DEF K8sInv, Distinct
    <3>4. ASSUME NEW ns \in Namespaces
          PROVE  K8s!Goroutines(ns)' = IF \E i \in 1..turn : namespaces[i] = ns THEN 1 ELSE 0
      <4>1. opening[ns] \in Nat /\ watching[ns] \in Nat
        BY <1>0 DEF K8sTypes
      <4>2. CASE ns = namespaces[turn]
        <5>1. K8s!Goroutines(ns) = 0
          BY <3>1, <3>3, <4>2
        <5>2. K8s!Goroutines(ns)' = K8s!Goroutines(ns) + 1
          BY <1>0, <2>0, <3>1, <4>1, <4>2, SMTT(30) DEF K8s!Goroutines
        <5> QED
          BY <3>2, <4>2, <5>1, <5>2
      <4>3. CASE ns # namespaces[turn]
        <5>1. K8s!Goroutines(ns)' = K8s!Goroutines(ns)
          BY <1>0, <2>0, <3>1, <4>3 DEF K8s!Goroutines
        <5>2. (\E i \in 1..turn : namespaces[i] = ns) <=> (\E i \in 1..(turn - 1) : namespaces[i] = ns)
          BY <3>2, <4>3
        <5> QED
          BY <3>1, <5>1, <5>2
      <4> QED
        BY <4>2, <4>3
    <3> QED
      BY <1>0, <3>1, <3>2, <3>4 DEF StartingSound
  <2>4. FinderSound' /\ RunningSound' /\ kLife' # "stopped"
    BY <1>0, <2>1 DEF FinderSound, RunningSound
  <2> QED
    BY <1>0, <2>2, <2>3, <2>4 DEF K8sInv
<1>2. CASE K8s!Started
  <2>1. /\ turn > Len(ranged) /\ kLife' = "running" /\ finder' \in {"waiting", "none"}
        /\ turn' = turn /\ opening' = opening
    BY <1>2 DEF K8s!Started, K8s!startFindingNamespaces
  <2>2. K8sTypes'
    BY <1>0, <2>1 DEF K8sTypes
  <2>3. RunningSound'
    <3> SUFFICES ASSUME ~shifted, NEW ns \in Namespaces
                 PROVE  K8s!Goroutines(ns)' = IF Has(namespaces, ns) THEN 1 ELSE 0
      BY <1>0, <2>1 DEF RunningSound
    <3>1. /\ ranged = namespaces /\ turn \in 1..(Len(namespaces) + 1) /\ Len(namespaces) \in Nat
          /\ K8s!Goroutines(ns) = IF \E i \in 1..(turn - 1) : namespaces[i] = ns THEN 1 ELSE 0
      BY <1>0, SMTT(30) DEF K8sInv, StartingSound, K8sTypes
    <3>2. turn - 1 = Len(namespaces)
      BY <2>1, <3>1
    <3>3. K8s!Goroutines(ns)' = K8s!Goroutines(ns)
      BY <1>0, <2>1 DEF K8s!Goroutines
    <3> QED
      BY <3>1, <3>2, <3>3 DEF Has
  <2>4. FinderSound' /\ StartingSound' /\ kLife' # "stopped"
    BY <2>1 DEF FinderSound, StartingSound
  <2> QED
    BY <1>0, <2>2, <2>3, <2>4 DEF K8sInv
<1> QED
  BY <1>1, <1>2 DEF K8s!Starter

\* A watch opens, or its channel is closed: the goroutine stays.
LEMMA K8sWatch ==
  ASSUME K8sInv, NEW ns \in Namespaces, K8s!WatchOpens(ns) \/ K8s!ChannelClosed(ns)
  PROVE  K8sInv'
<1>1. UNCHANGED <<namespaces, ranged, shifted, turn, kLife, finder, found, cluster>>
  BY DEF K8s!WatchOpens, K8s!ChannelClosed, K8s!list, K8s!finding, K8s!world
<1>2. K8sTypes /\ opening \in [Namespaces -> Nat] /\ watching \in [Namespaces -> Nat]
  BY DEF K8sInv, K8sTypes
<1>3. /\ opening' \in [Namespaces -> Nat] /\ watching' \in [Namespaces -> Nat]
      /\ \A x \in Namespaces : opening'[x] + watching'[x] = opening[x] + watching[x]
      /\ opening[ns] > 0 \/ watching[ns] > 0
  <2>1. CASE K8s!WatchOpens(ns)
    <3>1. /\ opening[ns] > 0 /\ opening' = [opening EXCEPT ![ns] = @ - 1]
          /\ watching' = [watching EXCEPT ![ns] = @ + 1]
      BY <2>1 DEF K8s!WatchOpens
    <3>2. /\ opening' \in [Namespaces -> Nat]
          /\ \A x \in Namespaces : opening'[x] = IF x = ns THEN opening[x] - 1 ELSE opening[x]
      BY <1>2, <3>1, CountLess
    <3>3. /\ watching' \in [Namespaces -> Nat]
          /\ \A x \in Namespaces : watching'[x] = IF x = ns THEN watching[x] + 1 ELSE watching[x]
      BY <1>2, <3>1, CountMore
    <3>4. ASSUME NEW x \in Namespaces
          PROVE  opening'[x] + watching'[x] = opening[x] + watching[x]
      <4>1. opening[x] \in Nat /\ watching[x] \in Nat
        BY <1>2
      <4> QED
        BY <3>2, <3>3, <4>1
    <3> QED
      BY <3>1, <3>2, <3>3, <3>4
  <2>2. CASE K8s!ChannelClosed(ns)
    <3>1. /\ watching[ns] > 0 /\ opening' = [opening EXCEPT ![ns] = @ + 1]
          /\ watching' = [watching EXCEPT ![ns] = @ - 1]
      BY <2>2 DEF K8s!ChannelClosed
    <3>2. /\ opening' \in [Namespaces -> Nat]
          /\ \A x \in Namespaces : opening'[x] = IF x = ns THEN opening[x] + 1 ELSE opening[x]
      BY <1>2, <3>1, CountMore
    <3>3. /\ watching' \in [Namespaces -> Nat]
          /\ \A x \in Namespaces : watching'[x] = IF x = ns THEN watching[x] - 1 ELSE watching[x]
      BY <1>2, <3>1, CountLess
    <3>4. ASSUME NEW x \in Namespaces
          PROVE  opening'[x] + watching'[x] = opening[x] + watching[x]
      <4>1. opening[x] \in Nat /\ watching[x] \in Nat
        BY <1>2
      <4> QED
        BY <3>2, <3>3, <4>1
    <3> QED
      BY <3>1, <3>2, <3>3, <3>4
  <2> QED
    BY <2>1, <2>2
<1>4. \A x \in Namespaces : K8s!Goroutines(x)' = K8s!Goroutines(x)
  BY <1>3 DEF K8s!Goroutines
<1>5. K8sTypes'
  BY <1>1, <1>2, <1>3 DEF K8sTypes
<1>6. kLife # "stopped"
  BY <1>3 DEF K8sInv, K8s!NoGoroutine
<1>7. StartingSound' /\ FinderSound' /\ RunningSound'
  BY <1>1, <1>4 DEF K8sInv, StartingSound, FinderSound, RunningSound
<1> QED
  BY <1>1, <1>5, <1>6, <1>7 DEF K8sInv

\* A watch cannot be opened: its goroutine ends and its namespace is forgotten.
LEMMA K8sFails ==
  ASSUME K8sInv, NEW ns \in Namespaces, K8s!WatchFails(ns)
  PROVE  K8sInv'
<1>1. /\ opening[ns] > 0 /\ opening' = [opening EXCEPT ![ns] = @ - 1]
      /\ K8s!removeNamespace(ns) /\ shifted' = (shifted \/ kLife = "starting")
      /\ UNCHANGED <<turn, kLife, watching, finder, found, cluster>>
  BY DEF K8s!WatchFails, K8s!finding, K8s!world
<1>2. K8sTypes /\ Distinct(namespaces) /\ opening \in [Namespaces -> Nat]
      /\ watching \in [Namespaces -> Nat]
  BY DEF K8sInv, K8sTypes
<1>3. /\ namespaces' \in Seq(Namespaces) /\ Distinct(namespaces')
      /\ \A x : Has(namespaces', x) <=> Has(namespaces, x) /\ x # ns
  BY <1>1, <1>2, RemoveNamespace
<1>4. /\ opening' \in [Namespaces -> Nat]
      /\ \A x \in Namespaces : opening'[x] = IF x = ns THEN opening[x] - 1 ELSE opening[x]
  BY <1>1, <1>2, CountLess
<1>5. K8sTypes'
  BY <1>1, <1>2, <1>3, <1>4 DEF K8sTypes
<1>6. kLife # "stopped"
  BY <1>1 DEF K8sInv, K8s!NoGoroutine
<1>7. ASSUME kLife = "running", ~shifted, NEW x \in Namespaces
      PROVE  /\ K8s!Goroutines(x)' = IF x = ns THEN 0 ELSE K8s!Goroutines(x)
             /\ ~(finder = "starting" /\ ns = Head(found))
  <2>1. opening[x] \in Nat /\ watching[x] \in Nat /\ opening[ns] \in Nat /\ watching[ns] \in Nat
    BY <1>2
  <2>2. K8s!Goroutines(ns) > 0
    BY <1>1, <2>1 DEF K8s!Goroutines
  <2>3. K8s!Goroutines(ns) = 1 /\ ~(finder = "starting" /\ ns = Head(found))
    BY <1>7, <2>2 DEF K8sInv, RunningSound
  <2>4. K8s!Goroutines(x)' = opening'[x] + watching[x] /\ K8s!Goroutines(x) = opening[x] + watching[x]
    BY <1>1 DEF K8s!Goroutines
  <2> QED
    BY <1>4, <2>1, <2>3, <2>4
<1>8. RunningSound'
  <2> SUFFICES ASSUME kLife = "running", ~shifted, NEW x \in Namespaces
               PROVE  K8s!Goroutines(x)'
                        = IF Has(namespaces', x) /\ ~(finder = "starting" /\ x = Head(found))
                          THEN 1 ELSE 0
    BY <1>1 DEF RunningSound
  <2> QED
    BY <1>3, <1>7 DEF K8sInv, RunningSound
<1>9. FinderSound'
  <2>1. ASSUME kLife = "running", ~shifted, finder = "starting" PROVE Has(namespaces', Head(found))
    BY <1>3, <1>7, <2>1 DEF K8sInv, FinderSound
  <2> QED
    BY <1>1, <2>1 DEF K8sInv, FinderSound
<1>10. StartingSound'
  BY <1>1 DEF StartingSound
<1> QED
  BY <1>1, <1>3, <1>5, <1>6, <1>8, <1>9, <1>10 DEF K8sInv

\* The goroutines end with the context.
LEMMA K8sDone == ASSUME K8sInv, NEW ns \in Namespaces, K8s!WatchDone(ns) PROVE K8sInv'
<1>1. /\ kLife = "stopping"
      /\ UNCHANGED <<namespaces, ranged, shifted, turn, kLife, finder, found, cluster>>
      /\ \/ opening[ns] > 0 /\ opening' = [opening EXCEPT ![ns] = @ - 1] /\ watching' = watching
         \/ watching[ns] > 0 /\ watching' = [watching EXCEPT ![ns] = @ - 1] /\ opening' = opening
  BY DEF K8s!WatchDone, K8s!list, K8s!finding, K8s!world
<1>2. K8sTypes /\ opening \in [Namespaces -> Nat] /\ watching \in [Namespaces -> Nat]
  BY DEF K8sInv, K8sTypes
<1>3. opening' \in [Namespaces -> Nat] /\ watching' \in [Namespaces -> Nat]
  BY <1>1, <1>2, CountLess
<1>4. K8sTypes'
  BY <1>1, <1>2, <1>3 DEF K8sTypes
<1> QED
  BY <1>1, <1>4 DEF K8sInv, StartingSound, FinderSound, RunningSound

\* The goroutine that looks for namespaces.
LEMMA K8sFinder == ASSUME DistinctNamespaces, K8sInv, K8s!Finder PROVE K8sInv'
<1>1. K8sTypes /\ Distinct(namespaces) /\ namespaces \in Seq(Namespaces) /\ found \in Seq(Namespaces)
      /\ opening \in [Namespaces -> Nat]
  BY DEF K8sInv, K8sTypes
<1>2. /\ finder # "none" /\ kLife \notin {"stopped", "starting"}
      /\ UNCHANGED <<ranged, shifted, turn, kLife, watching, cluster>>
  BY DEF K8sInv, FinderSound, K8s!Finder, K8s!Find, K8s!FindKnown, K8s!FindNew, K8s!FindStart,
         K8s!FindEnd, K8s!FindDone, K8s!list, K8s!world
<1>3. StartingSound' /\ kLife' # "stopped"
  BY <1>2 DEF StartingSound
<1>4. CASE K8s!Find \/ K8s!FindKnown \/ K8s!FindEnd \/ K8s!FindDone
  <2>1. /\ finder # "starting" /\ finder' # "starting" /\ UNCHANGED <<namespaces, opening>>
    BY <1>4 DEF K8s!Find, K8s!FindKnown, K8s!FindEnd, K8s!FindDone, K8s!list
  <2>2. found' \in Seq(Namespaces)
    <3>1. CASE K8s!Find
      <4>1. found' \in K8s!Listings(cluster) /\ cluster \subseteq Namespaces
        BY <1>1, <3>1 DEF K8s!Find, K8s!listNamespaces, K8sTypes
      <4>2. IsFiniteSet(cluster)
        BY <4>1, FS_Subset DEF DistinctNamespaces
      <4>3. found' \in Seq(cluster)
        BY <4>1, <4>2, ListingProperties
      <4> QED
        BY <4>1, <4>3
    <3>2. CASE K8s!FindKnown
      BY <1>1, <3>2, HeadTailProperties DEF K8s!FindKnown
    <3>3. CASE K8s!FindEnd \/ K8s!FindDone
      BY <1>1, <3>3 DEF K8s!FindEnd, K8s!FindDone
    <3> QED
      BY <1>4, <3>1, <3>2, <3>3
  <2>3. K8sTypes'
    BY <1>1, <1>2, <2>1, <2>2 DEF K8sTypes
  <2>4. \A x \in Namespaces : K8s!Goroutines(x)' = K8s!Goroutines(x)
    BY <1>2, <2>1 DEF K8s!Goroutines
  <2>5. RunningSound' /\ FinderSound'
    BY <1>2, <2>1, <2>4 DEF K8sInv, RunningSound, FinderSound
  <2> QED
    BY <1>1, <1>3, <2>1, <2>3, <2>5 DEF K8sInv
<1>5. CASE K8s!FindNew
  <2> DEFINE n == Len(namespaces)
             h == Head(found)
  <2>1. /\ finder = "looking" /\ found # <<>> /\ ~Has(namespaces, h) /\ finder' = "starting"
        /\ namespaces' = Append(namespaces, h) /\ UNCHANGED <<opening, found>>
    BY <1>1, <1>5, HasNamespace DEF K8s!FindNew
  <2>2. h \in Namespaces
    BY <1>1, <2>1, HeadTailProperties
  <2> HIDE DEF h
  <2>3. /\ namespaces' \in Seq(Namespaces) /\ Len(namespaces') = n + 1 /\ n \in Nat
        /\ \A i \in 1..n : namespaces'[i] = namespaces[i]
        /\ namespaces'[n + 1] = h
    BY <1>1, <2>1, <2>2, AppendProperties
  <2> HIDE DEF n
  <2>4. \A x : Has(namespaces', x) <=> Has(namespaces, x) \/ x = h
    <3> SUFFICES ASSUME NEW x PROVE Has(namespaces', x) <=> Has(namespaces, x) \/ x = h
      OBVIOUS
    <3>1. 1..Len(namespaces') = 1..n \cup {n + 1}
      BY <2>3
    <3> QED
      BY <2>3, <3>1 DEF Has, n
  <2>5. Distinct(namespaces')
    <3> SUFFICES ASSUME NEW i \in 1..(n + 1), NEW j \in 1..(n + 1), namespaces'[i] = namespaces'[j]
                 PROVE  i = j
      BY <2>3 DEF Distinct
    <3>1. \A k \in 1..n : namespaces[k] # h
      BY <2>1 DEF Has, n
    <3>2. i \in 1..n \/ i = n + 1
      BY <2>3
    <3>3. j \in 1..n \/ j = n + 1
      BY <2>3
    <3>4. CASE i \in 1..n /\ j \in 1..n
      BY <1>1, <2>3, <3>4 DEF Distinct, n
    <3> QED
      BY <2>3, <3>1, <3>2, <3>3, <3>4
  <2>6. K8sTypes'
    BY <1>1, <1>2, <2>1, <2>3 DEF K8sTypes
  <2>7. \A x \in Namespaces : K8s!Goroutines(x)' = K8s!Goroutines(x)
    BY <1>2, <2>1 DEF K8s!Goroutines
  <2>8. FinderSound'
    BY <1>2, <2>1, <2>4 DEF FinderSound, h
  <2>9. RunningSound'
    <3> SUFFICES ASSUME kLife = "running", ~shifted, NEW x \in Namespaces
                 PROVE  K8s!Goroutines(x)' = IF Has(namespaces', x) /\ x # h THEN 1 ELSE 0
      BY <1>2, <2>1 DEF RunningSound, h
    <3>1. K8s!Goroutines(x) = IF Has(namespaces, x) THEN 1 ELSE 0
      BY <2>1 DEF K8sInv, RunningSound
    <3> QED
      BY <2>1, <2>4, <2>7, <3>1
  <2> QED
    BY <1>3, <2>5, <2>6, <2>8, <2>9 DEF K8sInv
<1>6. CASE K8s!FindStart
  <2> DEFINE h == Head(found)
  <2>1. /\ finder = "starting" /\ opening' = [opening EXCEPT ![h] = @ + 1]
        /\ found' = Tail(found) /\ finder' = "looking" /\ namespaces' = namespaces
    BY <1>6 DEF K8s!FindStart, K8s!startWatchingNamespace, K8s!list
  <2>2. found # <<>> /\ (kLife = "running" /\ ~shifted => Has(namespaces, h))
    BY <2>1 DEF K8sInv, FinderSound
  <2>3. found' \in Seq(Namespaces)
    BY <1>1, <2>1, <2>2, HeadTailProperties
  <2> HIDE DEF h
  <2>4. /\ opening' \in [Namespaces -> Nat]
        /\ \A ns \in Namespaces : opening'[ns] = IF ns = h THEN opening[ns] + 1 ELSE opening[ns]
    BY <1>1, <2>1, CountMore
  <2>5. K8sTypes'
    BY <1>1, <1>2, <2>1, <2>3, <2>4 DEF K8sTypes
  <2>6. RunningSound'
    <3> SUFFICES ASSUME kLife = "running", ~shifted, NEW x \in Namespaces
                 PROVE  K8s!Goroutines(x)' = IF Has(namespaces, x) THEN 1 ELSE 0
      BY <1>2, <2>1 DEF RunningSound
    <3>1. K8s!Goroutines(x) = IF Has(namespaces, x) /\ x # h THEN 1 ELSE 0
      BY <2>1 DEF K8sInv, RunningSound, h
    <3>2. opening[x] \in Nat /\ watching[x] \in Nat
      BY <1>1 DEF K8sTypes
    <3>3. K8s!Goroutines(x)' = opening'[x] + watching[x] /\ K8s!Goroutines(x) = opening[x] + watching[x]
      BY <1>2 DEF K8s!Goroutines
    <3> QED
      BY <2>2, <2>4, <3>1, <3>2, <3>3
  <2>7. FinderSound'
    BY <1>2, <2>1 DEF FinderSound
  <2> QED
    BY <1>1, <1>3, <2>1, <2>5, <2>6, <2>7 DEF K8sInv
<1> QED
  BY <1>4, <1>5, <1>6 DEF K8s!Finder

\* Steps that touch neither the list nor a goroutine.
LEMMA K8sOthers ==
  ASSUME K8sInv,
         \/ K8s!Cancel \/ K8s!Stop \/ (\E ns \in Namespaces : K8s!Change(ns)) \/ UNCHANGED K8s!vars
  PROVE  K8sInv'
<1>1. /\ UNCHANGED <<namespaces, ranged, shifted, turn, opening, watching, finder, found>>
      /\ \/ kLife' = kLife
         \/ kLife = "running" /\ kLife' = "stopping"
         \/ kLife = "stopping" /\ kLife' = "ended"
  BY DEF K8s!Cancel, K8s!Stop, K8s!Change, K8s!vars, K8s!list, K8s!finding, K8s!world
<1>2. cluster' \subseteq Namespaces
  BY DEF K8sInv, K8sTypes, K8s!Cancel, K8s!Stop, K8s!Change, K8s!SymDiff, K8s!vars, K8s!list,
         K8s!finding, K8s!world
<1>3. K8sTypes'
  BY <1>1, <1>2 DEF K8sInv, K8sTypes
<1>4. \A x \in Namespaces : K8s!Goroutines(x)' = K8s!Goroutines(x)
  BY <1>1 DEF K8s!Goroutines
<1>5. StartingSound' /\ FinderSound' /\ RunningSound'
  BY <1>1, <1>4 DEF K8sInv, StartingSound, FinderSound, RunningSound
<1> QED
  BY <1>1, <1>3, <1>5 DEF K8sInv, K8s!NoGoroutine

\* k8s_event_input watches every namespace of its list once, and no other, however
\* watches fail and namespaces are found again, for any number of namespaces and
\* changes; unless a namespace was removed while Start ranged over the list.
THEOREM WatchedOnceCorrect == DistinctNamespaces => (MCSpec => []WatchedOnce)
<1> SUFFICES ASSUME DistinctNamespaces PROVE MCSpec => []WatchedOnce
  OBVIOUS
<1>1. MCInit => K8sInv
  <2> SUFFICES ASSUME K8s!Init PROVE K8sInv
    BY DEF MCInit
  <2>1. K8sTypes /\ Distinct(namespaces)
    BY DEF K8s!Init, K8s!NoGoroutine, DistinctNamespaces, K8sTypes
  <2> QED
    BY <2>1 DEF K8s!Init, K8sInv, StartingSound, FinderSound, RunningSound
<1>2. K8sInv /\ [MCNext]_mcVars => K8sInv'
  <2> SUFFICES ASSUME K8sInv, [K8s!Next]_(K8s!vars) PROVE K8sInv'
    BY K8sSteps
  <2> QED
    BY K8sStart, K8sStarter, K8sFinder, K8sWatch, K8sFails, K8sDone, K8sOthers
       DEF K8s!Next, K8s!Watcher
<1>3. K8sInv => WatchedOnce
  <2> SUFFICES ASSUME K8sInv, kLife = "running", ~shifted, NEW ns \in Namespaces
               PROVE  K8s!Goroutines(ns)
                        = IF K8s!hasNamespace(ns) /\ ~K8s!BeingStarted(ns) THEN 1 ELSE 0
    BY DEF WatchedOnce, K8s!WatchedOnce
  <2>1. K8s!hasNamespace(ns) <=> Has(namespaces, ns)
    BY HasNamespace DEF K8sInv
  <2> QED
    BY <2>1 DEF K8sInv, RunningSound, K8s!BeingStarted
<1> QED
  BY <1>1, <1>2, <1>3, PTL DEF MCSpec

-----------------------------------------------------------------------------
(* windows_eventlog_input: it implements Delivery, and so delivers every     *)
(* event it has passed, for any number of events, any size of batches and    *)
(* any number of interruptions.                                              *)

WindowsTypes ==
  /\ startAt \in {"beginning", "end"}
  /\ logged \in Nat /\ stored \in Nat /\ at \in Nat /\ starts \in Nat
  /\ life \in {"stopped", "running", "stopping"}
  /\ pc \in {"idle", "reading", "processing", "bookmark"}
  /\ batch \in Seq(Nat)
  /\ from \in Nat /\ done \in Nat /\ out \in Seq(Nat)

\* What is in the subscription's past has been dealt with, except for the
\* batch at hand, which is a run of consecutive events that ends there.
BatchConsecutive ==
  /\ pc \in {"idle", "reading"} => at <= done
  /\ pc = "processing" =>
       /\ Len(batch) \in 1..at /\ at - Len(batch) <= done
       /\ \A i \in 1..Len(batch) : batch[i] = at - Len(batch) + i
  /\ pc = "bookmark" => Len(batch) >= 1 /\ batch[1] = at /\ at <= done

BookmarkBehind == stored <= done /\ done <= logged /\ at <= logged

\* Before the first start nothing has happened.
NotBegun ==
  starts = 0 => /\ life = "stopped" /\ pc = "idle" /\ stored = 0
                /\ from = 0 /\ done = 0 /\ out = <<>>

WindowsInv ==
  /\ WindowsTypes /\ BatchConsecutive /\ BookmarkBehind /\ NotBegun
  /\ life = "stopped" => pc = "idle"
  /\ startAt = "beginning" => from = 0

\* The operations keep the invariant.
LEMMA WindowsStep ==
  ASSUME MaxReads \in Nat, WindowsInv, [Next]_vars
  PROVE  WindowsInv'
<1> USE DEF WindowsTypes, BatchConsecutive, BookmarkBehind, NotBegun, source, delivery
<1>1. CASE LogEvent
  BY <1>1 DEF WindowsInv, LogEvent
<1>2. CASE Cancel
  BY <1>2 DEF WindowsInv, Cancel
<1>3. CASE Stop
  BY <1>3 DEF WindowsInv, Stop
<1>4. CASE Crash
  BY <1>4 DEF WindowsInv, Crash
<1>5. CASE StartAfterBookmark
  BY <1>5 DEF WindowsInv, StartAfterBookmark, Starting
<1>6. ASSUME Starting, createFlags, stored' \in {0, stored}
      PROVE  WindowsInv'
  <2>1. /\ life' = "running" /\ starts' = starts + 1 /\ starts' \in Nat /\ starts' # 0
        /\ pc' = "idle" /\ UNCHANGED <<startAt, logged, pc, batch>>
    BY <1>6 DEF WindowsInv, Starting
  <2>2. CASE startAt = "beginning"
    <3>1. at' = 0 /\ UNCHANGED <<from, done, out>>
      BY <1>6, <2>2 DEF createFlags, Oldest
    <3> QED
      BY <1>6, <2>1, <3>1 DEF WindowsInv
  <2>3. CASE startAt # "beginning"
    <3>1. at' = logged /\ done' = logged /\ from' \in {from, logged} /\ out' = out
      BY <1>6, <2>3 DEF createFlags, Future
    <3> QED
      BY <1>6, <2>1, <2>3, <3>1 DEF WindowsInv
  <2> QED
    BY <2>2, <2>3
<1>7. CASE StartWithoutBookmark
  BY <1>6, <1>7 DEF StartWithoutBookmark
<1>8. CASE StartUnreadable
  BY <1>6, <1>8 DEF StartUnreadable
<1>9. CASE Tick
  BY <1>9 DEF WindowsInv, Tick
<1>10. CASE ReadNothing
  BY <1>10 DEF WindowsInv, ReadNothing
<1>11. ASSUME NEW n \in 1..MaxReads, Read(n)
       PROVE  WindowsInv'
  <2>1. /\ batch' = [i \in 1..n |-> at + i] /\ at' = at + n /\ at + n <= logged
        /\ pc = "reading" /\ pc' = "processing" /\ life = "running"
        /\ UNCHANGED <<logged, stored, life, from, done, out, starts, startAt>>
        /\ starts # 0
    BY <1>11 DEF Read, WindowsInv
  <2>2. n \in Nat /\ n >= 1
    OBVIOUS
  <2>3. batch' \in Seq(Nat) /\ Len(batch') = n
    BY <2>1, <2>2 DEF WindowsInv
  <2>4. \A i \in 1..Len(batch') : batch'[i] = at' - Len(batch') + i
    BY <2>1, <2>2, <2>3 DEF WindowsInv
  <2>5. BatchConsecutive'
    BY <2>1, <2>2, <2>3, <2>4 DEF WindowsInv
  <2>6. BookmarkBehind' /\ NotBegun'
    BY <2>1 DEF WindowsInv
  <2> QED
    BY <2>1, <2>2, <2>3, <2>5, <2>6 DEF WindowsInv
<1>12. CASE ProcessEvent
  <2>1. /\ pc = "processing" /\ Len(batch) \in 1..at /\ at - Len(batch) <= done
        /\ batch \in Seq(Nat) /\ Len(batch) \in Nat
        /\ \A i \in 1..Len(batch) : batch[i] = at - Len(batch) + i
    BY <1>12 DEF WindowsInv, ProcessEvent
  <2>2. Head(batch) = batch[1] /\ batch[1] \in Nat /\ batch[1] = at - Len(batch) + 1
    BY <2>1 DEF WindowsInv
  <2>3. /\ done' = IF Head(batch) > done THEN Head(batch) ELSE done
        /\ UNCHANGED <<logged, stored, life, at, from, starts, startAt>>
        /\ starts # 0
    BY <1>12 DEF ProcessEvent, WindowsInv
  <2>4. done' \in Nat /\ done' >= done /\ done' >= batch[1] /\ done' <= logged
    BY <2>1, <2>2, <2>3 DEF WindowsInv
  <2>5. out' \in Seq(Nat)
    BY <1>12, <2>2 DEF ProcessEvent, WindowsInv
  <2>6. CASE Len(batch) = 1
    <3>1. batch' = batch /\ pc' = "bookmark"
      BY <1>12, <2>6 DEF ProcessEvent
    <3>2. batch[1] = at /\ at <= done'
      BY <2>1, <2>2, <2>4, <2>6 DEF WindowsInv
    <3>3. BatchConsecutive'
      <4>1. pc' = "bookmark" /\ batch' = batch /\ at' = at /\ Len(batch) >= 1
        BY <2>1, <2>3, <3>1
      <4> QED
        BY <4>1, <3>2
    <3>4. BookmarkBehind' /\ NotBegun'
      BY <2>1, <2>3, <2>4, <3>1, <3>2 DEF WindowsInv
    <3>5. life # "stopped"
      BY <2>1 DEF WindowsInv
    <3>6. WindowsTypes'
      BY <2>1, <2>3, <2>4, <2>5, <3>1 DEF WindowsInv
    <3> QED
      BY <2>3, <3>3, <3>4, <3>5, <3>6 DEF WindowsInv
  <2>7. CASE Len(batch) # 1
    <3>1. batch' = Tail(batch) /\ pc' = "processing"
      BY <1>12, <2>7 DEF ProcessEvent
    <3>2. /\ batch' \in Seq(Nat) /\ Len(batch') = Len(batch) - 1
          /\ \A i \in 1..Len(batch') : batch'[i] = batch[i + 1]
      BY <2>1, <3>1
    <3>3. Len(batch') \in 1..at' /\ at' - Len(batch') <= done'
      BY <2>1, <2>2, <2>3, <2>4, <2>7, <3>2 DEF WindowsInv
    <3>4. \A i \in 1..Len(batch') : batch'[i] = at' - Len(batch') + i
      BY <2>1, <2>3, <3>2 DEF WindowsInv
    <3> QED
      BY <2>1, <2>3, <2>4, <2>5, <3>1, <3>2, <3>3, <3>4 DEF WindowsInv
  <2> QED
    BY <2>6, <2>7
<1>13. ASSUME NEW stores \in BOOLEAN, UpdateBookmark(stores)
       PROVE  WindowsInv'
  <2>1. pc = "bookmark" /\ Head(batch) = at /\ at <= done
    BY <1>13 DEF WindowsInv, UpdateBookmark, BookmarkDue
  <2>2. stored' \in Nat /\ stored' <= done
    BY <1>13, <2>1 DEF WindowsInv, UpdateBookmark
  <2> QED
    BY <1>13, <2>1, <2>2 DEF WindowsInv, UpdateBookmark
<1>14. CASE UNCHANGED vars
  BY <1>14 DEF WindowsInv, vars
<1> QED
  BY <1>1, <1>2, <1>3, <1>4, <1>5, <1>7, <1>8, <1>9, <1>10, <1>11, <1>12, <1>13, <1>14
  DEF Next, Poller

\* The initial states satisfy the invariant.
LEMMA WindowsInit ==
  ASSUME MaxEvents \in Nat, Init
  PROVE  WindowsInv
BY DEF Init, WindowsInv, WindowsTypes, BatchConsecutive, BookmarkBehind, NotBegun

\* Every operation is one of Delivery, or leaves what is delivered alone, or
\* starts over at the end of the channel.
LEMMA WindowsSimulation ==
  ASSUME WindowsInv, [Next]_vars
  PROVE  [Promise!DeliveryNext \/ StartOver]_(Promise!deliveryVars)
<1> USE DEF Promise!deliveryVars, delivery, source
<1>1. CASE ProcessEvent
  <2>1. /\ Len(batch) \in 1..at /\ at - Len(batch) <= done
        /\ batch \in Seq(Nat) /\ Len(batch) \in Nat /\ at \in Nat /\ done \in Nat
        /\ \A i \in 1..Len(batch) : batch[i] = at - Len(batch) + i
    BY <1>1 DEF WindowsInv, WindowsTypes, BatchConsecutive, ProcessEvent
  <2>2. Head(batch) = batch[1] /\ batch[1] \in 1..(done + 1)
    BY <2>1
  <2>3. /\ out' = IF Head(batch) \in Unreadable THEN out ELSE Append(out, Head(batch))
        /\ done' = IF Head(batch) > done THEN Head(batch) ELSE done
        /\ UNCHANGED <<from, starts>> /\ starts > 0
    BY <1>1 DEF ProcessEvent, WindowsInv, WindowsTypes, NotBegun
  <2>4. CASE Head(batch) \notin Unreadable
    <3>1. Promise!Deliver(batch[1])
      BY <2>2, <2>3, <2>4 DEF Promise!Deliver
    <3> QED
      BY <2>2, <3>1 DEF Promise!DeliveryNext
  <2>5. CASE Head(batch) \in Unreadable
    <3>1. CASE Head(batch) = done + 1
      BY <2>1, <2>2, <2>3, <2>5, <3>1 DEF Promise!DeliveryNext, Promise!Drop
    <3>2. CASE Head(batch) # done + 1
      BY <2>1, <2>2, <2>3, <2>5, <3>2
    <3> QED
      BY <3>1, <3>2
  <2> QED
    BY <2>4, <2>5
<1>2. ASSUME Starting, createFlags, StartWithoutBookmark \/ StartUnreadable
      PROVE  Promise!DeliveryNext \/ StartOver \/ UNCHANGED Promise!deliveryVars
  <2>1. starts \in Nat /\ starts' = starts + 1 /\ done \in Nat /\ logged \in Nat /\ from \in Nat
    BY <1>2 DEF Starting, WindowsInv, WindowsTypes
  <2>2. CASE starts = 0
    <3>1. from = 0 /\ done = 0
      BY <2>2 DEF WindowsInv, NotBegun
    <3>2. done' \in Nat /\ from' = done' /\ out' = out
      BY <1>2, <2>1, <3>1 DEF createFlags, Oldest, Future
    <3>3. Promise!Begin
      BY <2>1, <2>2, <3>2 DEF Promise!Begin
    <3> QED
      BY <3>3 DEF Promise!DeliveryNext
  <2>3. CASE starts # 0 /\ startAt = "end"
    BY <1>2, <2>1, <2>3 DEF StartOver
  <2>4. CASE starts # 0 /\ startAt # "end"
    <3>1. UNCHANGED <<from, done, out>>
      <4>1. startAt = "beginning"
        BY <2>4 DEF WindowsInv, WindowsTypes
      <4> QED
        BY <1>2, <4>1 DEF createFlags, Oldest
    <3>2. (starts > 0)' = (starts > 0)
      BY <2>1, <2>4
    <3> QED
      BY <3>1, <3>2
  <2> QED
    BY <2>2, <2>3, <2>4
<1>3. CASE StartWithoutBookmark \/ StartUnreadable
  BY <1>2, <1>3 DEF StartWithoutBookmark, StartUnreadable
<1>4. CASE StartAfterBookmark
  <2>1. starts # 0 /\ starts \in Nat /\ starts' = starts + 1
    BY <1>4 DEF StartAfterBookmark, Starting, WindowsInv, WindowsTypes, NotBegun
  <2>2. (starts > 0)' = (starts > 0)
    BY <2>1
  <2> QED
    BY <1>4, <2>2 DEF StartAfterBookmark
<1>5. CASE LogEvent \/ Cancel \/ Stop \/ Crash \/ Tick \/ ReadNothing
  BY <1>5 DEF LogEvent, Cancel, Stop, Crash, Tick, ReadNothing
<1>6. ASSUME NEW n \in 1..MaxReads, Read(n)
      PROVE  UNCHANGED Promise!deliveryVars
  BY <1>6 DEF Read
<1>7. ASSUME NEW stores \in BOOLEAN, UpdateBookmark(stores)
      PROVE  UNCHANGED Promise!deliveryVars
  BY <1>7 DEF UpdateBookmark
<1>8. CASE UNCHANGED vars
  BY <1>8 DEF vars
<1> QED
  BY <1>1, <1>3, <1>4, <1>5, <1>6, <1>7, <1>8 DEF Next, Poller

\* Before the first start nothing has been promised.
LEMMA DeliveryInitially ==
  ASSUME Init
  PROVE  Promise!DeliveryInit
BY DEF Init, Promise!DeliveryInit

\* windows_eventlog_input delivers as Delivery promises, whatever fails and
\* whenever it is interrupted, unless it starts over at the end of the channel.
THEOREM Implementation ==
  ASSUME MaxReads \in Nat, MaxEvents \in Nat
  PROVE  Spec => ImplementsDelivery
<1> QED
  BY DeliveryInitially, WindowsInit, WindowsStep, WindowsSimulation, PTL DEF Spec, ImplementsDelivery

\* With start_at beginning it implements Delivery, without exception.
THEOREM ImplementationFromBeginning ==
  ASSUME MaxReads \in Nat, MaxEvents \in Nat
  PROVE  Spec /\ startAt = "beginning" => StartAtFirstStartup
<1> DEFINE FromBeginning == startAt = "beginning"
<1>1. FromBeginning /\ [Next]_vars => FromBeginning'
  <2> SUFFICES ASSUME FromBeginning, [Next]_vars PROVE startAt' = startAt
    OBVIOUS
  <2>1. CASE Poller
    BY <2>1 DEF Poller, Tick, ReadNothing, ProcessEvent, Read, UpdateBookmark, source
  <2>2. CASE LogEvent \/ Cancel \/ Stop \/ Crash
    BY <2>2 DEF LogEvent, Cancel, Stop, Crash, source
  <2>3. CASE StartAfterBookmark \/ StartWithoutBookmark \/ StartUnreadable
    BY <2>3 DEF StartAfterBookmark, StartWithoutBookmark, StartUnreadable, Starting
  <2>4. CASE UNCHANGED vars
    BY <2>4 DEF vars, source
  <2> QED
    BY <2>1, <2>2, <2>3, <2>4 DEF Next
<1>2. FromBeginning /\ WindowsInv /\ [Next]_vars
        => [Promise!DeliveryNext]_(Promise!deliveryVars)
  <2>1. FromBeginning => ~StartOver
    BY DEF StartOver
  <2> QED
    BY <2>1, WindowsSimulation
<1>3. startAt = "beginning" => FromBeginning
  OBVIOUS
<1> HIDE DEF FromBeginning
<1> QED
  BY <1>1, <1>2, <1>3, DeliveryInitially, WindowsInit, WindowsStep, PTL
  DEF Spec, StartAtFirstStartup, Promise!DeliverySpec

\* An interval that ends before it begins is empty.
LEMMA EmptyInterval ==
  ASSUME NEW k \in Nat, NEW n \in (k + 1)..k
  PROVE  FALSE
OBVIOUS

\* A step of Delivery keeps its promise, and a start at the end begins a new one.
LEMMA PromiseKept ==
  ASSUME from \in Nat, done \in Nat, out \in Seq(Nat), Promise!AtLeastOnce,
         [Promise!DeliveryNext \/ StartOver]_(Promise!deliveryVars), logged \in Nat
  PROVE  /\ from' \in Nat /\ done' \in Nat /\ out' \in Seq(Nat)
         /\ Promise!AtLeastOnce'
<1> USE DEF Promise!AtLeastOnce
<1>1. ASSUME NEW n \in 1..(done + 1), Promise!Deliver(n)
      PROVE  /\ from' \in Nat /\ done' \in Nat /\ out' \in Seq(Nat)
             /\ Promise!AtLeastOnce'
  <2>1. /\ n \in Nat /\ out' = Append(out, n) /\ from' = from
        /\ done' = IF n > done THEN n ELSE done
    BY <1>1 DEF Promise!Deliver
  <2>2. /\ out' \in Seq(Nat) /\ Len(out') = Len(out) + 1 /\ Len(out) \in Nat
        /\ out'[Len(out) + 1] = n
        /\ \A i \in 1..Len(out) : out'[i] = out[i]
    BY <2>1
  <2>3. ASSUME NEW m \in (from' + 1)..done', m \notin Unreadable
        PROVE  \E i \in 1..Len(out') : out'[i] = m
    <3>1. CASE m = n
      BY SMTT(30), <2>2, <3>1
    <3>2. CASE m # n
      <4>1. m \in (from + 1)..done
        BY <2>1, <2>3, <3>2
      <4>2. PICK i \in 1..Len(out) : out[i] = m
        BY <2>3, <4>1
      <4> QED
        BY <2>2, <4>2
    <3> QED
      BY <3>1, <3>2
  <2> QED
    BY <2>1, <2>2, <2>3
<1>2. CASE Promise!Drop
  BY <1>2 DEF Promise!Drop
<1>3. CASE Promise!Begin
  <2>1. done' \in Nat /\ from' = done' /\ out' = out
    BY <1>3 DEF Promise!Begin
  <2>2. \A n \in (done' + 1)..done' : FALSE
    BY <2>1, EmptyInterval
  <2> QED
    BY <2>1, <2>2
<1>4. CASE StartOver
  <2>1. /\ done' = logged /\ out' = out
        /\ from' = IF done = logged THEN from ELSE logged
    BY <1>4 DEF StartOver, StartWithoutBookmark, StartUnreadable, createFlags, Future
  <2>2. CASE done = logged
    BY <2>1, <2>2
  <2>3. CASE done # logged
    <3>1. \A n \in (logged + 1)..logged : FALSE
      BY EmptyInterval
    <3> QED
      BY <2>1, <2>3, <3>1
  <2> QED
    BY <2>2, <2>3
<1>5. CASE UNCHANGED Promise!deliveryVars
  BY <1>5 DEF Promise!deliveryVars
<1> QED
  BY <1>1, <1>2, <1>3, <1>4, <1>5 DEF Promise!DeliveryNext

\* Every event the input has passed has been written to the pipeline, if it can
\* be rendered: with start_at beginning all of them, with start_at end those after
\* the point where it last had to start at the end.
THEOREM EventsDelivered ==
  ASSUME MaxReads \in Nat, MaxEvents \in Nat
  PROVE  Spec => [](Promise!AtLeastOnce /\ (startAt = "beginning" => from = 0))
<1> DEFINE P == /\ WindowsInv /\ Promise!AtLeastOnce
<1>1. Init => P
  <2> SUFFICES ASSUME Init PROVE Promise!AtLeastOnce
    BY WindowsInit
  <2>1. from = 0 /\ done = 0
    BY DEF Init
  <2>2. \A n \in (0 + 1)..0 : FALSE
    BY EmptyInterval
  <2> QED
    BY <2>1, <2>2 DEF Promise!AtLeastOnce
<1>2. P /\ [Next]_vars => P'
  <2> SUFFICES ASSUME P, [Next]_vars PROVE P'
    OBVIOUS
  <2>1. [Promise!DeliveryNext \/ StartOver]_(Promise!deliveryVars)
    BY WindowsSimulation
  <2>2. from \in Nat /\ done \in Nat /\ out \in Seq(Nat) /\ logged \in Nat
    BY DEF WindowsInv, WindowsTypes
  <2>3. Promise!AtLeastOnce'
    BY <2>1, <2>2, PromiseKept
  <2> QED
    BY <2>3, WindowsStep
<1>3. P => Promise!AtLeastOnce /\ (startAt = "beginning" => from = 0)
  BY DEF WindowsInv
<1> HIDE DEF P
<1> QED
  BY <1>1, <1>2, <1>3, PTL DEF Spec

=============================================================================
