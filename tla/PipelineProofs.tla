--------------------------- MODULE PipelineProofs ---------------------------
(***************************************************************************)
(* What is proved of Pipeline for every set of configurations, with or     *)
(* without a default output, for any number of entries: the ids that are   *)
(* made up are free, no operator is called that is not running, and no     *)
(* branch sees what another one does to an entry.                          *)
(***************************************************************************)
EXTENDS Pipeline, SequenceTheorems, FiniteSetTheorems, WellFoundedInduction, TLAPS

-----------------------------------------------------------------------------
(* Natural numbers *)

\* A set of numbers that is not empty has a least one.
LEMMA Least ==
  ASSUME NEW T, T \subseteq Nat, T # {}
  PROVE  \E x \in T : \A y \in T : x <= y
<1>1. \E x \in T : \A y \in T : ~(<<y, x>> \in OpToRel(<, Nat))
  BY NatLessThanWellFounded, WFMin
<1>2. \E x \in T : \A y \in T : ~(y < x)
  BY <1>1 DEF OpToRel
<1>3. PICK x \in T : \A y \in T : ~(y < x)
  BY <1>2
<1>4. \A y \in T : x \in Nat /\ y \in Nat
  OBVIOUS
<1> QED
  BY <1>3, <1>4

\* Induction, for a set instead of a predicate.
LEMMA SetInduction ==
  ASSUME NEW T, 0 \in T, \A n \in Nat : n \in T => n + 1 \in T
  PROVE  \A n \in Nat : n \in T
<1> SUFFICES ASSUME Nat \ T # {} PROVE FALSE
  OBVIOUS
<1>1. PICK x \in Nat \ T : \A y \in Nat \ T : x <= y
  BY Least
<1>2. x # 0
  BY <1>1
<1>3. x - 1 \in Nat /\ x - 1 \in T
  BY <1>1, <1>2
<1>4. x - 1 + 1 = x
  BY <1>1
<1> QED
  BY <1>1, <1>3, <1>4

-----------------------------------------------------------------------------
(* The loop of dedeplucateIDs *)

Turns(config, f) ==
  f = [i \in 0..Len(config) |-> IF i = 0 THEN NoTurn(config) ELSE Turn(f[i - 1], i)]

\* The recursive function of Deduplicated exists.
LEMMA TurnsExist ==
  ASSUME NEW config, Len(config) \in Nat
  PROVE  \E f : Turns(config, f) /\ Deduplicated(config) = f[Len(config)].ops
<1> DEFINE Upto(n, f) ==
      f = [i \in 0..n |-> IF i = 0 THEN NoTurn(config) ELSE Turn(f[i - 1], i)]
<1> DEFINE T == {n \in Nat : \E f : Upto(n, f)}
<1>1. 0 \in T
  <2>1. Upto(0, [i \in 0..0 |-> NoTurn(config)])
    OBVIOUS
  <2> QED
    BY <2>1
<1>2. ASSUME NEW n \in Nat, n \in T PROVE n + 1 \in T
  <2>1. PICK f : Upto(n, f)
    BY <1>2
  <2> DEFINE g == [i \in 0..(n + 1) |-> IF i = n + 1 THEN Turn(f[n], i) ELSE f[i]]
  <2>2. ASSUME NEW i \in 0..(n + 1)
        PROVE  g[i] = IF i = 0 THEN NoTurn(config) ELSE Turn(g[i - 1], i)
    <3>1. CASE i = n + 1
      <4>1. i - 1 = n /\ i # 0 /\ n \in 0..(n + 1) /\ n # n + 1
        BY <3>1
      <4>2. g[n] = f[n]
        BY <4>1
      <4>3. g[i] = Turn(f[n], i)
        BY <3>1
      <4> QED
        BY <4>1, <4>2, <4>3
    <3>2. CASE i # n + 1
      <4>1. i \in 0..n
        BY <3>2
      <4>2. g[i] = f[i]
        BY <3>2
      <4>3. f[i] = IF i = 0 THEN NoTurn(config) ELSE Turn(f[i - 1], i)
        BY <2>1, <4>1
      <4>4. i # 0 => i - 1 \in 0..(n + 1) /\ i - 1 # n + 1
        BY <4>1
      <4>5. i # 0 => g[i - 1] = f[i - 1]
        BY <4>4
      <4> QED
        BY <4>2, <4>3, <4>5
    <3> QED
      BY <3>1, <3>2
  <2>3. g = [i \in 0..(n + 1) |-> g[i]]
    OBVIOUS
  <2> HIDE DEF g
  <2>4. Upto(n + 1, g)
    BY <2>2, <2>3
  <2>5. \E h : Upto(n + 1, h)
    BY <2>4
  <2> QED
    BY <2>5
<1>3. Len(config) \in T
  <2> HIDE DEF T
  <2> QED
    BY <1>1, <1>2, SetInduction
<1>4. \E f : Turns(config, f)
  BY <1>3 DEF Turns
<1> DEFINE f == CHOOSE f : Turns(config, f)
<1>5. Turns(config, f)
  BY <1>4
<1>6. Deduplicated(config) = f[Len(config)].ops
  BY DEF Deduplicated, Turns
<1> QED
  BY <1>5, <1>6

\* The size of an interval that may be empty.
LEMMA IntervalSize ==
  ASSUME NEW a \in Int, NEW b \in Int, b >= a - 1
  PROVE  IsFiniteSet(a..b) /\ Cardinality(a..b) = b - a + 1
<1>1. IsFiniteSet(a..b) /\ Cardinality(a..b) = IF a > b THEN 0 ELSE b - a + 1
  BY FS_Interval
<1>2. a > b => b - a + 1 = 0
  OBVIOUS
<1> QED
  BY <1>1, <1>2

\* L numbers do not have different positions from 2 to L.
LEMMA Pigeons ==
  ASSUME NEW L \in Nat, L >= 1, NEW n \in Nat,
         NEW f \in [(n + 1)..(n + L) -> 2..L]
  PROVE  \E x, y \in (n + 1)..(n + L) : x # y /\ f[x] = f[y]
<1> DEFINE S == (n + 1)..(n + L)
           T == 2..L
<1>1. IsFiniteSet(S) /\ Cardinality(S) = L
  <2>1. n + 1 \in Int /\ n + L \in Int /\ n + L >= n + 1 - 1 /\ n + L - (n + 1) + 1 = L
    OBVIOUS
  <2> QED
    BY <2>1, IntervalSize
<1>2. IsFiniteSet(T) /\ Cardinality(T) = L - 1
  <2>1. 2 \in Int /\ L \in Int /\ L >= 2 - 1 /\ L - 2 + 1 = L - 1
    OBVIOUS
  <2> QED
    BY <2>1, IntervalSize
<1>3. f \in [S -> T]
  OBVIOUS
<1> HIDE DEF S, T
<1>4. Cardinality(T) < Cardinality(S)
  BY <1>1, <1>2
<1>5. \E x, y \in S : x # y /\ f[x] = f[y]
  BY <1>1, <1>2, <1>3, <1>4, FS_PigeonHole
<1> QED
  BY <1>5 DEF S

\* A number above n that no operator from the second on has with this type, and
\* all numbers between them are taken: among as many numbers as there are
\* operators one is free.
LEMMA SomeNumFree ==
  ASSUME NEW operators \in Seq(Operator), NEW type, NEW n \in Nat,
         Len(operators) >= 1
  PROVE  LET Taken(k) == \E j \in 2..Len(operators) : operators[j].id = <<type, k>>
         IN  \E k \in (n + 1)..(n + Len(operators)) :
               ~Taken(k) /\ \A m \in (n + 1)..(k - 1) : Taken(m)
<1> DEFINE L == Len(operators)
           Taken(k) == \E j \in 2..L : operators[j].id = <<type, k>>
           Free == {k \in (n + 1)..(n + L) : ~Taken(k)}
<1>0. L \in Nat /\ L >= 1
  BY LenProperties
<1>1. Free # {}
  <2> SUFFICES ASSUME Free = {} PROVE FALSE
    OBVIOUS
  <2> DEFINE S == (n + 1)..(n + L)
             f == [k \in S |-> CHOOSE j \in 2..L : operators[j].id = <<type, k>>]
  <2>1. ASSUME NEW k \in S
        PROVE  f[k] \in 2..L /\ operators[f[k]].id = <<type, k>>
    OBVIOUS
  <2>2. f \in [S -> 2..L]
    BY <2>1
  <2>3. PICK x, y \in S : x # y /\ f[x] = f[y]
    <3> HIDE DEF L, f
    <3> QED
      BY <2>2, <1>0, Pigeons
  <2>4. <<type, x>> = <<type, y>>
    <3> HIDE DEF f
    <3> QED
      BY <2>1, <2>3
  <2> QED
    BY <2>3, <2>4
<1>2. Free \subseteq Nat
  BY <1>0
<1>3. PICK k \in Free : \A m \in Free : k <= m
  <2> HIDE DEF Free
  <2> QED
    BY <1>1, <1>2, Least
<1>4. k \in (n + 1)..(n + L) /\ ~Taken(k)
  OBVIOUS
<1>5. ASSUME NEW m \in (n + 1)..(k - 1) PROVE Taken(m)
  <2>1. m \in (n + 1)..(n + L) /\ ~(k <= m)
    BY <1>0, <1>4
  <2> QED
    BY <2>1, <1>3
<1> QED
  BY <1>4, <1>5

\* FreeNum returns a number that is not below n, and that no operator has with
\* this type if the number of the first operator's id is 0 and n is not.
LEMMA FreeNumIsFree ==
  ASSUME NEW operators \in Seq(Operator), NEW type, NEW n \in Nat,
         Len(operators) >= 1
  PROVE  /\ FreeNum(operators, type, n) \in Nat
         /\ FreeNum(operators, type, n) >= n
         /\ (\E u : operators[1].id = <<u, 0>>) /\ n # 0 =>
              \A j \in 1..Len(operators) :
                operators[j].id # <<type, FreeNum(operators, type, n)>>
<1> DEFINE L == Len(operators)
           Taken(from, k) == \E j \in from..L : operators[j].id = <<type, k>>
           Next2(k) == ~Taken(2, k) /\ \A m \in (n + 1)..(k - 1) : Taken(2, m)
           N == FreeNum(operators, type, n)
<1>0. L \in Nat /\ L >= 1
  BY LenProperties
<1>1. CASE ~Taken(1, n)
  <2>1. N = n
    BY <1>1 DEF FreeNum
  <2> QED
    BY <1>1, <2>1
<1>2. CASE Taken(1, n)
  <2>1. N = CHOOSE k \in (n + 1)..(n + L) : Next2(k)
    BY <1>2 DEF FreeNum
  <2>2. \E k \in (n + 1)..(n + L) : Next2(k)
    BY SomeNumFree
  <2>3. N \in (n + 1)..(n + L) /\ Next2(N)
    <3> HIDE DEF Next2, N
    <3> QED
      BY <2>1, <2>2
  <2>4. N \in Nat /\ N > n
    <3> HIDE DEF N, L
    <3> QED
      BY <2>3, <1>0
  <2>5. ASSUME NEW u, operators[1].id = <<u, 0>>, NEW j \in 1..L,
               operators[j].id = <<type, N>>
        PROVE  FALSE
    <3>1. CASE j = 1
      <4>2. N = 0
        <5> HIDE DEF N
        <5> QED
          BY <2>5, <3>1
      <4> QED
        BY <4>2, <2>4
    <3>2. CASE j # 1
      <4>1. j \in 2..L
        BY <3>2, <1>0
      <4> QED
        BY <4>1, <2>5, <2>3
    <3> QED
      BY <3>1, <3>2
  <2> QED
    BY <2>4, <2>5
<1> QED
  BY <1>1, <1>2

Types(config) == {config[j].type : j \in DOMAIN config}

\* What the loop keeps in hand: as many operators as were configured, of the
\* same types, and a number for each type.
Shaped(config, d) ==
  /\ d = [ops |-> d.ops, typeMap |-> d.typeMap]
  /\ d.ops \in Seq(Operator) /\ Len(d.ops) = Len(config)
  /\ d.typeMap \in [Types(config) -> Nat]
  /\ \A j \in 1..Len(config) : d.ops[j].type = config[j].type

\* A turn of the loop changes the id of at most one operator, and remembers that
\* its type was met.
LEMMA TurnEffect ==
  ASSUME NEW config \in Seq(Operator), NEW d, Shaped(config, d),
         NEW i \in 1..Len(config)
  PROVE  LET e == Turn(d, i)
             t == config[i].type
         IN  /\ Shaped(config, e)
             /\ \A j \in 1..Len(config) : j # i => e.ops[j] = d.ops[j]
             /\ \A u \in Types(config) : u # t => e.typeMap[u] = d.typeMap[u]
             /\ t \in Types(config)
             /\ ~Unnamed(d.ops[i]) => e = d
             /\ Unnamed(d.ops[i]) /\ d.typeMap[t] = 0 => e.ops = d.ops /\ e.typeMap[t] # 0
             /\ Unnamed(d.ops[i]) /\ d.typeMap[t] # 0 =>
                  /\ e.ops[i].id = <<t, FreeNum(d.ops, t, d.typeMap[t])>>
                  /\ e.typeMap[t] # 0
<1> DEFINE e == Turn(d, i)
           t == config[i].type
           n == FreeNum(d.ops, t, d.typeMap[t])
<1>0. /\ Len(config) \in Nat /\ Len(config) >= 1 /\ DOMAIN config = 1..Len(config)
      /\ t \in Types(config) /\ d.ops[i].type = t /\ d.ops[i] \in Operator
      /\ d.typeMap[t] \in Nat /\ d.ops \in Seq(Operator) /\ Len(d.ops) = Len(config)
      /\ d.typeMap \in [Types(config) -> Nat]
  BY LenProperties DEF Shaped, Types
<1>1. CASE ~Unnamed(d.ops[i])
  <2>1. e = d
    BY <1>1 DEF Turn
  <2> QED
    BY <1>1, <2>1, <1>0
<1>2. CASE Unnamed(d.ops[i]) /\ d.typeMap[t] = 0
  <2>1. e = [d EXCEPT !.typeMap = [@ EXCEPT ![t] = 1]]
    BY <1>2, <1>0 DEF Turn
  <2>2. e = [ops |-> d.ops, typeMap |-> [d.typeMap EXCEPT ![t] = 1]]
    BY <2>1 DEF Shaped
  <2>3. [d.typeMap EXCEPT ![t] = 1] \in [Types(config) -> Nat]
    BY <1>0
  <2>4. e.ops = d.ops /\ e.typeMap = [d.typeMap EXCEPT ![t] = 1]
    BY <2>2
  <2>5. Shaped(config, e)
    BY <2>2, <2>3, <2>4 DEF Shaped
  <2>6. \A u \in Types(config) : u # t => e.typeMap[u] = d.typeMap[u]
    BY <2>4, <1>0
  <2>7. e.typeMap[t] # 0
    BY <2>4, <1>0
  <2> HIDE DEF e
  <2> QED
    BY <1>2, <1>0, <2>4, <2>5, <2>6, <2>7 DEF e
<1>3. CASE Unnamed(d.ops[i]) /\ d.typeMap[t] # 0
  <2> DEFINE o == [d.ops[i] EXCEPT !.id = <<t, n>>]
  <2>1. e = [ops |-> [d.ops EXCEPT ![i] = [@ EXCEPT !.id = <<t, n>>]],
             typeMap |-> [d.typeMap EXCEPT ![t] = n + 1]]
    BY <1>3, <1>0 DEF Turn
  <2>2. n \in Nat
    BY <1>0, FreeNumIsFree
  <2> HIDE DEF n
  <2>3. o \in Operator /\ o.id = <<t, n>> /\ o.type = t
    <3>1. t \in Names
      BY <1>0, PipelineAssumption DEF Operator
    <3> QED
      BY <3>1, <2>2, <1>0 DEF Operator, Ids
  <2>4. e.ops = [d.ops EXCEPT ![i] = o] /\ e.typeMap = [d.typeMap EXCEPT ![t] = n + 1]
    BY <2>1
  <2>5. e = [ops |-> e.ops, typeMap |-> e.typeMap]
    BY <2>1
  <2> HIDE DEF e, o
  <2>6. i \in 1..Len(d.ops)
    BY <1>0
  <2>7. /\ e.ops \in Seq(Operator) /\ Len(e.ops) = Len(d.ops)
        /\ \A j \in 1..Len(d.ops) : e.ops[j] = IF j = i THEN o ELSE d.ops[j]
    BY <2>3, <2>4, <2>6, <1>0, ExceptSeq
  <2>8. n + 1 \in Nat /\ n + 1 # 0
    BY <2>2
  <2>9. /\ e.typeMap \in [Types(config) -> Nat] /\ e.typeMap[t] # 0
        /\ \A u \in Types(config) : u # t => e.typeMap[u] = d.typeMap[u]
    BY <2>4, <2>8, <1>0
  <2>10. \A j \in 1..Len(config) : e.ops[j].type = config[j].type
    BY <2>3, <2>7, <1>0 DEF Shaped
  <2>11. Shaped(config, e)
    BY <2>5, <2>7, <2>9, <2>10, <1>0 DEF Shaped
  <2>12. e.ops[i].id = <<t, n>>
    BY <2>3, <2>7, <2>6
  <2> QED
    BY <1>3, <1>0, <2>7, <2>9, <2>11, <2>12 DEF n, e
<1> QED
  BY <1>1, <1>2, <1>3

\* The operators whose id is settled after i turns: those that were given one and
\* those the loop has come to.
Settled(config, i, j) == ~Unnamed(config[j]) \/ j <= i

\* Two ids are equal only if the loop left both as they were and one was given.
IdsApart(config, operators, j, k) ==
  operators[j].id = operators[k].id =>
    /\ operators[j].id = config[j].id /\ operators[k].id = config[k].id
    /\ ~Unnamed(config[j]) \/ ~Unnamed(config[k])

\* After i turns: given ids are as they were, as are those the loop has not come
\* to; the ids that were made up begin with the type; the types met so far have a
\* number; and the ids settled so far are apart.
Turned(config, d, i) ==
  /\ Shaped(config, d)
  /\ \A j \in 1..Len(config) :
       ~Unnamed(config[j]) \/ j > i => d.ops[j].id = config[j].id
  /\ \A j \in 1..Len(config) :
       Unnamed(config[j]) => \E n \in Nat : d.ops[j].id = <<config[j].type, n>>
  /\ \A j \in 1..Len(config) :
       Unnamed(config[j]) /\ j <= i => d.typeMap[config[j].type] # 0
  /\ i = 0 => \A t \in Types(config) : d.typeMap[t] = 0
  /\ Unnamed(config[1]) => d.ops[1].id = config[1].id
  /\ Unnamed(config[1]) =>
       \A j, k \in 1..Len(config) :
         j # k /\ Settled(config, i, j) /\ Settled(config, i, k) => IdsApart(config, d.ops, j, k)

\* Before the loop ...
LEMMA TurnedFirst ==
  ASSUME NEW config \in Seq(Operator), config # <<>>
  PROVE  Turned(config, NoTurn(config), 0)
<1> DEFINE d == NoTurn(config)
<1>0. Len(config) \in Nat /\ Len(config) >= 1 /\ DOMAIN config = 1..Len(config)
  BY LenProperties, EmptySeq
<1>1. d = [ops |-> config, typeMap |-> [t \in Types(config) |-> 0]]
  BY DEF NoTurn, Types
<1>2. d.ops = config /\ d.typeMap = [t \in Types(config) |-> 0]
  BY <1>1
<1>3. Shaped(config, d)
  BY <1>1, <1>2 DEF Shaped
<1> HIDE DEF d
<1>4. \A j \in 1..Len(config) : ~(j <= 0)
  BY <1>0
<1>5. \A j \in 1..Len(config) : Unnamed(config[j]) =>
        \E n \in Nat : d.ops[j].id = <<config[j].type, n>>
  BY <1>2 DEF Unnamed, Bare
<1>6. \A j, k \in 1..Len(config) :
        j # k /\ Settled(config, 0, j) /\ Settled(config, 0, k) => IdsApart(config, d.ops, j, k)
  BY <1>2, <1>4 DEF Settled, IdsApart
<1>7. \A t \in Types(config) : d.typeMap[t] = 0
  BY <1>2
<1> QED
  BY <1>2, <1>3, <1>4, <1>5, <1>6, <1>7 DEF Turned, d

\* ... and after each turn.
LEMMA TurnedNext ==
  ASSUME NEW config \in Seq(Operator), config # <<>>, NEW d,
         NEW i \in 1..Len(config), Turned(config, d, i - 1)
  PROVE  Turned(config, Turn(d, i), i)
<1> DEFINE e == Turn(d, i)
           t == config[i].type
           P == 1..Len(config)
           n == FreeNum(d.ops, t, d.typeMap[t])
<1>0. Len(config) \in Nat /\ Len(config) >= 1 /\ i \in Nat /\ i >= 1
  BY LenProperties, EmptySeq
<1>1. Shaped(config, d) /\ d.ops \in Seq(Operator) /\ Len(d.ops) = Len(config)
  BY DEF Turned, Shaped
<1>2. /\ Shaped(config, e)
      /\ \A j \in P : j # i => e.ops[j] = d.ops[j]
      /\ \A u \in Types(config) : u # t => e.typeMap[u] = d.typeMap[u]
      /\ t \in Types(config)
      /\ ~Unnamed(d.ops[i]) => e = d
      /\ Unnamed(d.ops[i]) /\ d.typeMap[t] = 0 => e.ops = d.ops /\ e.typeMap[t] # 0
      /\ Unnamed(d.ops[i]) /\ d.typeMap[t] # 0 =>
           e.ops[i].id = <<t, n>> /\ e.typeMap[t] # 0
  BY <1>1, TurnEffect
<1>3. d.ops[i].id = config[i].id
  <2>1. i > i - 1
    BY <1>0
  <2> QED
    BY <2>1 DEF Turned
<1>4. \A j \in P : config[j].type \in Types(config) /\ e.ops[j].type = config[j].type
                   /\ d.ops[j].type = config[j].type
  BY <1>2, <1>1, LenProperties DEF Types, Shaped
<1>5. Unnamed(d.ops[i]) <=> Unnamed(config[i])
  BY <1>3, <1>4 DEF Unnamed
<1>6. n \in Nat /\ d.typeMap[t] \in Nat
  BY <1>0, <1>1, <1>2, FreeNumIsFree DEF Shaped
<1> HIDE DEF e, n
<1>7. ASSUME NEW j \in P, ~Unnamed(config[j]) \/ j > i
      PROVE  e.ops[j].id = config[j].id
  <2>1. d.ops[j].id = config[j].id
    <3>1. ~Unnamed(config[j]) \/ j > i - 1
      BY <1>7, <1>0
    <3> QED
      BY <3>1 DEF Turned
  <2>2. CASE j # i
    BY <2>1, <2>2, <1>2
  <2>3. CASE j = i
    <3>1. ~(j > i)
      BY <2>3, <1>0
    <3>2. e = d
      BY <3>1, <2>3, <1>7, <1>5, <1>2
    <3> QED
      BY <3>2, <2>1
  <2> QED
    BY <2>2, <2>3
<1>8. ASSUME NEW j \in P, Unnamed(config[j])
      PROVE  \E m \in Nat : e.ops[j].id = <<config[j].type, m>>
  <2>1. \E m \in Nat : d.ops[j].id = <<config[j].type, m>>
    BY <1>8 DEF Turned
  <2>2. CASE j # i
    BY <2>1, <2>2, <1>2
  <2>3. CASE j = i /\ d.typeMap[t] = 0
    BY <2>1, <2>3, <1>8, <1>5, <1>2
  <2>4. CASE j = i /\ d.typeMap[t] # 0
    BY <2>4, <1>8, <1>5, <1>6, <1>2
  <2> QED
    BY <2>2, <2>3, <2>4
<1>9. ASSUME NEW j \in P, Unnamed(config[j]), j <= i
      PROVE  e.typeMap[config[j].type] # 0
  <2>1. CASE j = i
    BY <2>1, <1>9, <1>5, <1>2
  <2>2. CASE j # i
    <3>1. j <= i - 1
      BY <2>2, <1>9, <1>0
    <3>2. d.typeMap[config[j].type] # 0
      BY <3>1, <1>9 DEF Turned
    <3>3. CASE config[j].type # t
      BY <3>2, <3>3, <1>2, <1>4
    <3>4. CASE config[j].type = t
      BY <3>2, <3>4, <1>2
    <3> QED
      BY <3>3, <3>4
  <2> QED
    BY <2>1, <2>2
<1>10. ASSUME Unnamed(config[1]) PROVE e.ops[1].id = config[1].id
  <2>1. d.ops[1].id = config[1].id /\ 1 \in P
    BY <1>10, <1>0 DEF Turned
  <2>2. CASE i # 1
    BY <2>1, <2>2, <1>2
  <2>3. CASE i = 1
    <3>1. i - 1 = 0
      BY <2>3
    <3>2. d.typeMap[t] = 0
      BY <3>1, <1>2 DEF Turned
    <3> QED
      BY <3>2, <2>1, <2>3, <1>2
  <2> QED
    BY <2>2, <2>3
<1>11. ASSUME Unnamed(config[1])
       PROVE  \A j, k \in P :
                j # k /\ Settled(config, i, j) /\ Settled(config, i, k)
                  => IdsApart(config, e.ops, j, k)
  <2>1. \A j, k \in P :
          j # k /\ Settled(config, i - 1, j) /\ Settled(config, i - 1, k)
            => IdsApart(config, d.ops, j, k)
    BY <1>11 DEF Turned
  <2>2. \A j \in P : Settled(config, i, j) /\ j # i => Settled(config, i - 1, j)
    BY <1>0 DEF Settled
  <2>3. CASE ~Unnamed(config[i])
    <3>1. e = d /\ Settled(config, i - 1, i)
      BY <2>3, <1>2, <1>5 DEF Settled
    <3> QED
      BY <3>1, <2>1, <2>2
  <2>4. CASE Unnamed(config[i])
    <3>1. ASSUME NEW j \in P, j # i, Settled(config, i - 1, j)
          PROVE  IdsApart(config, e.ops, i, j)
      <4>1. e.ops[j].id = d.ops[j].id
        BY <3>1, <1>2
      <4>2. SUFFICES ASSUME e.ops[i].id = d.ops[j].id
                     PROVE  /\ e.ops[i].id = config[i].id /\ d.ops[j].id = config[j].id
                            /\ ~Unnamed(config[j])
        BY <4>1 DEF IdsApart
      <4>3. CASE d.typeMap[t] = 0
        <5>1. e.ops[i].id = config[i].id /\ config[i].id = <<t, 0>>
          BY <4>3, <2>4, <1>2, <1>3, <1>5 DEF Unnamed, Bare
        <5>2. CASE ~Unnamed(config[j])
          BY <5>1, <5>2 DEF Turned
        <5>3. CASE Unnamed(config[j])
          <6>1. j <= i - 1
            BY <3>1, <5>3 DEF Settled
          <6>2. d.typeMap[config[j].type] # 0
            BY <6>1, <5>3 DEF Turned
          <6>3. PICK m \in Nat : d.ops[j].id = <<config[j].type, m>>
            BY <5>3 DEF Turned
          <6>4. config[j].type = t
            BY <6>3, <5>1, <4>2
          <6> QED
            BY <6>2, <6>4, <4>3
        <5> QED
          BY <5>2, <5>3
      <4>4. CASE d.typeMap[t] # 0
        <5>1. e.ops[i].id = <<t, n>>
          BY <4>4, <2>4, <1>2, <1>5
        <5>2. \E u : d.ops[1].id = <<u, 0>>
          BY <1>11 DEF Turned, Unnamed, Bare
        <5>3. \A k \in 1..Len(d.ops) : d.ops[k].id # <<t, n>>
          BY <5>2, <4>4, <1>0, <1>1, <1>6, FreeNumIsFree DEF n
        <5> QED
          BY <5>1, <5>3, <4>2, <1>1
      <4> QED
        BY <4>3, <4>4
    <3>2. ASSUME NEW j \in P, NEW k \in P, j # i, k # i, j # k,
                 Settled(config, i, j), Settled(config, i, k)
          PROVE  IdsApart(config, e.ops, j, k)
      <4>1. IdsApart(config, d.ops, j, k)
        BY <3>2, <2>1, <2>2
      <4> QED
        BY <4>1, <3>2, <1>2 DEF IdsApart
    <3>3. \A j, k \in P : IdsApart(config, e.ops, j, k) => IdsApart(config, e.ops, k, j)
      BY DEF IdsApart
    <3> QED
      BY <3>1, <3>2, <3>3, <2>2
  <2> QED
    BY <2>3, <2>4
<1>12. i # 0
  BY <1>0
<1>13. Turned(config, e, i)
  BY <1>2, <1>7, <1>8, <1>9, <1>10, <1>11, <1>12 DEF Turned
<1> QED
  BY <1>13 DEF e

\* What dedeplucateIDs returns: as many operators, of the same types, with the
\* given ids and others that begin with the type, which are apart.
LEMMA DeduplicatedIds ==
  ASSUME NEW config \in Seq(Operator), config # <<>>
  PROVE  LET all == Deduplicated(config)
         IN  /\ all \in Seq(Operator) /\ Len(all) = Len(config)
             /\ \A j \in 1..Len(config) :
                  IF Unnamed(config[j])
                  THEN \E n \in Nat : all[j].id = <<config[j].type, n>>
                  ELSE all[j].id = config[j].id
             /\ Unnamed(config[1]) =>
                  \A j, k \in 1..Len(config) : j # k => IdsApart(config, all, j, k)
<1>0. Len(config) \in Nat /\ Len(config) >= 1
  BY LenProperties, EmptySeq
<1>1. PICK f : Turns(config, f) /\ Deduplicated(config) = f[Len(config)].ops
  BY <1>0, TurnsExist
<1> DEFINE T == {i \in Nat : i <= Len(config) => Turned(config, f[i], i)}
<1>2. 0 \in T
  <2>1. f[0] = NoTurn(config)
    BY <1>1, <1>0 DEF Turns
  <2> QED
    BY <2>1, TurnedFirst
<1>3. ASSUME NEW n \in Nat, n \in T PROVE n + 1 \in T
  <2> SUFFICES ASSUME n + 1 <= Len(config)
               PROVE  Turned(config, f[n + 1], n + 1)
    OBVIOUS
  <2>1. n + 1 \in 1..Len(config) /\ n + 1 - 1 = n /\ n <= Len(config) /\ n + 1 # 0
        /\ n + 1 \in 0..Len(config)
    BY <1>0
  <2>2. f[n + 1] = Turn(f[n], n + 1)
    <3>1. f[n + 1] = IF n + 1 = 0 THEN NoTurn(config) ELSE Turn(f[n + 1 - 1], n + 1)
      BY <1>1, <2>1 DEF Turns
    <3> QED
      BY <3>1, <2>1
  <2>3. Turned(config, f[n], n + 1 - 1)
    BY <1>3, <2>1
  <2> QED
    BY <2>1, <2>2, <2>3, TurnedNext
<1>4. Turned(config, f[Len(config)], Len(config))
  <2>1. Len(config) \in T
    <3> HIDE DEF T
    <3> QED
      BY <1>0, <1>2, <1>3, SetInduction
  <2> QED
    BY <2>1, <1>0
<1>5. \A j \in 1..Len(config) : Settled(config, Len(config), j)
  BY <1>0 DEF Settled
<1> QED
  BY <1>1, <1>4, <1>5 DEF Turned, Shaped

-----------------------------------------------------------------------------
(* Default outputs *)

\* SetOutputIDs leaves the id alone.
LEMMA SetOutputIDsKeeps ==
  ASSUME NEW op \in Operator, NEW id \in Ids
  PROVE  SetOutputIDs(op, id) \in Operator /\ SetOutputIDs(op, id).id = op.id
<1>1. CASE op.kind \in {"router", "output"}
  BY <1>1 DEF SetOutputIDs
<1>2. CASE op.kind \notin {"router", "output"}
  <2>1. SetOutputIDs(op, id) = [op EXCEPT !.outputs = <<<<id>>>>]
    BY <1>2 DEF SetOutputIDs
  <2>2. <<<<id>>>> \in Seq(Seq(Ids))
    OBVIOUS
  <2> QED
    BY <2>1, <2>2 DEF Operator
<1> QED
  BY <1>1, <1>2

\* Build gives no operator another id, and adds at most the default output.
LEMMA DefaultedIds ==
  ASSUME NEW operators \in Seq(Operator), operators # <<>>
  PROVE  LET all == Defaulted(operators)
             n   == Len(operators)
         IN  /\ all \in Seq(Operator) /\ Len(all) \in {n, n + 1}
             /\ \A i \in 1..n : all[i].id = operators[i].id
             /\ Len(all) = n + 1 => all[n + 1].id = Bare("default")
<1> DEFINE n == Len(operators)
           needed == /\ DefaultOutput /\ operators[n].kind # "output"
                     /\ GetOutputIDs(operators[n]) = <<>>
           some == IF needed THEN Append(operators, TheDefaultOutput) ELSE operators
           Next1(i) == IF GetOutputIDs(some[i]) # <<>> \/ i = Len(some)
                       THEN some[i]
                       ELSE SetOutputIDs(some[i], some[i + 1].id)
           all == Defaulted(operators)
<1>0. n \in Nat
  BY LenProperties
<1>1. TheDefaultOutput \in Operator /\ TheDefaultOutput.id = Bare("default")
  <2>1. <<>> \in Seq(Seq(Ids))
    OBVIOUS
  <2>2. "output" \in Kinds /\ "send" \in {"send", "drop"} /\ Bare("default") \in Ids
    BY PipelineAssumption DEF Kinds, Bare, Ids
  <2>3. FALSE \in BOOLEAN
    OBVIOUS
  <2>4. TheDefaultOutput \in Operator
    BY <2>1, <2>2, <2>3, PipelineAssumption DEF TheDefaultOutput, Operator
  <2>5. TheDefaultOutput.id = Bare("default")
    BY DEF TheDefaultOutput
  <2> QED
    BY <2>4, <2>5
<1>2. all = [i \in 1..Len(some) |-> Next1(i)]
  BY DEF Defaulted
<1>3. /\ some \in Seq(Operator) /\ Len(some) \in {n, n + 1}
      /\ \A i \in 1..n : some[i] = operators[i]
      /\ Len(some) = n + 1 => some[n + 1] = TheDefaultOutput
  <2>1. CASE needed
    <3>1. some = Append(operators, TheDefaultOutput)
      BY <2>1
    <3> HIDE DEF some
    <3> QED
      BY <3>1, <1>1, AppendProperties
  <2>2. CASE ~needed
    <3>1. some = operators
      BY <2>2
    <3>2. n # n + 1
      BY <1>0
    <3> HIDE DEF some
    <3> QED
      BY <3>1, <3>2
  <2> QED
    BY <2>1, <2>2
<1> HIDE DEF some, all
<1>4. Len(some) \in Nat /\ \A i \in 1..Len(some) : some[i] \in Operator
  BY <1>3, LenProperties, ElementOfSeq
<1>5. ASSUME NEW i \in 1..Len(some)
      PROVE  Next1(i) \in Operator /\ Next1(i).id = some[i].id
  <2>1. CASE GetOutputIDs(some[i]) # <<>> \/ i = Len(some)
    BY <2>1, <1>4
  <2>2. CASE ~(GetOutputIDs(some[i]) # <<>> \/ i = Len(some))
    <3>1. i + 1 \in 1..Len(some)
      BY <2>2, <1>4
    <3>2. some[i] \in Operator /\ some[i + 1] \in Operator
      BY <3>1, <1>4
    <3>3. some[i + 1].id \in Ids
      BY <3>2 DEF Operator
    <3>4. Next1(i) = SetOutputIDs(some[i], some[i + 1].id)
      BY <2>2
    <3> QED
      BY <3>2, <3>3, <3>4, SetOutputIDsKeeps
  <2> QED
    BY <2>1, <2>2
<1> HIDE DEF Next1
<1>6. all \in Seq(Operator) /\ Len(all) = Len(some)
  BY <1>2, <1>4, <1>5
<1>7. \A i \in 1..Len(some) : all[i].id = some[i].id
  BY <1>2, <1>5
<1>8. \A i \in 1..n : i \in 1..Len(some)
  BY <1>0, <1>3
<1>9. Len(some) = n + 1 => n + 1 \in 1..Len(some)
  BY <1>0
<1> QED
  BY <1>1, <1>3, <1>6, <1>7, <1>8, <1>9 DEF all

\* What Build makes of a configuration.
Built == Defaulted(Deduplicated(given))

\* The operators Build makes, and their ids.
LEMMA BuiltIds ==
  ASSUME given \in Configs
  PROVE  /\ Built \in Seq(Operator) /\ Built # <<>>
         /\ Unnamed(given[1]) =>
              \A i, j \in 1..Len(Built) : i # j /\ Built[i].id = Built[j].id =>
                /\ \A k \in {i, j} \cap DOMAIN given : Built[k].id = given[k].id
                /\ \E k \in {i, j} \cap DOMAIN given : ~Unnamed(given[k])
<1> DEFINE dd == Deduplicated(given)
           n == Len(given)
<1>0. given \in Seq(Operator) /\ given # <<>>
  BY PipelineAssumption
<1>1. /\ dd \in Seq(Operator) /\ Len(dd) = n /\ n \in Nat /\ n # 0
      /\ \A j \in 1..n : IF Unnamed(given[j])
                         THEN \E m \in Nat : dd[j].id = <<given[j].type, m>>
                         ELSE dd[j].id = given[j].id
      /\ Unnamed(given[1]) => \A j, k \in 1..n : j # k => IdsApart(given, dd, j, k)
  BY <1>0, DeduplicatedIds, LenProperties, EmptySeq
<1> HIDE DEF dd
<1>2. dd # <<>>
  BY <1>1, EmptySeq
<1>3. /\ Built \in Seq(Operator) /\ Len(Built) \in {n, n + 1}
      /\ \A i \in 1..n : Built[i].id = dd[i].id
      /\ Len(Built) = n + 1 => Built[n + 1].id = Bare("default")
  BY <1>1, <1>2, DefaultedIds DEF Built, dd
<1>4. Built # <<>>
  BY <1>1, <1>3, EmptySeq
<1>5. DOMAIN given = 1..n /\ n + 1 \notin 1..n
  BY <1>0, <1>1, LenProperties
<1>6. ASSUME NEW i \in 1..n, dd[i].id = Bare("default")
      PROVE  dd[i].id = given[i].id /\ ~Unnamed(given[i])
  <2>1. SUFFICES ASSUME Unnamed(given[i]) PROVE FALSE
    BY <1>1
  <2>2. PICK m \in Nat : dd[i].id = <<given[i].type, m>>
    BY <2>1, <1>1
  <2>3. given[i].type # "default"
    BY PipelineAssumption
  <2> QED
    BY <2>2, <2>3, <1>6 DEF Bare
<1>7. ASSUME Unnamed(given[1]), NEW i \in 1..Len(Built), NEW j \in 1..Len(Built),
             i # j, Built[i].id = Built[j].id
      PROVE  /\ \A k \in {i, j} \cap DOMAIN given : Built[k].id = given[k].id
             /\ \E k \in {i, j} \cap DOMAIN given : ~Unnamed(given[k])
  <2>1. (i \in 1..n \/ (i = n + 1 /\ Len(Built) = n + 1))
        /\ (j \in 1..n \/ (j = n + 1 /\ Len(Built) = n + 1))
    BY <1>1, <1>3
  <2>2. CASE i \in 1..n /\ j \in 1..n
    <3>1. IdsApart(given, dd, i, j) /\ dd[i].id = dd[j].id
      BY <2>2, <1>1, <1>3, <1>7
    <3> QED
      BY <3>1, <2>2, <1>3, <1>5 DEF IdsApart
  <2>3. CASE i \in 1..n /\ j = n + 1 /\ Len(Built) = n + 1
    <3>1. dd[i].id = Bare("default")
      BY <2>3, <1>3, <1>7
    <3> QED
      BY <3>1, <2>3, <1>3, <1>5, <1>6
  <2>4. CASE j \in 1..n /\ i = n + 1 /\ Len(Built) = n + 1
    <3>1. dd[j].id = Bare("default")
      BY <2>4, <1>3, <1>7
    <3> QED
      BY <3>1, <2>4, <1>3, <1>5, <1>6
  <2> QED
    BY <2>1, <2>2, <2>3, <2>4, <1>7
<1> QED
  BY <1>3, <1>4, <1>7

-----------------------------------------------------------------------------
(* The operators of a pipeline are the ones Build made. *)
Configured == given \in Configs /\ (stage # "configured" => ops = Built)

\* Nothing but Build changes them.
LEMMA ConfiguredNext ==
  ASSUME Configured, [Next]_vars
  PROVE  Configured'
<1>1. CASE Build
  BY <1>1 DEF Build, Configured, Built
<1>2. CASE UNCHANGED vars
  BY <1>2 DEF vars, buildVars, loopVars, Configured, Built
<1>3. ASSUME NEW g, Step(g) PROVE UNCHANGED buildVars /\ UNCHANGED loopVars
  BY <1>3 DEF Step, Return, Process, ProcessOutput, ProcessParser, ProcessFilter,
     ProcessRouter, RecombineError, RecombineAdd, RecombineFlush
<1>4. ASSUME NEW i, NewEntry(i) \/ Tick(i) PROVE UNCHANGED buildVars /\ UNCHANGED loopVars
  BY <1>4 DEF NewEntry, Tick
<1>5. ASSUME StopNext PROVE UNCHANGED buildVars
  BY <1>5 DEF StopNext, StopOperator, StopBasic, CancelInput, WaitForInput,
     StopUnstarted, StopRecombine
<1>6. ASSUME Start \/ StartOperator \/ StartError \/ Stop
      PROVE  UNCHANGED buildVars /\ stage # "configured"
  BY <1>6 DEF Start, StartOperator, StartError, Stop
<1>7. ASSUME UNCHANGED buildVars, stage # "configured" \/ UNCHANGED stage PROVE Configured'
  BY <1>7 DEF buildVars, Configured, Built
<1>8. CASE Start \/ StartOperator \/ StartError \/ Stop
  BY <1>8, <1>6, <1>7
<1>9. CASE Running /\ StopNext
  BY <1>9, <1>5, <1>7 DEF Running
<1>10. CASE Running /\ \E i \in Positions : NewEntry(i) \/ Tick(i)
  BY <1>10, <1>4, <1>7 DEF Running
<1>11. CASE \E g \in DOMAIN stacks : Step(g)
  BY <1>11, <1>3, <1>7 DEF loopVars
<1> QED
  BY <1>1, <1>2, <1>8, <1>9, <1>10, <1>11 DEF Next

\* So they are in every state.
LEMMA ConfiguredCorrect == Spec => []Configured
<1>1. Init => Configured
  BY DEF Init, Configured
<1> QED
  BY <1>1, ConfiguredNext, PTL DEF Spec

\* The ids dedeplucateIDs makes up are no other operator's, for every configuration
\* whose first operator has none: the search for an id that goes on at the second
\* operator misses none.  Equal ids were equal before, and one of them was given.
THEOREM IdsDistinctCorrect == Spec => []IdsDistinct
<1>1. Configured => IdsDistinct
  BY BuiltIds DEF Configured, IdsDistinct, Positions
<1> QED
  BY <1>1, ConfiguredCorrect, PTL

-----------------------------------------------------------------------------
(* The invariant of a pipeline that runs.  A syslog input is not among the     *)
(* operators: the order of starting and stopping does not know what it calls.  *)

NoSyslog == \A i \in Positions : ~Is(i, {"syslog"})

Targets(operators) ==
  {i \in 1..Len(operators) : operators[i].kind \notin {"input", "syslog"}}

\* Every output is an operator that takes entries.
Wired ==
  \A i \in Positions : \A r \in DOMAIN outs[i] : outs[i][r] \in Seq(Targets(ops))

Domains ==
  /\ Len(ops) \in Nat
  /\ life \in [Positions -> {"built", "started", "stopped"}]
  /\ DOMAIN stacks = Goroutines /\ DOMAIN lock = Positions /\ DOMAIN batch = Positions

\* What a running operator calls is running.
OutputsStarted ==
  \A i \in Positions : life[i] = "started" =>
    \A o \in CalledBy(outs, i) : life[o] = "started"

\* Nothing is left that calls the operator the loop of stop is at.
CallersStopped ==
  current # NoOne =>
    /\ current \in Positions /\ stage = "stopping"
    /\ \A j \in Positions : current \in CalledBy(outs, j) => life[j] = "stopped"

\* A recombine operator that holds entries is running.
BatchesLive ==
  \A i \in Positions : Is(i, {"recombine"}) /\ batch[i] # <<>> => life[i] = "started"

Frame(f) ==
  /\ f = [op |-> f.op, pending |-> f.pending, route |-> f.route, todo |-> f.todo]
  /\ f.op \in Positions /\ life[f.op] = "started"
  /\ f.todo \in Seq(CalledBy(outs, f.op))

\* Where the calls of a goroutine begin: at its own operator, or, in the loop of
\* stop, at the recombine operator that is being stopped.
Root(g, i) ==
  IF g = Main THEN i = current /\ Is(i, {"recombine"})
              ELSE i = g /\ Is(i, {"input", "recombine"})

\* The calls of a goroutine: each operator calls the next.
CallChain(g, s) ==
  /\ \E S : s \in Seq(S)
  /\ \A k \in 1..Len(s) : Frame(s[k])
  /\ \A k \in 2..Len(s) : s[k].op \in CalledBy(outs, s[k - 1].op)
  /\ s # <<>> => Root(g, s[1].op)

\* A goroutine is at most once in a recombine operator, and has its lock.
Holding(g, s, l) ==
  \A k \in 1..Len(s) : Is(s[k].op, {"recombine"}) =>
    /\ l[s[k].op] = g
    /\ \A m \in 1..Len(s) : s[m].op = s[k].op => m = k

AllStacks ==
  \A g \in Goroutines : CallChain(g, stacks[g]) /\ Holding(g, stacks[g], lock)

PipelineInv ==
  /\ Domains /\ Wired /\ NoSyslog
  /\ OutputsStarted /\ CallersStopped /\ BatchesLive /\ AllStacks

-----------------------------------------------------------------------------
(* Stacks *)

\* What an operator calls takes entries.
LEMMA CalledAreTargets ==
  ASSUME Wired, NEW i \in Positions
  PROVE  CalledBy(outs, i) \subseteq Targets(ops)
<1> SUFFICES ASSUME NEW r \in DOMAIN outs[i], NEW o \in Range(outs[i][r])
             PROVE  o \in Targets(ops)
  BY DEF CalledBy
<1>1. outs[i][r] \in Seq(Targets(ops))
  BY DEF Wired
<1> QED
  BY <1>1, RangeOfSeq

\* An operator that starts to write calls its outputs.
LEMMA WritingIsFrame ==
  ASSUME Wired, NEW i \in Positions, life[i] = "started", NEW x, NEW r
  PROVE  Frame(Writing(i, x, r)) /\ Writing(i, x, r).op = i
<1> DEFINE f == Writing(i, x, r)
<1>1. OutputsOf(i, r) \in Seq(CalledBy(outs, i))
  <2>1. CASE r \in DOMAIN outs[i]
    <3>1. outs[i][r] \in Seq(Targets(ops))
      BY <2>1 DEF Wired
    <3>2. outs[i][r] \in Seq(Range(outs[i][r]))
      BY <3>1, SeqOfRange
    <3>3. Range(outs[i][r]) \subseteq CalledBy(outs, i)
      BY <2>1 DEF CalledBy
    <3>4. outs[i][r] \in Seq(CalledBy(outs, i))
      BY <3>2, <3>3, SeqMonotonic
    <3> QED
      BY <2>1, <3>4 DEF OutputsOf
  <2>2. CASE r \notin DOMAIN outs[i]
    BY <2>2, EmptySeq DEF OutputsOf
  <2> QED
    BY <2>1, <2>2
<1>2. <<>> \in Seq(CalledBy(outs, i))
  BY EmptySeq
<1> QED
  BY <1>1, <1>2 DEF Writing, Frame

\* One output is done.
LEMMA ReturnedChain ==
  ASSUME NEW g, NEW s, CallChain(g, s), s # <<>>, s[Len(s)].todo # <<>>
  PROVE  LET t == [s EXCEPT ![Len(s)].todo = Tail(@)]
         IN  /\ CallChain(g, t) /\ Len(t) = Len(s)
             /\ \A k \in 1..Len(s) : t[k].op = s[k].op
<1> DEFINE n == Len(s)
           f == s[n]
           h == [f EXCEPT !.todo = Tail(@)]
           t == [s EXCEPT ![n].todo = Tail(@)]
<1>1. PICK S : s \in Seq(S)
  BY DEF CallChain
<1>2. n \in Nat /\ n >= 1 /\ n \in 1..n
  BY <1>1, LenProperties, EmptySeq
<1>3. Frame(f)
  BY <1>2 DEF CallChain
<1>4. Tail(f.todo) \in Seq(CalledBy(outs, f.op))
  BY <1>3, HeadTailProperties DEF Frame
<1>5. h = [op |-> f.op, pending |-> f.pending, route |-> f.route, todo |-> Tail(f.todo)]
  BY <1>3, SMTT(30) DEF Frame
<1>6. h.op = f.op /\ Frame(h)
  BY <1>3, <1>4, <1>5 DEF Frame
<1>7. t = [s EXCEPT ![n] = h]
  OBVIOUS
<1>8. s \in Seq(S \cup {h})
  BY <1>1, SeqMonotonic
<1> HIDE DEF h, t
<1>9. /\ t \in Seq(S \cup {h}) /\ Len(t) = n
      /\ \A k \in 1..n : t[k] = IF k = n THEN h ELSE s[k]
  BY <1>2, <1>7, <1>8, ExceptSeq
<1>10. \A k \in 1..n : t[k].op = s[k].op
  BY <1>6, <1>9
<1>11. \A k \in 1..n : Frame(t[k])
  BY <1>6, <1>9 DEF CallChain
<1>12. \A k \in 2..n : t[k].op \in CalledBy(outs, t[k - 1].op)
  <2>1. \A k \in 2..n : k \in 1..n /\ k - 1 \in 1..n
    BY <1>2
  <2> QED
    BY <1>10, <2>1 DEF CallChain
<1>13. Root(g, t[1].op)
  BY <1>2, <1>10 DEF CallChain
<1>14. CallChain(g, t)
  BY <1>9, <1>11, <1>12, <1>13 DEF CallChain
<1> QED
  BY <1>9, <1>10, <1>14 DEF t

\* A call is added.
LEMMA EnteredChain ==
  ASSUME NEW g, NEW s, CallChain(g, s), s # <<>>,
         NEW c, Frame(c), c.op \in CalledBy(outs, s[Len(s)].op)
  PROVE  LET t == Append(s, c)
         IN  /\ CallChain(g, t) /\ Len(t) = Len(s) + 1
             /\ \A k \in 1..Len(s) : t[k] = s[k]
             /\ t[Len(s) + 1] = c
<1> DEFINE n == Len(s)
           t == Append(s, c)
<1>1. PICK S : s \in Seq(S)
  BY DEF CallChain
<1>2. n \in Nat /\ n >= 1
  BY <1>1, LenProperties, EmptySeq
<1>3. s \in Seq(S \cup {c})
  BY <1>1, SeqMonotonic
<1>4. /\ t \in Seq(S \cup {c}) /\ Len(t) = n + 1
      /\ \A k \in 1..n : t[k] = s[k]
      /\ t[n + 1] = c
  BY <1>3, AppendProperties
<1> HIDE DEF t
<1>5. \A k \in 1..Len(t) : Frame(t[k])
  <2>1. \A k \in 1..Len(t) : k \in 1..n \/ k = n + 1
    BY <1>2, <1>4
  <2> QED
    BY <2>1, <1>4 DEF CallChain
<1>6. ASSUME NEW k \in 2..Len(t) PROVE t[k].op \in CalledBy(outs, t[k - 1].op)
  <2>1. k \in 2..n \/ k = n + 1
    BY <1>2, <1>4
  <2>2. CASE k \in 2..n
    <3>1. k \in 1..n /\ k - 1 \in 1..n
      BY <2>2, <1>2
    <3> QED
      BY <2>2, <3>1, <1>4 DEF CallChain
  <2>3. CASE k = n + 1
    <3>1. k - 1 = n /\ n \in 1..n
      BY <2>3, <1>2
    <3> QED
      BY <2>3, <3>1, <1>4
  <2> QED
    BY <2>1, <2>2, <2>3
<1>7. Root(g, t[1].op)
  <2>1. t[1] = s[1]
    BY <1>2, <1>4
  <2> QED
    BY <2>1 DEF CallChain
<1> QED
  BY <1>4, <1>5, <1>6, <1>7 DEF CallChain, t

\* A call returns.
LEMMA FrontChain ==
  ASSUME NEW g, NEW s, CallChain(g, s), s # <<>>
  PROVE  LET t == Front(s)
         IN  /\ CallChain(g, t) /\ Len(t) = Len(s) - 1
             /\ \A k \in 1..(Len(s) - 1) : t[k] = s[k]
<1> DEFINE n == Len(s)
           t == Front(s)
<1>1. PICK S : s \in Seq(S)
  BY DEF CallChain
<1>2. n \in Nat /\ n >= 1 /\ n - 1 \in Nat
  BY <1>1, LenProperties, EmptySeq
<1>3. /\ t \in Seq(S) /\ Len(t) = n - 1
      /\ \A k \in 1..(n - 1) : t[k] = s[k]
  <2>1. \A i \in 1..(n - 1) : s[i] \in S
    BY <1>1, <1>2, ElementOfSeq
  <2>2. t = SubSeq(s, 1, n - 1)
    BY DEF Front
  <2>3. /\ SubSeq(s, 1, n - 1) \in Seq(S)
        /\ Len(SubSeq(s, 1, n - 1)) = IF 1 <= n - 1 THEN n - 1 - 1 + 1 ELSE 0
        /\ \A i \in 1..(n - 1 - 1 + 1) : SubSeq(s, 1, n - 1)[i] = s[1 + i - 1]
    <3>1. 1 \in Int /\ n - 1 \in Int
      BY <1>2
    <3> QED
      BY <2>1, <3>1, SubSeqProperties
  <2> HIDE DEF n, t
  <2>4. n - 1 - 1 + 1 = n - 1 /\ (~(1 <= n - 1) => n - 1 = 0)
        /\ \A i \in 1..(n - 1) : 1 + i - 1 = i
    BY <1>2
  <2>5. Len(t) = n - 1
    BY <2>2, <2>3, <2>4
  <2>6. \A i \in 1..(n - 1) : t[i] = s[1 + i - 1]
    BY <2>2, <2>3, <2>4
  <2> QED
    BY <2>2, <2>3, <2>4, <2>5, <2>6
<1> HIDE DEF t
<1>4. \A k \in 1..Len(t) : Frame(t[k])
  <2>1. \A k \in 1..Len(t) : k \in 1..n /\ k \in 1..(n - 1)
    BY <1>2, <1>3
  <2> QED
    BY <2>1, <1>3 DEF CallChain
<1>5. \A k \in 2..Len(t) : t[k].op \in CalledBy(outs, t[k - 1].op)
  <2>1. \A k \in 2..Len(t) : k \in 2..n /\ k \in 1..(n - 1) /\ k - 1 \in 1..(n - 1)
    BY <1>2, <1>3
  <2> QED
    BY <2>1, <1>3 DEF CallChain
<1>6. t # <<>> => Root(g, t[1].op)
  <2> SUFFICES ASSUME t # <<>> PROVE Root(g, t[1].op)
    OBVIOUS
  <2>1. 1 \in 1..(n - 1)
    BY <1>2, <1>3, EmptySeq
  <2>2. t[1] = s[1]
    BY <2>1, <1>3
  <2> QED
    BY <2>2 DEF CallChain
<1> QED
  BY <1>3, <1>4, <1>5, <1>6 DEF CallChain, t

\* The first call of a goroutine.
LEMMA FirstChain ==
  ASSUME NEW g, NEW c, Frame(c), Root(g, c.op)
  PROVE  CallChain(g, <<c>>)
<1>1. <<c>> \in Seq({c}) /\ Len(<<c>>) = 1 /\ <<c>>[1] = c
  OBVIOUS
<1>2. \A k \in 1..1 : k = 1
  OBVIOUS
<1>3. \A k \in 2..1 : FALSE
  OBVIOUS
<1> QED
  BY <1>1, <1>2, <1>3 DEF CallChain

\* The lock of an operator that is free, or that goroutine g has, is no other
\* goroutine's.
LEMMA OthersHolding ==
  ASSUME Domains, NEW g \in Goroutines, NEW h \in Goroutines, h # g, NEW s,
         Holding(h, s, lock), NEW o, lock[o] = NoOne \/ lock[o] = g, NEW v,
         \A k \in 1..Len(s) : s[k].op \in Positions
  PROVE  Holding(h, s, [lock EXCEPT ![o] = v])
<1>1. h # NoOne
  BY DEF Domains, Goroutines, Positions, Main, NoOne
<1>2. ASSUME NEW k \in 1..Len(s), Is(s[k].op, {"recombine"})
      PROVE  [lock EXCEPT ![o] = v][s[k].op] = h
  <2>1. lock[s[k].op] = h /\ s[k].op \in DOMAIN lock
    BY <1>2 DEF Holding, Domains
  <2>2. s[k].op # o
    BY <2>1, <1>1
  <2> QED
    BY <2>1, <2>2
<1> QED
  BY <1>2 DEF Holding

\* The operators of a stack matter, not what is left to write.
LEMMA SameHolding ==
  ASSUME NEW g, NEW s, NEW t, NEW l, Holding(g, s, l), Len(t) = Len(s),
         \A k \in 1..Len(s) : t[k].op = s[k].op
  PROVE  Holding(g, t, l)
  BY DEF Holding

\* No goroutine is in a recombine operator whose lock is free.
LEMMA FreeNotEntered ==
  ASSUME Domains, NEW g \in Goroutines, NEW s, Holding(g, s, lock),
         NEW o, Is(o, {"recombine"}), lock[o] = NoOne, NEW k \in 1..Len(s)
  PROVE  s[k].op # o
<1>1. g # NoOne
  BY DEF Domains, Goroutines, Positions, Main, NoOne
<1> QED
  BY <1>1 DEF Holding

\* A chain of calls in a step that starts and stops nothing.
LEMMA ChainNext ==
  ASSUME UNCHANGED <<ops, outs, life, current>>, NEW h, NEW s, CallChain(h, s),
         s = stacks'[h]
  PROVE  CallChain(h, stacks[h])'
  BY DEF CallChain, Frame, Root, Is, Positions

\* A step of a goroutine: it changes its own stack.
LEMMA FlowStep ==
  ASSUME PipelineInv, UNCHANGED <<ops, outs, stage, life, current>>,
         NEW g \in Goroutines, NEW s, stacks' = [stacks EXCEPT ![g] = s],
         CallChain(g, s), Holding(g, s, lock'),
         \A h \in Goroutines : h # g => Holding(h, stacks[h], lock'),
         DOMAIN lock' = Positions, DOMAIN batch' = Positions,
         \A i \in Positions :
           Is(i, {"recombine"}) /\ batch'[i] # <<>> => life[i] = "started"
  PROVE  PipelineInv'
<1>0. Positions' = Positions /\ Goroutines' = Goroutines
  BY DEF Positions, Goroutines
<1>1. \A i, kinds : Is(i, kinds)' <=> Is(i, kinds)
  BY DEF Is
<1>2. Domains'
  BY <1>0 DEF Domains, PipelineInv
<1>3. Wired' /\ NoSyslog'
  BY <1>0 DEF Wired, NoSyslog, Is, Targets, PipelineInv
<1>4. OutputsStarted' /\ CallersStopped'
  BY <1>0 DEF OutputsStarted, CallersStopped, PipelineInv
<1>5. BatchesLive'
  BY <1>0 DEF BatchesLive, Is
<1>6. ASSUME NEW h \in Goroutines
      PROVE  CallChain(h, stacks[h])' /\ Holding(h, stacks[h], lock)'
  <2>1. PICK t : t = stacks'[h]
    OBVIOUS
  <2>2. t = IF h = g THEN s ELSE stacks[h]
    BY <2>1 DEF PipelineInv, Domains
  <2>3. CallChain(h, t) /\ Holding(h, t, lock')
    BY <2>2 DEF PipelineInv, AllStacks
  <2>4. CallChain(h, stacks[h])'
    BY <2>1, <2>3, ChainNext
  <2>5. Holding(h, stacks[h], lock)'
    BY <2>1, <2>3 DEF Holding, Is
  <2> QED
    BY <2>4, <2>5
<1> QED
  BY <1>0, <1>2, <1>3, <1>4, <1>5, <1>6 DEF PipelineInv, AllStacks

-----------------------------------------------------------------------------
(* Entries on their way *)

\* What the calls of Process have in common: an entry is put away, or the called
\* operator goes on, with its lock if it has one.
CallMade(g, o) ==
  /\ Calls(g, o)
  /\ UNCHANGED <<ops, outs, stage, life, current>>
  /\ \/ stacks' = Skipped(g) /\ lock' = lock
     \/ \E x, r : /\ stacks' = Entered(g, Writing(o, x, r))
                  /\ \/ ~Is(o, {"recombine"}) /\ lock' = lock
                     \/ /\ Is(o, {"recombine"}) /\ lock[o] = NoOne
                        /\ lock' = [lock EXCEPT ![o] = g]
  /\ batch' = batch \/ \E b : batch' = [batch EXCEPT ![o] = b]

\* So it is in every operator ...
LEMMA ProcessCalls ==
  ASSUME NEW g, NEW o, Process(g, o)
  PROVE  CallMade(g, o)
<1> USE DEF buildVars, loopVars, CallMade
<1>1. CASE ProcessOutput(g, o)
  BY <1>1 DEF ProcessOutput
<1>2. CASE ProcessParser(g, o)
  <2>1. \E x : stacks' = Entered(g, Writing(o, x, 1))
    BY <1>2 DEF ProcessParser
  <2>2. ~Is(o, {"recombine"})
    BY <1>2 DEF ProcessParser, Is
  <2> QED
    BY <1>2, <2>1, <2>2 DEF ProcessParser
<1>3. CASE ProcessFilter(g, o)
  <2>1. ~Is(o, {"recombine"})
    BY <1>3 DEF ProcessFilter, Is
  <2> QED
    BY <1>3, <2>1 DEF ProcessFilter
<1>4. CASE ProcessRouter(g, o)
  <2>1. stacks' = Skipped(g) \/ \E x, r : stacks' = Entered(g, Writing(o, x, r))
    BY <1>4 DEF ProcessRouter
  <2>2. ~Is(o, {"recombine"})
    BY <1>4 DEF ProcessRouter, Is
  <2> QED
    BY <1>4, <2>1, <2>2 DEF ProcessRouter
<1>5. CASE RecombineError(g, o)
  BY <1>5 DEF RecombineError
<1>6. CASE RecombineAdd(g, o)
  BY <1>6 DEF RecombineAdd
<1>7. CASE RecombineFlush(g, o)
  <2>1. \E x : stacks' = Entered(g, Writing(o, x, 1))
    BY <1>7 DEF RecombineFlush
  <2>2. \E b : batch' = [batch EXCEPT ![o] = b]
    BY <1>7 DEF RecombineFlush
  <2> QED
    BY <1>7, <2>1, <2>2 DEF RecombineFlush
<1> QED
  BY <1>1, <1>2, <1>3, <1>4, <1>5, <1>6, <1>7 DEF Process

\* ... and a call of a running operator is one of a running operator.
LEMMA ProcessNext ==
  ASSUME PipelineInv, NEW g \in Goroutines, NEW o \in Positions, CallMade(g, o)
  PROVE  PipelineInv'
<1> DEFINE s == stacks[g]
           n == Len(s)
           t == Returned(g)
<1>0. Domains /\ Wired /\ OutputsStarted /\ BatchesLive /\ AllStacks
  BY DEF PipelineInv
<1>1. CallChain(g, s) /\ Holding(g, s, lock)
  BY <1>0 DEF AllStacks
<1>2. PICK S : s \in Seq(S)
  BY <1>1 DEF CallChain
<1>3. s # <<>> /\ s[n].todo # <<>> /\ o = Head(s[n].todo)
  BY DEF CallMade, Calls, Top, Last
<1>4. n \in Nat /\ n >= 1 /\ n \in 1..n
  BY <1>2, <1>3, LenProperties, EmptySeq
<1>5. Frame(s[n])
  BY <1>1, <1>4 DEF CallChain
<1>6. o \in CalledBy(outs, s[n].op)
  BY <1>3, <1>5, HeadTailProperties DEF Frame
<1>7. life[o] = "started"
  BY <1>0, <1>5, <1>6 DEF OutputsStarted, Frame
<1>8. /\ CallChain(g, t) /\ Len(t) = n
      /\ \A k \in 1..n : t[k].op = s[k].op
  BY <1>1, <1>3, ReturnedChain DEF Returned
<1> HIDE DEF t
<1>9. Holding(g, t, lock)
  BY <1>1, <1>8, SameHolding
<1>10. \A h \in Goroutines : h # g => Holding(h, stacks[h], lock)
  BY <1>0 DEF AllStacks
<1>11. /\ DOMAIN batch' = Positions
       /\ \A i \in Positions :
            Is(i, {"recombine"}) /\ batch'[i] # <<>> => life[i] = "started"
  BY <1>0, <1>7 DEF CallMade, BatchesLive, Domains
<1>12. CASE stacks' = Skipped(g) /\ lock' = lock
  <2>1. stacks' = [stacks EXCEPT ![g] = t]
    BY <1>12 DEF Skipped, t
  <2>2. DOMAIN lock' = Positions
    BY <1>12, <1>0 DEF Domains
  <2>3. UNCHANGED <<ops, outs, stage, life, current>>
    BY DEF CallMade
  <2> QED
    BY <1>8, <1>9, <1>10, <1>11, <1>12, <2>1, <2>2, <2>3, FlowStep
<1>13. ASSUME NEW x, NEW r, stacks' = Entered(g, Writing(o, x, r)),
              \/ ~Is(o, {"recombine"}) /\ lock' = lock
              \/ Is(o, {"recombine"}) /\ lock[o] = NoOne /\ lock' = [lock EXCEPT ![o] = g]
       PROVE  PipelineInv'
  <2> DEFINE c == Writing(o, x, r)
             u == Append(t, c)
  <2>1. Frame(c) /\ c.op = o
    BY <1>0, <1>7, WritingIsFrame
  <2> HIDE DEF c
  <2>2. t # <<>> /\ t[Len(t)].op = s[n].op
    <3>1. t # <<>>
      BY <1>8, <1>4, EmptySeq
    <3> QED
      BY <3>1, <1>8, <1>4
  <2>3. /\ CallChain(g, u) /\ Len(u) = n + 1
        /\ \A k \in 1..n : u[k] = t[k]
        /\ u[n + 1] = c
    BY <2>1, <2>2, <1>6, <1>8, EnteredChain
  <2>4. stacks' = [stacks EXCEPT ![g] = u]
    BY <1>13 DEF Entered, t, c
  <2> HIDE DEF u
  <2>5. DOMAIN lock' = Positions
    BY <1>13, <1>0 DEF Domains
  <2>6. UNCHANGED <<ops, outs, stage, life, current>>
    BY DEF CallMade
  <2>7. \A k \in 1..Len(u) : (k \in 1..n /\ u[k].op = s[k].op) \/ (k = n + 1 /\ u[k].op = o)
    <3>1. \A k \in 1..Len(u) : k \in 1..n \/ k = n + 1
      BY <2>3, <1>4
    <3> QED
      BY <3>1, <2>3, <2>1, <1>8
  <2>8. CASE ~Is(o, {"recombine"}) /\ lock' = lock
    <3>1. Holding(g, u, lock)
      BY <2>7, <2>8, <1>1 DEF Holding
    <3> QED
      BY <2>3, <2>4, <2>5, <2>6, <2>8, <3>1, <1>10, <1>11, FlowStep
  <2>9. CASE Is(o, {"recombine"}) /\ lock[o] = NoOne /\ lock' = [lock EXCEPT ![o] = g]
    <3>1. \A k \in 1..n : s[k].op # o
      BY <2>9, <1>0, <1>1, FreeNotEntered
    <3>2. \A k \in 1..n : s[k].op \in Positions
      BY <1>1 DEF CallChain, Frame
    <3>3. lock'[o] = g /\ \A k \in 1..n : lock'[s[k].op] = lock[s[k].op]
      BY <2>9, <3>1, <3>2, <1>0 DEF Domains
    <3>4. \A k \in 1..n : k # n + 1
      BY <1>4
    <3>5. Holding(g, u, lock')
      BY <2>7, <3>1, <3>3, <3>4, <1>1, SMTT(30) DEF Holding
    <3>6. \A h \in Goroutines : h # g => Holding(h, stacks[h], lock')
      <4> SUFFICES ASSUME NEW h \in Goroutines, h # g
                   PROVE  Holding(h, stacks[h], lock')
        OBVIOUS
      <4>1. \A k \in 1..Len(stacks[h]) : stacks[h][k].op \in Positions
        BY <1>0 DEF AllStacks, CallChain, Frame
      <4> QED
        BY <4>1, <2>9, <1>0, <1>10, OthersHolding
    <3> QED
      BY <2>3, <2>4, <2>5, <2>6, <3>5, <3>6, <1>11, FlowStep
  <2> QED
    BY <1>13, <2>8, <2>9
<1> QED
  BY <1>12, <1>13 DEF CallMade

\* The next entry is written, or the call returns and gives the lock back.
LEMMA ReturnNext ==
  ASSUME PipelineInv, NEW g \in Goroutines, Return(g)
  PROVE  PipelineInv'
<1> DEFINE s == stacks[g]
           n == Len(s)
           f == s[n]
           t == Front(s)
<1>0. Domains /\ Wired /\ BatchesLive /\ AllStacks
  BY DEF PipelineInv
<1>1. CallChain(g, s) /\ Holding(g, s, lock)
  BY <1>0 DEF AllStacks
<1>2. PICK S : s \in Seq(S)
  BY <1>1 DEF CallChain
<1>3. s # <<>> /\ Top(g) = f
  BY DEF Return, Top, Last
<1>4. n \in Nat /\ n >= 1 /\ n \in 1..n /\ n - 1 + 1 = n /\ n - 1 \in Nat
  BY <1>2, <1>3, LenProperties, EmptySeq
<1>5. Frame(f)
  BY <1>1, <1>4 DEF CallChain
<1>6. /\ CallChain(g, t) /\ Len(t) = n - 1
      /\ \A k \in 1..(n - 1) : t[k] = s[k]
  BY <1>1, <1>3, FrontChain
<1>7. \A h \in Goroutines : h # g => Holding(h, stacks[h], lock)
  BY <1>0 DEF AllStacks
<1>8. UNCHANGED <<ops, outs, stage, life, current>> /\ batch' = batch
  BY DEF Return, buildVars, loopVars
<1>9. /\ DOMAIN batch' = Positions
      /\ \A i \in Positions :
           Is(i, {"recombine"}) /\ batch'[i] # <<>> => life[i] = "started"
  BY <1>0, <1>8 DEF BatchesLive, Domains
<1> HIDE DEF t
<1>10. \A k \in 1..(n - 1) : k \in 1..n /\ k # n
  BY <1>4
<1>11. CASE Len(f.pending) > 1
  <2> DEFINE c == Writing(f.op, Tail(f.pending), f.route)
             u == Append(t, c)
  <2>1. stacks' = [stacks EXCEPT ![g] = u] /\ lock' = lock
    BY <1>11, <1>3 DEF Return, t
  <2>2. Frame(c) /\ c.op = f.op
    BY <1>0, <1>5, WritingIsFrame DEF Frame
  <2> HIDE DEF c
  <2>3. /\ CallChain(g, u) /\ Len(u) = n
        /\ \A k \in 1..n : u[k].op = s[k].op
    <3>1. CASE n = 1
      <4>1. t = <<>>
        <5>1. \E R : t \in Seq(R)
          BY <1>6 DEF CallChain
        <5> QED
          BY <3>1, <1>6, <5>1, EmptySeq
      <4>2. u = <<c>>
        BY <4>1
      <4>3. Root(g, c.op)
        BY <3>1, <2>2, <1>1, <1>3 DEF CallChain
      <4>4. CallChain(g, u)
        BY <4>2, <4>3, <2>2, FirstChain
      <4>5. Len(u) = 1 /\ u[1] = c /\ \A k \in 1..1 : k = 1
        BY <4>2
      <4> QED
        BY <4>4, <4>5, <3>1, <2>2
    <3>2. CASE n # 1
      <4>1. t # <<>> /\ n - 1 \in 1..(n - 1) /\ n \in 2..n
        <5>1. n - 1 # 0 /\ n - 1 \in 1..(n - 1) /\ n \in 2..n
          <6> HIDE DEF n
          <6>1. n >= 2
            BY <3>2, <1>4
          <6> QED
            BY <6>1, <1>4
        <5>2. Len(<<>>) = 0
          OBVIOUS
        <5> QED
          BY <5>1, <5>2, <1>6
      <4>2. f.op \in CalledBy(outs, s[n - 1].op)
        BY <4>1, <1>1 DEF CallChain
      <4>3. c.op \in CalledBy(outs, t[Len(t)].op)
        BY <4>1, <4>2, <2>2, <1>6
      <4>4. /\ CallChain(g, u) /\ Len(u) = Len(t) + 1
            /\ \A k \in 1..Len(t) : u[k] = t[k]
            /\ u[Len(t) + 1] = c
        BY <4>1, <4>3, <2>2, <1>6, EnteredChain
      <4>5. \A k \in 1..n : k \in 1..(n - 1) \/ k = n
        BY <1>4
      <4> HIDE DEF u
      <4> QED
        BY <4>4, <4>5, <2>2, <1>4, <1>6
    <3> QED
      BY <3>1, <3>2
  <2> HIDE DEF u
  <2>4. Holding(g, u, lock)
    BY <2>3, <1>1, SameHolding
  <2>5. DOMAIN lock' = Positions
    BY <2>1, <1>0 DEF Domains
  <2> QED
    BY <2>1, <2>3, <2>4, <2>5, <1>7, <1>8, <1>9, FlowStep
<1>12. CASE ~(Len(f.pending) > 1)
  <2>1. stacks' = [stacks EXCEPT ![g] = t] /\ lock' = Released(g, f.op)
    BY <1>12, <1>3 DEF Return, t
  <2>2. Holding(g, t, lock)
    BY <1>1, <1>6, <1>10 DEF Holding
  <2>3. CASE Is(f.op, {"recombine"}) /\ lock[f.op] = g
    <3>1. lock' = [lock EXCEPT ![f.op] = NoOne]
      BY <2>1, <2>3 DEF Released
    <3>2. \A k \in 1..(n - 1) : t[k].op # f.op /\ t[k].op \in Positions
      <4>1. ASSUME NEW k \in 1..(n - 1) PROVE t[k].op \in Positions
        <5>1. k \in 1..Len(t) /\ Frame(t[k])
          BY <1>6 DEF CallChain
        <5> QED
          BY <5>1 DEF Frame
      <4>2. ASSUME NEW k \in 1..(n - 1) PROVE t[k].op # f.op
        <5>1. k \in 1..n /\ k # n /\ n \in 1..n
          BY <1>4, <1>10
        <5>2. \A m \in 1..n : s[m].op = s[n].op => m = n
          BY <2>3, <1>1, <5>1 DEF Holding
        <5> QED
          BY <5>1, <5>2, <1>6
      <4> QED
        BY <4>1, <4>2
    <3>3. \A k \in 1..(n - 1) : lock'[t[k].op] = lock[t[k].op]
      BY <3>1, <3>2, <1>0 DEF Domains
    <3>4. Holding(g, t, lock')
      BY <2>2, <3>3, <1>6 DEF Holding
    <3>5. \A h \in Goroutines : h # g => Holding(h, stacks[h], lock')
      <4> SUFFICES ASSUME NEW h \in Goroutines, h # g
                   PROVE  Holding(h, stacks[h], lock')
        OBVIOUS
      <4>1. \A k \in 1..Len(stacks[h]) : stacks[h][k].op \in Positions
        BY <1>0 DEF AllStacks, CallChain, Frame
      <4> QED
        BY <4>1, <2>3, <3>1, <1>0, <1>7, OthersHolding
    <3>6. DOMAIN lock' = Positions
      BY <3>1, <1>0 DEF Domains
    <3> QED
      BY <2>1, <3>4, <3>5, <3>6, <1>6, <1>8, <1>9, FlowStep
  <2>4. CASE ~(Is(f.op, {"recombine"}) /\ lock[f.op] = g)
    <3>1. lock' = lock
      BY <2>1, <2>4 DEF Released
    <3>2. DOMAIN lock' = Positions
      BY <3>1, <1>0 DEF Domains
    <3> QED
      BY <2>1, <2>2, <3>1, <3>2, <1>6, <1>7, <1>8, <1>9, FlowStep
  <2> QED
    BY <2>3, <2>4
<1> QED
  BY <1>11, <1>12

\* A goroutine begins to write, with the lock of its operator if it has one.
LEMMA BeginNext ==
  ASSUME PipelineInv, NEW g \in Goroutines, NEW i \in Positions, NEW x,
         life[i] = "started", Root(g, i),
         UNCHANGED <<ops, outs, stage, life, current>>,
         stacks' = [stacks EXCEPT ![g] = <<Writing(i, x, 1)>>],
         \/ ~Is(i, {"recombine"}) /\ lock' = lock
         \/ Is(i, {"recombine"}) /\ lock[i] = NoOne /\ lock' = [lock EXCEPT ![i] = g],
         batch' = batch \/ batch' = [batch EXCEPT ![i] = <<>>]
  PROVE  PipelineInv'
<1> DEFINE c == Writing(i, x, 1)
           u == <<c>>
<1>0. Domains /\ Wired /\ BatchesLive /\ AllStacks
  BY DEF PipelineInv
<1>1. Frame(c) /\ c.op = i
  BY <1>0, WritingIsFrame
<1> HIDE DEF c
<1>2. CallChain(g, u)
  BY <1>1, FirstChain
<1>3. Len(u) = 1 /\ u[1] = c /\ \A k \in 1..1 : k = 1
  OBVIOUS
<1>4. stacks' = [stacks EXCEPT ![g] = u]
  BY DEF c
<1> HIDE DEF u
<1>5. \A h \in Goroutines : h # g => Holding(h, stacks[h], lock)
  BY <1>0 DEF AllStacks
<1>6. /\ DOMAIN batch' = Positions
      /\ \A j \in Positions :
           Is(j, {"recombine"}) /\ batch'[j] # <<>> => life[j] = "started"
  BY <1>0 DEF BatchesLive, Domains
<1>7. DOMAIN lock' = Positions
  BY <1>0 DEF Domains
<1>8. CASE ~Is(i, {"recombine"}) /\ lock' = lock
  <2>1. Holding(g, u, lock)
    BY <1>1, <1>3, <1>8 DEF Holding
  <2> QED
    BY <2>1, <1>2, <1>4, <1>5, <1>6, <1>7, <1>8, FlowStep
<1>9. CASE Is(i, {"recombine"}) /\ lock[i] = NoOne /\ lock' = [lock EXCEPT ![i] = g]
  <2>1. lock'[i] = g
    BY <1>9, <1>0 DEF Domains
  <2>2. Holding(g, u, lock')
    BY <2>1, <1>1, <1>3 DEF Holding
  <2>3. \A h \in Goroutines : h # g => Holding(h, stacks[h], lock')
    <3> SUFFICES ASSUME NEW h \in Goroutines, h # g
                 PROVE  Holding(h, stacks[h], lock')
      OBVIOUS
    <3>1. \A k \in 1..Len(stacks[h]) : stacks[h][k].op \in Positions
      BY <1>0 DEF AllStacks, CallChain, Frame
    <3> QED
      BY <3>1, <1>9, <1>0, <1>5, OthersHolding
  <2> QED
    BY <2>2, <2>3, <1>2, <1>4, <1>6, <1>7, FlowStep
<1> QED
  BY <1>8, <1>9

\* An input, the flush loop of a recombine operator and its Stop begin to write.
LEMMA NewEntryNext ==
  ASSUME PipelineInv, NEW i \in Positions, NewEntry(i) \/ Tick(i) \/ StopRecombine(i)
  PROVE  PipelineInv'
<1> USE DEF buildVars, loopVars
<1>0. Len(ops) \in Nat /\ i \in Goroutines /\ Main \in Goroutines /\ i # Main /\ i # NoOne
  BY DEF PipelineInv, Domains, Positions, Goroutines, Main, NoOne
<1>1. CASE NewEntry(i)
  <2>1. \E x : stacks' = [stacks EXCEPT ![i] = <<Writing(i, x, 1)>>]
    BY <1>1 DEF NewEntry
  <2>2. Is(i, {"input"}) /\ ~Is(i, {"recombine"})
    BY <1>1 DEF NewEntry, PipelineInv, NoSyslog, IsInput, Is
  <2>3. Root(i, i)
    BY <2>2, <1>0 DEF Root, Is
  <2>4. /\ UNCHANGED <<ops, outs, stage, life, current>> /\ lock' = lock /\ batch' = batch
        /\ life[i] = "started"
    BY <1>1 DEF NewEntry
  <2> QED
    BY <2>1, <2>2, <2>3, <2>4, <1>0, BeginNext
<1>2. CASE Tick(i)
  <2>1. \E x : stacks' = [stacks EXCEPT ![i] = <<Writing(i, x, 1)>>]
    BY <1>2 DEF Tick
  <2>2. Is(i, {"recombine"})
    BY <1>2 DEF Tick
  <2>3. Root(i, i)
    BY <2>2, <1>0 DEF Root, Is
  <2>4. /\ UNCHANGED <<ops, outs, stage, life, current>> /\ life[i] = "started"
        /\ lock[i] = NoOne /\ lock' = [lock EXCEPT ![i] = i]
        /\ batch' = [batch EXCEPT ![i] = <<>>]
    BY <1>2 DEF Tick
  <2> QED
    BY <2>1, <2>2, <2>3, <2>4, <1>0, BeginNext
<1>3. CASE StopRecombine(i)
  <2>1. \E x : stacks' = [stacks EXCEPT ![Main] = <<Writing(i, x, 1)>>]
    BY <1>3 DEF StopRecombine
  <2>2. Is(i, {"recombine"}) /\ current = i
    BY <1>3 DEF StopRecombine
  <2>3. Root(Main, i)
    BY <2>2 DEF Root
  <2>4. /\ UNCHANGED <<ops, outs, stage, life, current>> /\ batch[i] # <<>>
        /\ lock[i] = NoOne /\ lock' = [lock EXCEPT ![i] = Main]
        /\ batch' = [batch EXCEPT ![i] = <<>>]
    BY <1>3 DEF StopRecombine
  <2>5. life[i] = "started"
    BY <2>2, <2>4 DEF PipelineInv, BatchesLive
  <2> QED
    BY <2>1, <2>2, <2>3, <2>4, <2>5, <1>0, BeginNext
<1> QED
  BY <1>1, <1>2, <1>3

-----------------------------------------------------------------------------
(* Build, Start and Stop *)

\* The stacks in a step that does not change them, and in which the operators of
\* their calls go on.
LEMMA LoopStep ==
  ASSUME PipelineInv, UNCHANGED <<ops, outs, stacks, lock, batch>>,
         life' \in [Positions -> {"built", "started", "stopped"}],
         \A g \in Goroutines : \A k \in 1..Len(stacks[g]) :
           life[stacks[g][k].op] = "started" => life'[stacks[g][k].op] = "started",
         stacks[Main] # <<>> => current' = current,
         OutputsStarted', CallersStopped', BatchesLive'
  PROVE  PipelineInv'
<1>0. Positions' = Positions /\ Goroutines' = Goroutines
  BY DEF Positions, Goroutines
<1>1. Domains'
  BY <1>0 DEF Domains, PipelineInv
<1>2. Wired' /\ NoSyslog'
  BY <1>0 DEF Wired, NoSyslog, Is, Targets, PipelineInv
<1>3. ASSUME NEW g \in Goroutines
      PROVE  CallChain(g, stacks[g])' /\ Holding(g, stacks[g], lock)'
  <2>1. CallChain(g, stacks[g]) /\ Holding(g, stacks[g], lock)
    BY DEF PipelineInv, AllStacks
  <2>2. PICK s : s = stacks[g] /\ s = stacks'[g]
    OBVIOUS
  <2>3. Holding(g, stacks[g], lock)'
    BY <2>1, <2>2 DEF Holding, Is
  <2>4. \A k \in 1..Len(s) : Frame(s[k])'
    BY <2>1, <2>2, <1>0 DEF CallChain, Frame
  <2>5. s # <<>> => Root(g, s[1].op)'
    BY <2>1, <2>2 DEF CallChain, Root, Is
  <2>6. CallChain(g, s)'
    BY <2>1, <2>2, <2>4, <2>5 DEF CallChain
  <2>7. CallChain(g, stacks[g])'
    BY <2>6, <2>2 DEF CallChain, Frame, Root, Is
  <2> QED
    BY <2>3, <2>7
<1> QED
  BY <1>0, <1>1, <1>2, <1>3 DEF PipelineInv, AllStacks

\* Where no input is a syslog input, the graph has every call.
LEMMA OutputsAreCalled ==
  ASSUME NoSyslog, NEW i \in Positions
  PROVE  OutputsIn(i) = CalledBy(outs, i)
  BY DEF NoSyslog, Is, OutputsIn, Outputs

\* Start, its errors, and the beginning of Stop.
LEMMA StartNext ==
  ASSUME PipelineInv, Start \/ StartOperator \/ StartError \/ Stop
  PROVE  PipelineInv'
<1> USE DEF buildVars, flowVars
<1>0. Positions' = Positions
  BY DEF Start, StartOperator, StartError, Stop, Positions
<1>1. current = NoOne
  BY DEF Start, StartOperator, StartError, Stop, PipelineInv, CallersStopped
<1>2. UNCHANGED <<ops, outs, stacks, lock, batch, current>>
  BY DEF Start, StartOperator, StartError, Stop
<1>3. CallersStopped'
  BY <1>1, <1>2 DEF CallersStopped, NoOne
<1>4. CASE Start \/ StartError \/ Stop
  <2>1. life' = life
    BY <1>4 DEF Start, StartError, Stop
  <2>2. OutputsStarted' /\ BatchesLive'
    BY <2>1, <1>0, <1>2 DEF PipelineInv, OutputsStarted, BatchesLive, Is
  <2>3. life' \in [Positions -> {"built", "started", "stopped"}]
    BY <2>1 DEF PipelineInv, Domains
  <2> QED
    BY <2>1, <2>2, <2>3, <1>2, <1>3, LoopStep
<1>5. CASE StartOperator
  <2>1. PICK i \in Positions : LastLeft(i) /\ life' = [life EXCEPT ![i] = "started"]
    BY <1>5 DEF StartOperator
  <2>2. life \in [Positions -> {"built", "started", "stopped"}]
    BY DEF PipelineInv, Domains
  <2>3. \A j \in Positions : life'[j] = IF j = i THEN "started" ELSE life[j]
    BY <2>1, <2>2
  <2>4. \A j \in Positions : CalledBy(outs, j) \subseteq Positions
    BY CalledAreTargets DEF PipelineInv, Targets, Positions
  <2>5. OutputsStarted'
    <3> SUFFICES ASSUME NEW j \in Positions, life'[j] = "started",
                        NEW o \in CalledBy(outs, j)
                 PROVE  life'[o] = "started"
      BY <1>0, <1>2 DEF OutputsStarted
    <3>1. o \in Positions
      BY <2>4
    <3>2. CASE j = i
      <4>1. o \in OutputsIn(i)
        BY <3>2, OutputsAreCalled DEF PipelineInv
      <4>2. life[o] = "started"
        BY <4>1, <2>1 DEF LastLeft
      <4> QED
        BY <4>2, <3>1, <2>3
    <3>3. CASE j # i
      <4>1. life[o] = "started"
        BY <3>3, <2>3 DEF PipelineInv, OutputsStarted
      <4> QED
        BY <4>1, <3>1, <2>3
    <3> QED
      BY <3>2, <3>3
  <2>6. BatchesLive'
    BY <2>3, <1>0, <1>2 DEF PipelineInv, BatchesLive, Is
  <2>7. life' \in [Positions -> {"built", "started", "stopped"}]
    BY <2>1, <2>2
  <2>8. \A g \in Goroutines : \A k \in 1..Len(stacks[g]) :
          life[stacks[g][k].op] = "started" => life'[stacks[g][k].op] = "started"
    <3>1. \A g \in Goroutines : \A k \in 1..Len(stacks[g]) : stacks[g][k].op \in Positions
      BY DEF PipelineInv, AllStacks, CallChain, Frame
    <3> QED
      BY <3>1, <2>3
  <2> QED
    BY <2>5, <2>6, <2>7, <2>8, <1>2, <1>3, LoopStep
<1> QED
  BY <1>4, <1>5

\* The loop of stop is done with an operator in which there is no call.
LEMMA StoppedNext ==
  ASSUME PipelineInv, NEW i \in Positions, current = i, Stopped(i),
         UNCHANGED <<ops, outs, stacks, lock, batch>>,
         Is(i, {"recombine"}) => batch[i] = <<>>,
         \A g \in Goroutines : stacks[g] # <<>> => stacks[g][1].op # i
  PROVE  PipelineInv'
<1>0. Positions' = Positions
  BY DEF Positions
<1>1. life \in [Positions -> {"built", "started", "stopped"}] /\ Len(ops) \in Nat
  BY DEF PipelineInv, Domains
<1>2. /\ life' \in [Positions -> {"built", "started", "stopped"}]
      /\ \A j \in Positions : life'[j] = IF j = i THEN "stopped" ELSE life[j]
  BY <1>1 DEF Stopped
<1>3. i # NoOne
  BY <1>1 DEF Positions, NoOne
<1>4. \A j \in Positions : i \in CalledBy(outs, j) => life[j] = "stopped"
  BY <1>3 DEF PipelineInv, CallersStopped
<1>5. \A j \in Positions : CalledBy(outs, j) \subseteq Positions
  BY CalledAreTargets DEF PipelineInv, Targets, Positions
<1>6. ASSUME NEW g \in Goroutines, NEW k \in 1..Len(stacks[g])
      PROVE  stacks[g][k].op # i /\ stacks[g][k].op \in Positions
  <2>1. CallChain(g, stacks[g])
    BY DEF PipelineInv, AllStacks
  <2>2. PICK s : s = stacks[g]
    OBVIOUS
  <2>3. PICK S : s \in Seq(S)
    BY <2>1, <2>2 DEF CallChain
  <2>4. Len(s) \in Nat
    BY <2>3, LenProperties
  <2>5. s[k].op \in Positions
    BY <2>1, <2>2, <1>6 DEF CallChain, Frame
  <2>6. CASE k = 1
    <3>1. s # <<>>
      BY <1>6, <2>2, <2>4
    <3> QED
      BY <3>1, <2>2, <2>5, <2>6
  <2>7. CASE k # 1
    <3>1. k \in 2..Len(s) /\ k - 1 \in 1..Len(s)
      BY <2>7, <1>6, <2>2, <2>4
    <3>2. s[k].op \in CalledBy(outs, s[k - 1].op) /\ Frame(s[k - 1])
      BY <3>1, <2>1, <2>2 DEF CallChain
    <3>3. life[s[k - 1].op] = "started" /\ s[k - 1].op \in Positions
      BY <3>2 DEF Frame
    <3>4. life[s[k - 1].op] # "stopped"
      BY <3>3
    <3> QED
      BY <3>2, <3>3, <3>4, <1>4, <2>2, <2>5
  <2> QED
    BY <2>6, <2>7
<1>7. \A g \in Goroutines : \A k \in 1..Len(stacks[g]) :
        life[stacks[g][k].op] = "started" => life'[stacks[g][k].op] = "started"
  BY <1>6, <1>2
<1>8. stacks[Main] = <<>>
  <2> SUFFICES ASSUME stacks[Main] # <<>> PROVE FALSE
    OBVIOUS
  <2>1. Main \in Goroutines
    BY DEF Goroutines
  <2>2. Root(Main, stacks[Main][1].op)
    BY <2>1 DEF PipelineInv, AllStacks, CallChain
  <2> QED
    BY <2>1, <2>2 DEF Root
<1>9. CallersStopped'
  BY DEF Stopped, CallersStopped, NoOne
<1>10. OutputsStarted'
  <2> SUFFICES ASSUME NEW j \in Positions, life'[j] = "started",
                      NEW o \in CalledBy(outs, j)
               PROVE  life'[o] = "started"
    BY <1>0 DEF OutputsStarted
  <2>1. j # i /\ life[j] = "started"
    BY <1>2
  <2>2. o \in Positions /\ life[o] = "started"
    BY <2>1, <1>5 DEF PipelineInv, OutputsStarted
  <2>3. o # i
    BY <2>1, <1>4
  <2> QED
    BY <2>2, <2>3, <1>2
<1>11. BatchesLive'
  BY <1>0, <1>2 DEF PipelineInv, BatchesLive, Is
<1> QED
  BY <1>2, <1>7, <1>8, <1>9, <1>10, <1>11, LoopStep

\* The loop of stop.
LEMMA StopOperatorNext ==
  ASSUME PipelineInv, NEW i \in Positions,
         \/ StopOperator(i) \/ StopBasic(i) \/ CancelInput(i) \/ WaitForInput(i)
  PROVE  PipelineInv'
<1> USE DEF buildVars, flowVars
<1>0. Positions' = Positions
  BY DEF StopOperator, StopBasic, CancelInput, WaitForInput, Positions
<1>1. Len(ops) \in Nat /\ i # NoOne
  BY DEF PipelineInv, Domains, Positions, NoOne
<1>2. UNCHANGED <<ops, outs, stacks, lock, batch>>
  BY DEF StopOperator, StopBasic, CancelInput, WaitForInput
<1>3. ASSUME life' = life, current' = current \/ stacks[Main] = <<>>, CallersStopped'
      PROVE  PipelineInv'
  <2>1. OutputsStarted' /\ BatchesLive'
    BY <1>0, <1>2, <1>3 DEF PipelineInv, OutputsStarted, BatchesLive, Is
  <2>2. life' \in [Positions -> {"built", "started", "stopped"}]
    BY <1>3 DEF PipelineInv, Domains
  <2> QED
    BY <2>1, <2>2, <1>2, <1>3, LoopStep
<1>4. CASE StopOperator(i)
  <2>1. stage = "stopping" /\ stage' = stage /\ current = NoOne /\ FirstLeft(i)
        /\ current' = i /\ life' = life
    BY <1>4 DEF StopOperator
  <2>2. \A j \in Positions : i \in CalledBy(outs, j) => life[j] = "stopped"
    BY <2>1, OutputsAreCalled DEF PipelineInv, FirstLeft
  <2>3. CallersStopped'
    BY <2>1, <2>2, <1>0, <1>2 DEF CallersStopped
  <2>4. stacks[Main] = <<>>
    <3> SUFFICES ASSUME stacks[Main] # <<>> PROVE FALSE
      OBVIOUS
    <3>1. Main \in Goroutines
      BY DEF Goroutines
    <3>2. CallChain(Main, stacks[Main])
      BY <3>1 DEF PipelineInv, AllStacks
    <3>3. stacks[Main][1].op = NoOne
      BY <3>2, <2>1 DEF CallChain, Root
    <3>4. PICK S : stacks[Main] \in Seq(S)
      BY <3>2 DEF CallChain
    <3>5. 1 \in 1..Len(stacks[Main])
      BY <3>4, LenProperties, EmptySeq
    <3>6. stacks[Main][1].op \in Positions
      BY <3>2, <3>5 DEF CallChain, Frame
    <3> QED
      BY <3>3, <3>6, <1>1 DEF Positions, NoOne
  <2> QED
    BY <2>1, <2>3, <2>4, <1>3
<1>5. CASE CancelInput(i)
  <2>1. UNCHANGED <<stage, current, life>>
    BY <1>5 DEF CancelInput
  <2>2. CallersStopped'
    BY <2>1, <1>0, <1>2 DEF PipelineInv, CallersStopped
  <2> QED
    BY <2>1, <2>2, <1>3
<1>6. ASSUME NEW g \in Goroutines, stacks[g] # <<>>, current = i
      PROVE  LET o == stacks[g][1].op
             IN  o = i => /\ g = Main \/ g = i
                          /\ g = Main => Is(i, {"recombine"})
                          /\ Is(i, {"input", "recombine"})
                          /\ Is(i, {"recombine"}) => lock[i] = g
  <2>1. CallChain(g, stacks[g]) /\ Holding(g, stacks[g], lock)
    BY DEF PipelineInv, AllStacks
  <2>2. PICK S : stacks[g] \in Seq(S)
    BY <2>1 DEF CallChain
  <2>3. 1 \in 1..Len(stacks[g])
    BY <2>2, <1>6, LenProperties, EmptySeq
  <2>4. Root(g, stacks[g][1].op)
    BY <2>1, <1>6 DEF CallChain
  <2> QED
    BY <2>1, <2>3, <2>4 DEF Root, Holding, Is
<1>7. CASE StopBasic(i)
  <2>1. current = i /\ Stopped(i) /\ stacks[Main] = <<>> /\ ~Is(i, {"input", "syslog"})
        /\ (Is(i, {"recombine"}) => lock[i] = NoOne /\ batch[i] = <<>>)
    BY <1>7 DEF StopBasic, CanProcess, IsInput
  <2>2. ASSUME NEW g \in Goroutines, stacks[g] # <<>>, stacks[g][1].op = i PROVE FALSE
    <3>1. g # Main /\ g = i /\ Is(i, {"input", "recombine"})
          /\ (Is(i, {"recombine"}) => lock[i] = g)
      BY <2>1, <2>2, <1>6
    <3> QED
      BY <3>1, <2>1, <1>1 DEF Is
  <2> QED
    BY <2>1, <2>2, <1>2, StoppedNext
<1>8. CASE WaitForInput(i)
  <2>1. current = i /\ Stopped(i) /\ stacks[i] = <<>> /\ Is(i, {"input", "syslog"})
    BY <1>8 DEF WaitForInput, IsInput, HasExited
  <2>2. ~Is(i, {"recombine"})
    BY <2>1 DEF Is
  <2>3. ASSUME NEW g \in Goroutines, stacks[g] # <<>>, stacks[g][1].op = i PROVE FALSE
    <3>1. g = Main \/ g = i
      BY <2>1, <2>3, <1>6
    <3>2. g = Main => Is(i, {"recombine"})
      BY <2>1, <2>3, <1>6
    <3> QED
      BY <3>1, <3>2, <2>1, <2>2, <2>3
  <2> QED
    BY <2>1, <2>2, <2>3, <1>2, StoppedNext
<1> QED
  BY <1>4, <1>5, <1>7, <1>8

\* findOperator returns an operator, if there is one with the id.
LEMMA FindOperatorFinds ==
  ASSUME NEW operators, NEW id, Named(operators, id) # {}
  PROVE  FindOperator(operators, id) \in 1..Len(operators)
<1> DEFINE N == Named(operators, id)
<1>1. N # {} /\ N \subseteq Nat /\ N \subseteq 1..Len(operators)
  BY DEF Named
<1>2. \E i \in N : \A j \in N : i <= j
  <2> HIDE DEF N
  <2> QED
    BY <1>1, Least
<1>3. FindOperator(operators, id) \in N
  BY <1>2 DEF FindOperator
<1> QED
  BY <1>1, <1>3

\* SetOutputs connects the operators to operators that take entries.
LEMMA ConnectedWired ==
  ASSUME NEW operators \in Seq(Operator), ~Unconnectable(operators),
         NEW i \in 1..Len(operators), NEW r \in DOMAIN Connected(operators)[i]
  PROVE  Connected(operators)[i][r] \in Seq(Targets(operators))
<1> DEFINE routes == operators[i].outputs
           ids == routes[r]
           F(k) == FindOperator(operators, ids[k])
<1>0. routes \in Seq(Seq(Ids))
  <2>1. operators[i] \in Operator
    BY ElementOfSeq
  <2> QED
    BY <2>1 DEF Operator
<1>1. DOMAIN Connected(operators)[i] = 1..Len(routes)
  BY DEF Connected
<1>2. r \in 1..Len(routes) /\ r \in DOMAIN routes
  BY <1>0, <1>1, LenProperties
<1>3. ids \in Seq(Ids)
  BY <1>0, <1>2, ElementOfSeq
<1>4. Connected(operators)[i][r] = [k \in 1..Len(ids) |-> F(k)]
  BY <1>2 DEF Connected
<1>5. ASSUME NEW k \in 1..Len(ids) PROVE F(k) \in Targets(operators)
  <2>1. ids \in Range(routes)
    BY <1>2 DEF Range
  <2>2. ids[k] \in Range(ids)
    BY <1>3, LenProperties DEF Range
  <2>3. ~(\/ Named(operators, ids[k]) = {}
          \/ operators[F(k)].kind \in {"input", "syslog"})
    <3>1. \A route \in Range(routes) : \A id \in Range(route) :
            ~(\/ Named(operators, id) = {}
              \/ operators[FindOperator(operators, id)].kind \in {"input", "syslog"})
      BY DEF Unconnectable
    <3> HIDE DEF routes, ids
    <3> QED
      BY <2>1, <2>2, <3>1
  <2>4. F(k) \in 1..Len(operators)
    BY <2>3, FindOperatorFinds
  <2> QED
    BY <2>3, <2>4 DEF Targets
<1> HIDE DEF F, ids
<1>6. Len(ids) \in Nat
  BY <1>3, LenProperties
<1> QED
  BY <1>4, <1>5, <1>6

\* A pipeline that was built does nothing yet.
LEMMA BuildNext ==
  ASSUME Configured, Build, current = NoOne, Running', NoSyslog'
  PROVE  PipelineInv'
<1>0. ops' = Built /\ Idle(Built)
  BY DEF Build, Built
<1>1. Built \in Seq(Operator) /\ Len(Built) \in Nat
  BY BuiltIds, LenProperties DEF Configured
<1>2. ~Unconnectable(Built) /\ outs' = Connected(Built) /\ current' = NoOne
  BY DEF Build, Running, Built
<1>3. Positions' = 1..Len(Built) /\ Goroutines' = {Main} \cup (1..Len(Built))
  BY <1>0 DEF Positions, Goroutines, Main
<1>4. Domains'
  BY <1>0, <1>1, <1>3 DEF Domains, Idle
<1>5. Wired'
  BY <1>0, <1>1, <1>2, <1>3, ConnectedWired DEF Wired
<1>6. \A i \in Positions' : life'[i] = "built" /\ batch'[i] = <<>>
  BY <1>0, <1>3 DEF Idle
<1>7. OutputsStarted' /\ BatchesLive'
  BY <1>6 DEF OutputsStarted, BatchesLive
<1>8. CallersStopped'
  BY <1>2 DEF CallersStopped, NoOne
<1>9. ASSUME NEW g \in Goroutines'
      PROVE  CallChain(g, stacks[g])' /\ Holding(g, stacks[g], lock)'
  <2>1. stacks'[g] = <<>>
    BY <1>0, <1>3 DEF Idle
  <2>2. <<>> \in Seq({}) /\ Len(<<>>) = 0 /\ \A k \in 1..0 : FALSE
    OBVIOUS
  <2>3. \A k \in 2..0 : FALSE
    OBVIOUS
  <2> QED
    BY <2>1, <2>2, <2>3 DEF CallChain, Holding
<1> QED
  BY <1>4, <1>5, <1>7, <1>8, <1>9 DEF PipelineInv, AllStacks

-----------------------------------------------------------------------------
(* The theorem on calls *)

\* A pipeline without a syslog input keeps the invariant.
Sound ==
  /\ stage = "configured" => current = NoOne
  /\ Running /\ NoSyslog => PipelineInv

\* Every step keeps it.
LEMMA SoundNext ==
  ASSUME Configured, Sound, [Next]_vars
  PROVE  Sound'
<1>1. CASE Build
  <2>1. current = NoOne /\ stage' # "configured"
    BY <1>1 DEF Build, Sound
  <2> QED
    BY <1>1, <2>1, BuildNext DEF Sound
<1>2. CASE UNCHANGED vars
  <2> USE DEF vars, buildVars, loopVars, flowVars
  <2>1. Positions' = Positions /\ Goroutines' = Goroutines /\ (NoSyslog' <=> NoSyslog)
    BY <1>2 DEF Positions, Goroutines, NoSyslog, Is
  <2>2. Running' <=> Running
    BY <1>2 DEF Running
  <2>3. (stage = "configured" => current = NoOne)'
    BY <1>2 DEF Sound, NoOne
  <2>4. ASSUME PipelineInv PROVE PipelineInv'
    <3>1. OutputsStarted' /\ CallersStopped' /\ BatchesLive'
      BY <1>2, <2>1, <2>4
         DEF PipelineInv, OutputsStarted, CallersStopped, BatchesLive, Is
    <3>2. life' \in [Positions -> {"built", "started", "stopped"}]
      BY <1>2, <2>4 DEF PipelineInv, Domains
    <3>3. UNCHANGED <<ops, outs, stacks, lock, batch, life, current>>
      BY <1>2
    <3> QED
      BY <2>4, <3>1, <3>2, <3>3, LoopStep
  <2> QED
    BY <2>1, <2>2, <2>3, <2>4 DEF Sound
<1>3. ASSUME Running, NoSyslog => PipelineInv', NoSyslog' => NoSyslog,
             stage' # "configured"
      PROVE  Sound'
  BY <1>3 DEF Sound
<1>4. CASE Start \/ StartOperator \/ StartError \/ Stop
  <2> USE DEF Start, StartOperator, StartError, Stop, buildVars
  <2>1. Running /\ stage' # "configured"
    BY <1>4 DEF Running
  <2>2. NoSyslog' => NoSyslog
    BY <1>4 DEF NoSyslog, Is, Positions
  <2>3. NoSyslog => PipelineInv'
    BY <1>4, <2>1, StartNext DEF Sound
  <2> QED
    BY <2>1, <2>2, <2>3, <1>3
<1>5. CASE Running /\ StopNext
  <2>1. PICK i \in Positions :
          \/ StopOperator(i) \/ StopBasic(i) \/ CancelInput(i) \/ WaitForInput(i)
          \/ StopUnstarted(i) \/ StopRecombine(i)
    BY <1>5 DEF StopNext
  <2> USE DEF StopOperator, StopBasic, CancelInput, WaitForInput, StopUnstarted,
              StopRecombine, buildVars, loopVars
  <2>2. UNCHANGED <<ops, outs>> /\ stage' # "configured"
    BY <2>1, <1>5 DEF Stopped, Running
  <2>3. NoSyslog' => NoSyslog
    BY <2>2 DEF NoSyslog, Is, Positions
  <2>4. CASE StopUnstarted(i)
    BY <2>4, <2>2 DEF Sound, Running
  <2>5. CASE StopRecombine(i)
    <3>1. NoSyslog => PipelineInv'
      BY <2>5, <1>5, NewEntryNext DEF Sound
    <3> QED
      BY <3>1, <2>2, <2>3, <1>3, <1>5
  <2>6. CASE StopOperator(i) \/ StopBasic(i) \/ CancelInput(i) \/ WaitForInput(i)
    <3>1. NoSyslog => PipelineInv'
      BY <2>6, <1>5, StopOperatorNext DEF Sound
    <3> QED
      BY <3>1, <2>2, <2>3, <1>3, <1>5
  <2> QED
    BY <2>1, <2>4, <2>5, <2>6
<1>6. CASE Running /\ \E i \in Positions : NewEntry(i) \/ Tick(i)
  <2>1. PICK i \in Positions : NewEntry(i) \/ Tick(i)
    BY <1>6
  <2>2. UNCHANGED <<ops, outs, stage>>
    BY <2>1 DEF NewEntry, Tick, buildVars, loopVars
  <2>3. (NoSyslog' => NoSyslog) /\ stage' # "configured"
    BY <2>2, <1>6 DEF NoSyslog, Is, Positions, Running
  <2>4. NoSyslog => PipelineInv'
    BY <2>1, <1>6, NewEntryNext DEF Sound
  <2> QED
    BY <2>3, <2>4, <1>3, <1>6
<1>7. CASE \E g \in DOMAIN stacks : Step(g)
  <2>1. PICK g \in DOMAIN stacks : Step(g)
    BY <1>7
  <2>2. Running /\ (Return(g) \/ \E o \in Positions : Process(g, o))
    BY <2>1 DEF Step
  <2>3. Return(g) \/ \E o \in Positions : CallMade(g, o)
    BY <2>2, ProcessCalls
  <2>4. UNCHANGED <<ops, outs, stage>>
    BY <2>3 DEF Return, CallMade, buildVars, loopVars
  <2>5. (NoSyslog' => NoSyslog) /\ stage' # "configured"
    BY <2>2, <2>4 DEF NoSyslog, Is, Positions, Running
  <2>6. ASSUME NoSyslog PROVE PipelineInv'
    <3>1. PipelineInv /\ g \in Goroutines
      BY <2>1, <2>2, <2>6 DEF Sound, PipelineInv, Domains
    <3> QED
      BY <2>3, <3>1, ReturnNext, ProcessNext
  <2> QED
    BY <2>2, <2>5, <2>6, <1>3
<1> QED
  BY <1>1, <1>2, <1>4, <1>5, <1>6, <1>7 DEF Next

\* An operator that is about to write is running, and so is all that it may call:
\* for every graph without a syslog input, every order topo.Sort may return, any
\* number of entries, and however Start, its errors and Stop interleave with the
\* goroutines of the inputs and of the recombine operators.
THEOREM CallsRunningCorrect == Spec => [](NoSyslog => CallsRunning)
<1>1. Init => Sound
  BY DEF Init, Sound, Running
<1>2. Sound => (NoSyslog => CallsRunning)
  <2> SUFFICES ASSUME PipelineInv, NEW f \in Frames
               PROVE  /\ life[f.op] = "started"
                      /\ \A o \in CalledBy(outs, f.op) : life[o] = "started"
    BY DEF Sound, CallsRunning
  <2>1. PICK g \in Goroutines : f \in Range(stacks[g])
    BY DEF Frames, PipelineInv, Domains
  <2>2. CallChain(g, stacks[g])
    BY DEF PipelineInv, AllStacks
  <2>3. PICK S : stacks[g] \in Seq(S)
    BY <2>2 DEF CallChain
  <2>4. DOMAIN stacks[g] = 1..Len(stacks[g])
    BY <2>3, LenProperties
  <2>5. Frame(f)
    BY <2>1, <2>2, <2>4 DEF CallChain, Range
  <2> QED
    BY <2>5 DEF Frame, PipelineInv, OutputsStarted
<1> QED
  BY <1>1, <1>2, SoundNext, ConfiguredCorrect, PTL DEF Spec

-----------------------------------------------------------------------------
(* What operators may call, directly or not.  The recursive function of       *)
(* Reaches exists whatever the graph: what lies in every set that is closed   *)
(* under calling is a solution.  That it is closed itself needs that there is *)
(* no cycle.                                                                  *)

\* Every set of operators that each call one of the set is empty.
NoCycle ==
  \A S \in SUBSET Positions :
    S # {} => \E i \in S : CalledBy(outs, i) \cap S = {}

Below(d) ==
  d = [k \in Positions |-> {k} \cup UNION {d[o] : o \in CalledBy(outs, k)}]

\* The recursive function of Reaches exists.
LEMMA BelowExists ==
  ASSUME Wired
  PROVE  \E d : Below(d) /\ \A i, j : Reaches(i, j) <=> j \in d[i]
<1> DEFINE Closed == {S \in SUBSET Positions : \A k \in S : CalledBy(outs, k) \subseteq S}
           C(k) == {j \in Positions : \A S \in Closed : k \in S => j \in S}
           D == [k \in Positions |-> C(k)]
<1>1. \A k \in Positions : CalledBy(outs, k) \subseteq Positions
  BY CalledAreTargets DEF Targets, Positions
<1>2. ASSUME NEW k \in Positions
      PROVE  C(k) = {k} \cup UNION {D[o] : o \in CalledBy(outs, k)}
  <2> DEFINE R == {k} \cup UNION {D[o] : o \in CalledBy(outs, k)}
  <2>1. \A o \in CalledBy(outs, k) : o \in Positions /\ D[o] = C(o)
    BY <1>1
  <2>2. R \subseteq C(k)
    <3>1. k \in C(k)
      OBVIOUS
    <3>2. ASSUME NEW o \in CalledBy(outs, k), NEW j \in C(o) PROVE j \in C(k)
      OBVIOUS
    <3> HIDE DEF C, D
    <3> QED
      BY <2>1, <3>1, <3>2
  <2>3. R \in Closed
    <3>1. R \subseteq Positions
      BY <2>1
    <3>2. ASSUME NEW j \in R, NEW x \in CalledBy(outs, j) PROVE x \in R
      <4>1. CASE j = k
        <5>1. x \in C(x)
          BY <4>1, <2>1
        <5> HIDE DEF C, D
        <5> QED
          BY <5>1, <4>1, <2>1
      <4>2. CASE j # k
        <5>1. PICK o \in CalledBy(outs, k) : j \in D[o]
          BY <4>2
        <5>2. j \in C(o)
          BY <5>1, <2>1
        <5>3. x \in C(o)
          BY <5>2, <1>1
        <5> HIDE DEF C, D
        <5> QED
          BY <5>1, <5>3, <2>1
      <4> QED
        BY <4>1, <4>2
    <3> HIDE DEF R
    <3> QED
      BY <3>1, <3>2
  <2>4. C(k) \subseteq R
    <3>1. k \in R
      OBVIOUS
    <3> HIDE DEF R, Closed
    <3> QED
      BY <2>3, <3>1
  <2> HIDE DEF C, D
  <2> QED
    BY <2>2, <2>4
<1>3. D = [k \in Positions |-> {k} \cup UNION {D[o] : o \in CalledBy(outs, k)}]
  <2>1. \A k \in Positions : D[k] = C(k)
    OBVIOUS
  <2>2. \A k \in Positions : D[k] = {k} \cup UNION {D[o] : o \in CalledBy(outs, k)}
    <3> HIDE DEF C, D
    <3> QED
      BY <2>1, <1>2
  <2>3. D = [k \in Positions |-> D[k]]
    OBVIOUS
  <2> HIDE DEF C, D
  <2> QED
    BY <2>2, <2>3
<1>4. \E d : Below(d)
  <2> HIDE DEF C, D
  <2> QED
    BY <1>3 DEF Below
<1> DEFINE d == CHOOSE d : Below(d)
<1>5. Below(d)
  BY <1>4
<1>6. \A i, j : Reaches(i, j) <=> j \in d[i]
  BY DEF Reaches, Below
<1> HIDE DEF d
<1> QED
  BY <1>5, <1>6

\* An operator reaches itself and whatever those it reaches call.
LEMMA ReachesOn ==
  ASSUME Wired, NoCycle
  PROVE  /\ \A i \in Positions : Reaches(i, i)
         /\ \A i, j \in Positions : \A o \in CalledBy(outs, j) :
              o \in Positions /\ (Reaches(i, j) => Reaches(i, o))
         /\ \A i \in Positions : \A j : Reaches(i, j) => j \in Positions
<1>1. PICK d : Below(d) /\ \A i, j : Reaches(i, j) <=> j \in d[i]
  BY BelowExists
<1>2. \A k \in Positions : CalledBy(outs, k) \subseteq Positions
  BY CalledAreTargets DEF Targets, Positions
<1>3. \A k \in Positions : d[k] = {k} \cup UNION {d[o] : o \in CalledBy(outs, k)}
  BY <1>1 DEF Below
<1> DEFINE S == {i \in Positions : \E j \in d[i] \cap Positions :
                   \E o \in CalledBy(outs, j) : o \notin d[i]}
<1>4. S = {}
  <2> SUFFICES ASSUME S # {} PROVE FALSE
    OBVIOUS
  <2>1. PICK i \in S : CalledBy(outs, i) \cap S = {}
    BY DEF NoCycle
  <2>2. PICK j \in d[i] \cap Positions : \E o \in CalledBy(outs, j) : o \notin d[i]
    BY <2>1
  <2>3. \A x \in CalledBy(outs, i) : d[x] \subseteq d[i] /\ x \in d[x]
    BY <1>2, <1>3, <2>1
  <2>4. PICK o \in CalledBy(outs, j) : o \notin d[i]
    BY <2>2
  <2>4a. j # i
    BY <2>4, <2>3
  <2>5. PICK x \in CalledBy(outs, i) : j \in d[x]
    BY <1>3, <2>1, <2>2, <2>4a
  <2>6. x \in S
    BY <1>2, <2>1, <2>2, <2>4, <2>3, <2>5
  <2> QED
    BY <2>1, <2>5, <2>6
<1>5. \A i \in Positions : d[i] \subseteq Positions
  <2> DEFINE T == {i \in Positions : ~(d[i] \subseteq Positions)}
  <2> SUFFICES ASSUME T # {} PROVE FALSE
    OBVIOUS
  <2>1. PICK i \in T : CalledBy(outs, i) \cap T = {}
    BY DEF NoCycle
  <2>2. \A x \in CalledBy(outs, i) : d[x] \subseteq Positions
    BY <1>2, <2>1
  <2> QED
    BY <1>3, <2>1, <2>2
<1> QED
  BY <1>1, <1>2, <1>3, <1>4, <1>5

-----------------------------------------------------------------------------
(* Who may see what *)

\* Operator i is behind an output of a route, and j behind another one.
OtherBranch(i, j) ==
  \E k \in Positions : Is(k, {"router"}) /\ \E r \in DOMAIN outs[k] :
    \E a, b \in DOMAIN outs[k][r] :
      a # b /\ Reaches(outs[k][r][a], i) /\ Reaches(outs[k][r][b], j)

\* What operator i does to the entry, the holder v may see.
MaySee(i, v) == Reaches(i, v.op) \/ OtherBranch(i, v.op) \/ i \in v.passed

\* Two holders of one entry are in different branches of a route.
Apart(v, w) == OtherBranch(v.op, w.op) \/ v.op \in w.passed \/ w.op \in v.passed

\* A holder of a pointer: the operator, the pointer, and the operators that are
\* behind the outputs it was passed to already.
Holders ==
  {v \in [op : Positions, p : Int \X Int, passed : SUBSET Positions] :
     \A i \in v.passed : CalledBy(outs, i) \subseteq v.passed}

\* The other branch is so for both ...
LEMMA BranchesSymmetric ==
  ASSUME NEW i, NEW j, OtherBranch(i, j)
  PROVE  OtherBranch(j, i)
BY DEF OtherBranch

\* ... and for what they call.
LEMMA BranchesOn ==
  ASSUME Wired, NoCycle, NEW i, NEW j \in Positions, OtherBranch(i, j),
         NEW o \in CalledBy(outs, j)
  PROVE  OtherBranch(i, o) /\ OtherBranch(o, i)
<1>1. PICK k \in Positions : Is(k, {"router"}) /\ \E r \in DOMAIN outs[k] :
        \E a, b \in DOMAIN outs[k][r] :
          a # b /\ Reaches(outs[k][r][a], i) /\ Reaches(outs[k][r][b], j)
  BY DEF OtherBranch
<1>1a. PICK r \in DOMAIN outs[k] : \E a, b \in DOMAIN outs[k][r] :
          a # b /\ Reaches(outs[k][r][a], i) /\ Reaches(outs[k][r][b], j)
  BY <1>1
<1>2. PICK a \in DOMAIN outs[k][r], b \in DOMAIN outs[k][r] :
        a # b /\ Reaches(outs[k][r][a], i) /\ Reaches(outs[k][r][b], j)
  BY <1>1a
<1>3. outs[k][r][b] \in Positions
  <2>1. outs[k][r] \in Seq(Targets(ops))
    BY DEF Wired
  <2>2. outs[k][r][b] \in Targets(ops)
    BY <2>1, <1>2, LenProperties, ElementOfSeq
  <2> QED
    BY <2>2 DEF Targets, Positions
<1>4. Reaches(outs[k][r][b], o)
  BY <1>2, <1>3, ReachesOn
<1>5. OtherBranch(i, o)
  BY <1>1, <1>2, <1>4 DEF OtherBranch
<1> QED
  BY <1>5, BranchesSymmetric

\* The entry that an operator passes to the next output.
LEMMA PassedOn ==
  ASSUME Wired, NoCycle, NEW v \in Holders, NEW o \in CalledBy(outs, v.op),
         \A i \in v.passed : OtherBranch(i, o)
  PROVE  /\ \A i \in Positions : MaySee(i, v) => Reaches(i, o) \/ OtherBranch(i, o)
         /\ \A w \in Holders : Apart(v, w) => OtherBranch(o, w.op) \/ o \in w.passed
<1>0. v.op \in Positions
  BY DEF Holders
<1>1. ASSUME NEW i \in Positions, MaySee(i, v)
      PROVE  Reaches(i, o) \/ OtherBranch(i, o)
  BY <1>0, <1>1, ReachesOn, BranchesOn DEF MaySee
<1>2. ASSUME NEW w \in Holders, Apart(v, w)
      PROVE  OtherBranch(o, w.op) \/ o \in w.passed
  <2>1. CASE OtherBranch(v.op, w.op)
    BY <2>1, <1>0, BranchesSymmetric, BranchesOn
  <2>2. CASE v.op \in w.passed
    BY <2>2 DEF Holders
  <2>3. CASE w.op \in v.passed
    BY <2>3, BranchesSymmetric
  <2> QED
    BY <2>1, <2>2, <2>3, <1>2 DEF Apart
<1> QED
  BY <1>1, <1>2

-----------------------------------------------------------------------------
(* The graph of a pipeline that was built *)

\* Operators are connected to operators that take entries, without a cycle.
Graph == Running => Wired /\ NoCycle /\ Len(ops) \in Nat

\* A pipeline is only built if its graph is in order; a syslog input, whose edges
\* the graph lacks, is called by nobody.
LEMMA GraphNext ==
  ASSUME Configured, Graph, [Next]_vars
  PROVE  Graph'
<1>1. CASE Build
  <2> SUFFICES ASSUME Running' PROVE Wired' /\ NoCycle' /\ Len(ops') \in Nat
    BY DEF Graph
  <2>1. ops' = Built
    BY <1>1 DEF Build, Built
  <2>2. Built \in Seq(Operator) /\ Len(Built) \in Nat
    BY <1>1, BuiltIds, LenProperties DEF Configured, Build
  <2>3. /\ ~Unconnectable(Built) /\ outs' = Connected(Built)
        /\ ~Cyclic(Built, outs')
    BY <1>1 DEF Build, Running, Built
  <2>4. Positions' = 1..Len(Built)
    BY <2>1 DEF Positions
  <2>5. Wired'
    BY <2>1, <2>2, <2>3, <2>4, ConnectedWired DEF Wired
  <2>6. \A i \in Positions' : CalledBy(outs', i) \subseteq Targets(ops')
    <3> SUFFICES ASSUME NEW i \in Positions', NEW r \in DOMAIN outs'[i],
                        NEW o \in Range(outs'[i][r])
                 PROVE  o \in Targets(ops')
      BY DEF CalledBy
    <3>1. outs'[i][r] \in Seq(Targets(ops'))
      BY <2>5 DEF Wired
    <3> QED
      BY <3>1, RangeOfSeq
  <2>7. ASSUME NEW S \in SUBSET Positions', S # {},
               \A i \in S : CalledBy(outs', i) \cap S # {}
        PROVE  FALSE
    <3> DEFINE T == {i \in S : Built[i].kind # "syslog"}
    <3>1. ASSUME NEW i \in S PROVE CalledBy(outs', i) \cap T # {}
      <4>1. PICK o \in S : o \in CalledBy(outs', i)
        BY <2>7
      <4>2. o \in Targets(ops')
        BY <4>1, <2>6
      <4>3. o \in T
        BY <4>2, <2>1 DEF Targets
      <4> QED
        BY <4>1, <4>3
    <3>2. T # {}
      BY <2>7, <3>1
    <3>3. \A i \in T : Outputs(Built, outs', i) \cap T # {}
      BY <3>1 DEF Outputs
    <3>4. T \in SUBSET (1..Len(Built))
      BY <2>4
    <3> HIDE DEF T
    <3> QED
      BY <2>3, <3>2, <3>3, <3>4 DEF Cyclic
  <2> QED
    BY <2>1, <2>2, <2>5, <2>7 DEF NoCycle
<1>2. CASE UNCHANGED <<ops, outs>> /\ (Running' => Running)
  BY <1>2 DEF Graph, Wired, NoCycle, Positions, Targets
<1>3. Build \/ (UNCHANGED <<ops, outs>> /\ (Running' => Running))
  <2> USE DEF vars, buildVars, loopVars, flowVars
  <2>1. CASE UNCHANGED vars
    BY <2>1 DEF Running
  <2>2. CASE Start \/ StartOperator \/ StartError \/ Stop
    BY <2>2 DEF Start, StartOperator, StartError, Stop, Running
  <2>3. CASE Running /\ StopNext
    BY <2>3 DEF StopNext, StopOperator, StopBasic, CancelInput, WaitForInput, StopUnstarted,
                StopRecombine, Stopped
  <2>4. CASE Running /\ \E i \in Positions : NewEntry(i) \/ Tick(i)
    BY <2>4 DEF NewEntry, Tick
  <2>5. CASE \E g \in DOMAIN stacks : Step(g)
    <3>1. PICK g \in DOMAIN stacks : Step(g)
      BY <2>5
    <3>2. Return(g) \/ \E o \in Positions : CallMade(g, o)
      BY <3>1, ProcessCalls DEF Step
    <3> QED
      BY <3>1, <3>2 DEF Step, Return, CallMade
  <2> QED
    BY <2>1, <2>2, <2>3, <2>4, <2>5 DEF Next
<1> QED
  BY <1>1, <1>2, <1>3

-----------------------------------------------------------------------------
(* The heap *)

\* Entries are records in their places.
Heap(h) ==
  \E S : /\ h \in Seq(Seq(S))
         /\ \A e \in S : e = [of |-> e.of, by |-> e.by] /\ e.by \in Seq(Positions)

\* A pointer leads to an entry.
Valid(h, p) ==
  p \in Int \X Int /\ p[1] \in 1..Len(h) /\ p[2] \in 1..Len(h[p[1]])

\* Who has changed the entry.
By(h, p) == Range(h[p[1]][p[2]].by)

\* The lengths of the heap, and its entries.
LEMMA HeapShape ==
  ASSUME NEW h, Heap(h)
  PROVE  /\ Len(h) \in Nat /\ DOMAIN h = 1..Len(h)
         /\ \A n \in 1..Len(h) : Len(h[n]) \in Nat /\ DOMAIN h[n] = 1..Len(h[n])
         /\ \A p : Valid(h, p) =>
              LET e == h[p[1]][p[2]]
              IN  /\ e = [of |-> e.of, by |-> e.by]
                  /\ e.by \in Seq(Positions) /\ By(h, p) \subseteq Positions
<1>1. PICK S : /\ h \in Seq(Seq(S))
               /\ \A e \in S : e = [of |-> e.of, by |-> e.by] /\ e.by \in Seq(Positions)
  BY DEF Heap
<1>2. Len(h) \in Nat /\ DOMAIN h = 1..Len(h)
  BY <1>1, LenProperties
<1>3. \A n \in 1..Len(h) : h[n] \in Seq(S)
  BY <1>1, ElementOfSeq
<1>4. \A n \in 1..Len(h) : Len(h[n]) \in Nat /\ DOMAIN h[n] = 1..Len(h[n])
  BY <1>3, LenProperties
<1>5. ASSUME NEW p, Valid(h, p)
      PROVE  h[p[1]][p[2]] \in S
  BY <1>3, <1>5, ElementOfSeq DEF Valid
<1>6. ASSUME NEW e \in S PROVE Range(e.by) \subseteq Positions
  BY <1>1, RangeOfSeq
<1> QED
  BY <1>1, <1>2, <1>4, <1>5, <1>6 DEF By

\* An entry is replaced.
WithEntry(h, p, e) == [h EXCEPT ![p[1]] = [h[p[1]] EXCEPT ![p[2]] = e]]

\* The others stay as they are.
LEMMA Replaced ==
  ASSUME NEW h, Heap(h), NEW p, Valid(h, p),
         NEW e, e = [of |-> e.of, by |-> e.by], e.by \in Seq(Positions),
         NEW h2, h2 = WithEntry(h, p, e)
  PROVE  /\ Heap(h2)
         /\ \A q : Valid(h2, q) <=> Valid(h, q)
         /\ \A q : Valid(h, q) /\ q # p => h2[q[1]][q[2]] = h[q[1]][q[2]]
         /\ h2[p[1]][p[2]] = e
<1> DEFINE n == p[1]
           m == p[2]
           l == [h[n] EXCEPT ![m] = e]
<1>1. PICK S : /\ h \in Seq(Seq(S))
               /\ \A x \in S : x = [of |-> x.of, by |-> x.by] /\ x.by \in Seq(Positions)
  BY DEF Heap
<1> DEFINE T == S \cup {e}
<1>2. n \in 1..Len(h) /\ m \in 1..Len(h[n]) /\ p = <<n, m>>
  BY DEF Valid
<1>3. Seq(S) \subseteq Seq(T)
  BY SeqMonotonic
<1>4. h \in Seq(Seq(T))
  BY <1>1, <1>3, SeqMonotonic
<1>5. h[n] \in Seq(T)
  BY <1>2, <1>4, ElementOfSeq
<1>6. /\ l \in Seq(T) /\ Len(l) = Len(h[n])
      /\ \A k \in 1..Len(h[n]) : l[k] = IF k = m THEN e ELSE h[n][k]
  BY <1>2, <1>5, ExceptSeq
<1> HIDE DEF l
<1>7. /\ h2 \in Seq(Seq(T)) /\ Len(h2) = Len(h)
      /\ \A k \in 1..Len(h) : h2[k] = IF k = n THEN l ELSE h[k]
  <2>1. h2 = [h EXCEPT ![n] = l]
    BY DEF l, WithEntry
  <2> HIDE DEF T
  <2> QED
    BY <2>1, <1>2, <1>4, <1>6, ExceptSeq
<1>8. Heap(h2)
  <2>1. \A x \in T : x = [of |-> x.of, by |-> x.by] /\ x.by \in Seq(Positions)
    BY <1>1
  <2> HIDE DEF T
  <2> QED
    BY <2>1, <1>7 DEF Heap
<1> HIDE DEF T
<1>9. \A q : Valid(h2, q) <=> Valid(h, q)
  BY <1>6, <1>7 DEF Valid
<1>10. ASSUME NEW q, Valid(h, q), q # p
       PROVE  h2[q[1]][q[2]] = h[q[1]][q[2]]
  <2>1. q = <<q[1], q[2]>> /\ q[1] \in 1..Len(h) /\ q[2] \in 1..Len(h[q[1]])
    BY <1>10 DEF Valid
  <2>2. q[1] # n \/ q[2] # m
    BY <2>1, <1>2, <1>10
  <2> QED
    BY <2>1, <2>2, <1>6, <1>7
<1>11. h2[n][m] = e
  BY <1>2, <1>6, <1>7
<1> QED
  BY <1>8, <1>9, <1>10, <1>11

\* The list of those who changed an entry.
LEMMA Noted ==
  ASSUME NEW s \in Seq(Positions), NEW i \in Positions
  PROVE  Append(s, i) \in Seq(Positions) /\ Range(Append(s, i)) = Range(s) \cup {i}
<1>1. /\ Len(Append(s, i)) = Len(s) + 1 /\ Len(s) \in Nat
      /\ Append(s, i) \in Seq(Positions)
      /\ \A k \in 1..Len(s) : Append(s, i)[k] = s[k]
      /\ Append(s, i)[Len(s) + 1] = i
  BY AppendProperties, LenProperties
<1>2. DOMAIN Append(s, i) = 1..(Len(s) + 1) /\ DOMAIN s = 1..Len(s)
  BY <1>1, LenProperties
<1> QED
  BY <1>1, <1>2 DEF Range

\* An operator changes an entry.
LEMMA Changed ==
  ASSUME NEW h, Heap(h), NEW p, Valid(h, p), NEW i \in Positions
  PROVE  LET h2 == ChangedBy(h, p, i)
         IN  /\ Heap(h2)
             /\ \A q : Valid(h2, q) <=> Valid(h, q)
             /\ \A q : Valid(h, q) /\ q # p => By(h2, q) = By(h, q)
             /\ By(h2, p) = By(h, p) \cup {i}
<1>1. PICK x : x = h[p[1]][p[2]]
  OBVIOUS
<1>2. x = [of |-> x.of, by |-> x.by] /\ x.by \in Seq(Positions)
  BY <1>1, HeapShape
<1>3. PICK b : b = Append(x.by, i)
  OBVIOUS
<1>4. b \in Seq(Positions) /\ Range(b) = Range(x.by) \cup {i}
  BY <1>2, <1>3, Noted
<1>5. PICK e : e = [of |-> x.of, by |-> b]
  OBVIOUS
<1>6. e = [of |-> e.of, by |-> e.by] /\ e.by = b
  BY <1>5
<1>7. [x EXCEPT !.by = b] = e
  BY <1>2, <1>5, SMT
<1>8. PICK h2 : h2 = ChangedBy(h, p, i)
  OBVIOUS
<1>9. h2 = WithEntry(h, p, e)
  <2>1. h2 = [h EXCEPT ![p[1]] = [h[p[1]] EXCEPT ![p[2]] = [x EXCEPT !.by = Append(x.by, i)]]]
    BY <1>1, <1>8, Zenon DEF ChangedBy
  <2> QED
    BY <2>1, <1>3, <1>7 DEF WithEntry
<1>10. /\ Heap(h2)
       /\ \A q : Valid(h2, q) <=> Valid(h, q)
       /\ \A q : Valid(h, q) /\ q # p => h2[q[1]][q[2]] = h[q[1]][q[2]]
       /\ h2[p[1]][p[2]] = e
  BY SMTT(30), <1>4, <1>6, <1>9, Replaced
<1>11. By(h2, p) = By(h, p) \cup {i}
  BY <1>1, <1>4, <1>6, <1>10 DEF By
<1>12. \A q : Valid(h, q) /\ q # p => By(h2, q) = By(h, q)
  BY <1>10 DEF By
<1> QED
  BY <1>8, <1>10, <1>11, <1>12

\* Combining is a change; the text does not matter here.
LEMMA CombinedChanged ==
  ASSUME NEW h, Heap(h), NEW ps, NEW p, Valid(h, p), NEW i \in Positions
  PROVE  LET h2 == Combined(h, ps, p, i)
         IN  /\ Heap(h2)
             /\ \A q : Valid(h2, q) <=> Valid(h, q)
             /\ \A q : Valid(h, q) /\ q # p => By(h2, q) = By(h, q)
             /\ By(h2, p) = By(h, p) \cup {i}
<1>1. PICK h1 : h1 = ChangedBy(h, p, i)
  OBVIOUS
<1>2. /\ Heap(h1)
      /\ \A q : Valid(h1, q) <=> Valid(h, q)
      /\ \A q : Valid(h, q) /\ q # p => By(h1, q) = By(h, q)
      /\ By(h1, p) = By(h, p) \cup {i}
  BY <1>1, Changed
<1>3. PICK x : x = h1[p[1]][p[2]]
  OBVIOUS
<1>4. x = [of |-> x.of, by |-> x.by] /\ x.by \in Seq(Positions)
  BY <1>2, <1>3, HeapShape
<1>5. PICK t : t = FlattenSeq([k \in 1..Len(ps) |-> h[ps[k][1]][ps[k][2]].of])
  OBVIOUS
<1>6. PICK e : e = [of |-> t, by |-> x.by]
  OBVIOUS
<1>7. e = [of |-> e.of, by |-> e.by] /\ e.by = x.by
  BY <1>6
<1>8. [x EXCEPT !.of = t] = e
  BY <1>4, <1>6, SMT
<1>9. PICK h2 : h2 = Combined(h, ps, p, i)
  OBVIOUS
<1>10. h2 = WithEntry(h1, p, e)
  <2>1. h2 = [h1 EXCEPT ![p[1]] = [h1[p[1]] EXCEPT ![p[2]] = [x EXCEPT !.of = t]]]
    BY <1>1, <1>3, <1>5, <1>9, Zenon DEF Combined
  <2> QED
    BY <2>1, <1>8 DEF WithEntry
<1>11. /\ Heap(h2)
       /\ \A q : Valid(h2, q) <=> Valid(h1, q)
       /\ \A q : Valid(h1, q) /\ q # p => h2[q[1]][q[2]] = h1[q[1]][q[2]]
       /\ h2[p[1]][p[2]] = e
  <2>1. Heap(h1) /\ Valid(h1, p) /\ e.by \in Seq(Positions)
    BY <1>2, <1>4, <1>7
  <2> QED
    BY <2>1, <1>7, <1>10, Replaced
<1>12. By(h2, p) = By(h, p) \cup {i}
  BY <1>2, <1>3, <1>7, <1>11 DEF By
<1>13. \A q : Valid(h, q) /\ q # p => By(h2, q) = By(h, q)
  BY <1>2, <1>11 DEF By
<1> QED
  BY <1>2, <1>9, <1>11, <1>12, <1>13

\* An entry is copied: nobody had a pointer to the copy.
LEMMA Copied ==
  ASSUME NEW h, Heap(h), NEW p, Valid(h, p)
  PROVE  LET n == p[1]
             h2 == [h EXCEPT ![n] = Append(@, h[p[1]][p[2]])]
             c == <<n, Len(h[n]) + 1>>
         IN  /\ Heap(h2) /\ Valid(h2, c) /\ ~Valid(h, c)
             /\ \A q : Valid(h, q) => Valid(h2, q) /\ By(h2, q) = By(h, q)
             /\ By(h2, c) = By(h, p)
<1> DEFINE n == p[1]
           x == h[p[1]][p[2]]
           l == Append(h[n], x)
           m == Len(h[n])
           h2 == [h EXCEPT ![n] = l]
           c == <<n, m + 1>>
<1>1. PICK S : /\ h \in Seq(Seq(S))
               /\ \A e \in S : e = [of |-> e.of, by |-> e.by] /\ e.by \in Seq(Positions)
  BY DEF Heap
<1>2. n \in 1..Len(h) /\ p[2] \in 1..m /\ p = <<n, p[2]>>
  BY DEF Valid
<1>3. h[n] \in Seq(S) /\ m \in Nat
  BY <1>1, <1>2, ElementOfSeq, LenProperties
<1>4. x \in S
  BY <1>2, <1>3, ElementOfSeq
<1> HIDE DEF x
<1>5. /\ l \in Seq(S) /\ Len(l) = m + 1
      /\ \A k \in 1..m : l[k] = h[n][k]
      /\ l[m + 1] = x
  BY <1>3, <1>4, AppendProperties
<1> HIDE DEF l, m
<1>6. /\ h2 \in Seq(Seq(S)) /\ Len(h2) = Len(h)
      /\ \A k \in 1..Len(h) : h2[k] = IF k = n THEN l ELSE h[k]
  BY <1>1, <1>2, <1>5, ExceptSeq
<1> HIDE DEF h2
<1>7. Heap(h2)
  BY <1>1, <1>6 DEF Heap
<1>8. h2[n] = l /\ n \in Int /\ n \in 1..Len(h2)
  BY <1>1, <1>2, <1>6, LenProperties
<1>9. Valid(h2, c)
  BY <1>3, <1>5, <1>8 DEF Valid
<1>10. ~Valid(h, c)
  BY <1>3 DEF Valid, m
<1>11. ASSUME NEW q, Valid(h, q)
       PROVE  Valid(h2, q) /\ By(h2, q) = By(h, q)
  <2>1. q \in Int \X Int /\ q[1] \in 1..Len(h) /\ q[2] \in 1..Len(h[q[1]])
    BY <1>11 DEF Valid
  <2>2. q[2] \in 1..Len(h2[q[1]]) /\ h2[q[1]][q[2]] = h[q[1]][q[2]]
    <3>1. CASE q[1] = n
      <4>1. q[2] \in 1..m
        BY <2>1, <3>1 DEF m
      <4>2. h2[q[1]] = l /\ q[2] \in 1..(m + 1)
        BY <1>3, <1>8, <3>1, <4>1
      <4> QED
        BY <1>5, <3>1, <4>1, <4>2
    <3>2. CASE q[1] # n
      BY <2>1, <3>2, <1>6
    <3> QED
      BY <3>1, <3>2
  <2> QED
    BY <2>1, <2>2, <1>6 DEF Valid, By
<1>12. By(h2, c) = By(h, p)
  BY <1>5, <1>8 DEF By, x
<1> QED
  BY <1>7, <1>9, <1>10, <1>11, <1>12 DEF h2, l, m, x

\* An input makes an entry.
LEMMA Made ==
  ASSUME NEW h, Heap(h)
  PROVE  LET h2 == Append(h, <<[of |-> <<Len(h) + 1>>, by |-> <<>>]>>)
             c == <<Len(h) + 1, 1>>
         IN  /\ Heap(h2) /\ Valid(h2, c) /\ ~Valid(h, c)
             /\ \A q : Valid(h, q) => Valid(h2, q) /\ By(h2, q) = By(h, q)
             /\ By(h2, c) = {}
<1> DEFINE N == Len(h)
           x == [of |-> <<N + 1>>, by |-> <<>>]
           l == <<x>>
           h2 == Append(h, l)
           c == <<N + 1, 1>>
<1>1. PICK S : /\ h \in Seq(Seq(S))
               /\ \A e \in S : e = [of |-> e.of, by |-> e.by] /\ e.by \in Seq(Positions)
  BY DEF Heap
<1> DEFINE T == S \cup {x}
<1>2. x = [of |-> x.of, by |-> x.by] /\ x.by = <<>> /\ <<>> \in Seq(Positions)
  OBVIOUS
<1>3. \A e \in T : e = [of |-> e.of, by |-> e.by] /\ e.by \in Seq(Positions)
  <2> HIDE DEF x
  <2> QED
    BY <1>1, <1>2
<1>4. Seq(S) \subseteq Seq(T)
  BY SeqMonotonic
<1>5. h \in Seq(Seq(T)) /\ N \in Nat
  BY <1>1, <1>4, SeqMonotonic, LenProperties
<1> HIDE DEF x
<1>6. l \in Seq(T) /\ Len(l) = 1 /\ l[1] = x
  OBVIOUS
<1> HIDE DEF l, T, N
<1>7. /\ h2 \in Seq(Seq(T)) /\ Len(h2) = N + 1
      /\ \A k \in 1..N : h2[k] = h[k]
      /\ h2[N + 1] = l
  BY <1>5, <1>6, AppendProperties DEF N
<1> HIDE DEF h2
<1>8. Heap(h2)
  BY <1>3, <1>7 DEF Heap
<1>9. Valid(h2, c)
  <2>1. c[1] = N + 1 /\ c[2] = 1 /\ c \in Int \X Int
    BY <1>5
  <2>2. c[1] \in 1..Len(h2) /\ h2[c[1]] = l
    BY <2>1, <1>5, <1>7
  <2> QED
    BY <2>1, <2>2, <1>6 DEF Valid
<1>10. ~Valid(h, c)
  BY <1>5 DEF Valid, N
<1>11. ASSUME NEW q, Valid(h, q)
       PROVE  Valid(h2, q) /\ By(h2, q) = By(h, q)
  <2>1. q \in Int \X Int /\ q[1] \in 1..N /\ q[2] \in 1..Len(h[q[1]])
    BY <1>11 DEF Valid, N
  <2>2. h2[q[1]] = h[q[1]] /\ q[1] \in 1..(N + 1)
    BY <2>1, <1>5, <1>7
  <2> QED
    BY <2>1, <2>2, <1>7 DEF Valid, By
<1>12. By(h2, c) = {}
  <2>1. h2[c[1]][c[2]] = x
    BY <1>6, <1>7
  <2>2. By(h2, c) = Range(<<>>)
    BY <2>1, <1>2 DEF By
  <2> QED
    BY <2>2 DEF Range
<1> QED
  BY <1>8, <1>9, <1>10, <1>11, <1>12 DEF h2, l, x, N

-----------------------------------------------------------------------------
(* Calls *)

\* What a call may write to.
Routes == {1} \cup UNION {DOMAIN outs[i] : i \in Positions}

\* How many outputs the first pending entry of a call was passed to.
Done(f) == Len(OutputsOf(f.op, f.route)) - Len(f.todo)

\* The operators behind them, if the call is a router's: they have that very entry.
Passed(f) ==
  IF Is(f.op, {"router"})
  THEN {i \in Positions : \E a \in 1..Done(f) : Reaches(OutputsOf(f.op, f.route)[a], i)}
  ELSE {}

\* What is left to do is the end of what there was to do.
CallRecords ==
  {f \in [op : Positions, pending : Seq(Int \X Int), route : Routes, todo : Seq(Positions)] :
     /\ Done(f) \in Nat
     /\ \A k \in 1..Len(f.todo) : f.todo[k] = OutputsOf(f.op, f.route)[Done(f) + k]
     /\ f.pending = <<>> => f.todo = <<>>}

\* The outputs of a route are called by its operator.
LEMMA OutputsOfRoute ==
  ASSUME Wired, NEW i \in Positions, NEW r
  PROVE  /\ OutputsOf(i, r) \in Seq(Positions)
         /\ \A a \in 1..Len(OutputsOf(i, r)) :
              /\ r \in DOMAIN outs[i] /\ OutputsOf(i, r) = outs[i][r]
              /\ a \in DOMAIN outs[i][r] /\ OutputsOf(i, r)[a] \in CalledBy(outs, i)
<1>1. CASE r \in DOMAIN outs[i]
  <2>1. outs[i][r] \in Seq(Targets(ops)) /\ OutputsOf(i, r) = outs[i][r]
    BY <1>1 DEF Wired, OutputsOf
  <2>2. Targets(ops) \subseteq Positions
    BY DEF Targets, Positions
  <2>3. outs[i][r] \in Seq(Positions)
    BY <2>1, <2>2, SeqMonotonic
  <2>4. DOMAIN outs[i][r] = 1..Len(outs[i][r])
    BY <2>1, LenProperties
  <2>5. \A a \in DOMAIN outs[i][r] : outs[i][r][a] \in CalledBy(outs, i)
    BY <1>1 DEF CalledBy, Range
  <2> QED
    BY <1>1, <2>1, <2>3, <2>4, <2>5
<1>2. CASE r \notin DOMAIN outs[i]
  <2>1. OutputsOf(i, r) = <<>>
    BY <1>2 DEF OutputsOf
  <2>2. <<>> \in Seq(Positions) /\ Len(<<>>) = 0 /\ \A a \in 1..0 : FALSE
    OBVIOUS
  <2> QED
    BY <2>1, <2>2
<1> QED
  BY <1>1, <1>2

\* A call that begins to write.
LEMMA WritingCall ==
  ASSUME Wired, NEW i \in Positions, NEW x \in Seq(Int \X Int), NEW r \in Routes
  PROVE  LET f == Writing(i, x, r)
         IN  /\ f \in CallRecords /\ f.op = i /\ f.pending = x
             /\ f.todo # <<>> => Passed(f) = {}
<1> DEFINE f == Writing(i, x, r)
           l == OutputsOf(i, r)
<1>1. l \in Seq(Positions) /\ Len(l) \in Nat
  BY OutputsOfRoute, LenProperties
<1>2. /\ f = [op |-> i, pending |-> x, route |-> r, todo |-> IF x = <<>> THEN <<>> ELSE l]
      /\ f.op = i /\ f.pending = x /\ f.route = r
      /\ f.todo = IF x = <<>> THEN <<>> ELSE l
  BY DEF Writing
<1>3. <<>> \in Seq(Positions) /\ Len(<<>>) = 0
  OBVIOUS
<1> HIDE DEF f, l
<1>4. f \in [op : Positions, pending : Seq(Int \X Int), route : Routes, todo : Seq(Positions)]
  BY <1>1, <1>2, <1>3
<1>5. CASE x = <<>>
  <2>1. Done(f) = Len(l) /\ f.todo = <<>>
    BY <1>1, <1>2, <1>3, <1>5 DEF Done, l
  <2>2. \A k \in 1..Len(f.todo) : FALSE
    BY <2>1, <1>3
  <2> QED
    BY <1>1, <1>2, <1>4, <2>1, <2>2 DEF CallRecords, f
<1>6. CASE x # <<>>
  <2>1. Done(f) = 0 /\ f.todo = l
    BY <1>1, <1>2, <1>6 DEF Done, l
  <2>2. \A k \in 1..Len(f.todo) : f.todo[k] = OutputsOf(f.op, f.route)[Done(f) + k]
    BY <2>1, <1>1, <1>2 DEF l
  <2>3. Passed(f) = {}
    BY <2>1 DEF Passed
  <2> QED
    BY <1>2, <1>4, <1>6, <2>1, <2>2, <2>3 DEF CallRecords, f
<1> QED
  BY <1>5, <1>6

\* One output is done.
OutputDone(f) == [f EXCEPT !.todo = Tail(@)]

\* The next output of a call.
LEMMA NextOutput ==
  ASSUME Wired, NoCycle, NEW f \in CallRecords, f.todo # <<>>
  PROVE  LET o == Head(f.todo)
             f2 == OutputDone(f)
         IN  /\ o \in CalledBy(outs, f.op) /\ o \in Positions
             /\ f2 \in CallRecords /\ f2.op = f.op /\ f2.pending = f.pending
             /\ f2.todo = Tail(f.todo)
             /\ \A i \in Passed(f) : OtherBranch(i, o)
             /\ Passed(f) \subseteq Passed(f2)
             /\ \A i \in Passed(f2) : i \in Passed(f) \/ (Is(f.op, {"router"}) /\ Reaches(o, i))
             /\ Is(f.op, {"router"}) => o \in Passed(f2)
<1> DEFINE o == Head(f.todo)
           f2 == OutputDone(f)
           l == OutputsOf(f.op, f.route)
           n == Done(f)
<1>1. /\ f \in [op : Positions, pending : Seq(Int \X Int), route : Routes, todo : Seq(Positions)]
      /\ n \in Nat /\ \A k \in 1..Len(f.todo) : f.todo[k] = l[n + k]
      /\ f.pending = <<>> => f.todo = <<>>
  BY DEF CallRecords
<1>2. /\ f.op \in Positions /\ f.todo \in Seq(Positions) /\ Len(f.todo) \in Nat
      /\ Len(f.todo) >= 1
  BY <1>1, LenProperties, EmptySeq
<1>3. l \in Seq(Positions) /\ Len(l) \in Nat /\ n = Len(l) - Len(f.todo)
  BY <1>2, OutputsOfRoute, LenProperties DEF Done
<1>4. o = f.todo[1] /\ o = l[n + 1] /\ n + 1 \in 1..Len(l)
  <2>1. o = f.todo[1]
    BY <1>2, HeadTailProperties
  <2>2. f.todo[1] = l[n + 1] /\ n + 1 \in 1..Len(l)
    <3> HIDE DEF n, l
    <3> QED
      BY <1>1, <1>2, <1>3
  <2> QED
    BY <2>1, <2>2
<1>5. /\ \A a \in 1..Len(l) : f.route \in DOMAIN outs[f.op] /\ l = outs[f.op][f.route]
                             /\ a \in DOMAIN outs[f.op][f.route]
                             /\ l[a] \in CalledBy(outs, f.op)
      /\ \A a \in 1..Len(l) : l[a] \in Positions
  BY <1>2, <1>3, OutputsOfRoute, ElementOfSeq
<1>6. o \in CalledBy(outs, f.op) /\ o \in Positions
  BY <1>4, <1>5
<1>7. /\ Tail(f.todo) \in Seq(Positions) /\ Len(Tail(f.todo)) = Len(f.todo) - 1
      /\ \A k \in 1..Len(Tail(f.todo)) : Tail(f.todo)[k] = f.todo[k + 1]
  BY <1>2, HeadTailProperties
<1>8. /\ f2 \in [op : Positions, pending : Seq(Int \X Int), route : Routes,
                todo : Seq(Positions)]
      /\ f2.op = f.op /\ f2.pending = f.pending /\ f2.route = f.route
      /\ f2.todo = Tail(f.todo)
  <2>1. f = [op |-> f.op, pending |-> f.pending, route |-> f.route, todo |-> f.todo]
    BY <1>1
  <2>2. PICK t : t = Tail(f.todo)
    OBVIOUS
  <2>3. [f EXCEPT !.todo = t]
          = [op |-> f.op, pending |-> f.pending, route |-> f.route, todo |-> t]
    BY <2>1, SMTT(30)
  <2>4. f2 = [op |-> f.op, pending |-> f.pending, route |-> f.route, todo |-> t]
    BY <2>2, <2>3 DEF OutputDone
  <2> HIDE DEF f2
  <2>5. t \in Seq(Positions)
    BY <1>7, <2>2
  <2> QED
    BY <1>1, <2>2, <2>4, <2>5
<1> HIDE DEF f2, n, o
<1>9. Done(f2) = n + 1
  <2>1. Done(f2) = Len(l) - Len(f2.todo)
    BY <1>8 DEF Done
  <2>2. Len(f2.todo) = Len(f.todo) - 1
    BY <1>7, <1>8
  <2> HIDE DEF l
  <2> QED
    BY <2>1, <2>2, <1>2, <1>3
<1> HIDE DEF l
<1>10. f2 \in CallRecords
  <2>1. \A k \in 1..Len(f2.todo) : f2.todo[k] = l[Done(f2) + k]
    <3> SUFFICES ASSUME NEW k \in 1..Len(f2.todo)
                 PROVE  f2.todo[k] = l[Done(f2) + k]
      OBVIOUS
    <3>1. k + 1 \in 1..Len(f.todo) /\ n + (k + 1) = n + 1 + k
      BY <1>1, <1>2, <1>7, <1>8
    <3>2. f2.todo[k] = f.todo[k + 1]
      BY <1>7, <1>8
    <3> QED
      BY <1>1, <3>1, <3>2, <1>9
  <2>2. Done(f2) \in Nat
    BY <1>1, <1>9
  <2> QED
    BY <1>1, <1>8, <2>1, <2>2 DEF CallRecords, l
<1>11. \A a \in 1..n : a \in 1..Len(l) /\ a # n + 1
  BY <1>1, <1>3, <1>4
<1>12. CASE Is(f.op, {"router"})
  <2>1. Is(f2.op, {"router"})
    BY <1>8, <1>12
  <2>2. Passed(f) = {i \in Positions : \E a \in 1..n : Reaches(l[a], i)}
    BY <1>12 DEF Passed, n, l
  <2>3. Passed(f2) = {i \in Positions : \E a \in 1..(n + 1) : Reaches(l[a], i)}
    BY <2>1, <1>8, <1>9 DEF Passed, l
  <2>4. ASSUME NEW i \in Passed(f) PROVE OtherBranch(i, o)
    <3>1. PICK a \in 1..n : Reaches(l[a], i)
      BY <2>2
    <3>2. Reaches(l[n + 1], o)
      BY <1>4, <1>6, ReachesOn
    <3> QED
      BY <3>1, <3>2, <1>2, <1>4, <1>5, <1>11, <1>12 DEF OtherBranch
  <2>5. \A a \in 1..(n + 1) : a \in 1..n \/ a = n + 1
    BY <1>1
  <2>6. n + 1 \in 1..(n + 1) /\ 1..n \subseteq 1..(n + 1)
    BY <1>1
  <2>7. Reaches(o, o)
    BY <1>6, ReachesOn
  <2> QED
    BY <2>2, <2>3, <2>4, <2>5, <2>6, <2>7, <1>4, <1>6, <1>8, <1>10, <1>12 DEF f2, o
<1>13. CASE ~Is(f.op, {"router"})
  <2>1. Passed(f) = {} /\ Passed(f2) = {}
    BY <1>8, <1>13 DEF Passed
  <2> QED
    BY <2>1, <1>6, <1>8, <1>10, <1>13 DEF f2, o
<1> QED
  BY <1>12, <1>13

\* What is behind an output stays behind it.
LEMMA PassedOnly ==
  ASSUME Wired, NoCycle, NEW f \in CallRecords
  PROVE  /\ Passed(f) \subseteq Positions
         /\ \A i \in Passed(f) : CalledBy(outs, i) \subseteq Passed(f)
<1> DEFINE l == OutputsOf(f.op, f.route)
<1>1. f.op \in Positions /\ Done(f) \in Nat /\ f.todo \in Seq(Positions)
  BY DEF CallRecords
<1>2. \A a \in 1..Done(f) : l[a] \in Positions
  <2>1. l \in Seq(Positions) /\ Len(l) \in Nat /\ Len(f.todo) \in Nat
    BY <1>1, OutputsOfRoute, LenProperties
  <2>2. Done(f) <= Len(l)
    <3>1. Done(f) = Len(l) - Len(f.todo)
      BY DEF Done
    <3> HIDE DEF l
    <3> QED
      BY <3>1, <2>1
  <2> HIDE DEF l
  <2>3. \A a \in 1..Len(l) : l[a] \in Positions
    BY <2>1, ElementOfSeq
  <2> QED
    BY <1>1, <2>1, <2>2, <2>3
<1>3. ASSUME NEW i \in Positions, NEW a \in 1..Done(f), Reaches(l[a], i),
             NEW o \in CalledBy(outs, i)
      PROVE  o \in Positions /\ Reaches(l[a], o)
  BY <1>2, <1>3, ReachesOn
<1> QED
  BY <1>3 DEF Passed

-----------------------------------------------------------------------------
(* Who holds pointers: calls, batches, and the argument of a call that is     *)
(* being made, which the steps of a proof need.                               *)

\* The graph of a pipeline that runs.
GoodGraph == Wired /\ NoCycle /\ Len(ops) \in Nat

\* The stacks, the batches and the arguments.
Typed(st, ba, c) ==
  /\ st \in [Goroutines -> Seq(CallRecords)]
  /\ ba \in [Positions -> Seq(Int \X Int)]
  /\ c \in Seq(Holders)

\* <<g, d, q>>: the q-th pending entry of the d-th call of goroutine g, unless that
\* is the first one and was passed to every output; <<-1, j, k>>: the k-th entry
\* of the batch of j; <<-2, 0, k>>: an argument.
IsPlace(st, ba, c, s) ==
  \/ /\ s[1] \in Goroutines /\ s[2] \in 1..Len(st[s[1]])
     /\ s[3] \in 1..Len(st[s[1]][s[2]].pending)
     /\ s[3] = 1 => st[s[1]][s[2]].todo # <<>>
  \/ s[1] = -1 /\ s[2] \in Positions /\ s[3] \in 1..Len(ba[s[2]])
  \/ s[1] = -2 /\ s[2] = 0 /\ s[3] \in 1..Len(c)

\* All of them.
Places(st, ba, c) == {s \in Int \X Int \X Int : IsPlace(st, ba, c, s)}

\* Who holds the pointer that is at a place.
CallHolder(f, q) ==
  [op |-> f.op, p |-> f.pending[q], passed |-> IF q = 1 THEN Passed(f) ELSE {}]

Holder(st, ba, c, s) ==
  IF s[1] = -1 THEN [op |-> s[2], p |-> ba[s[2]][s[3]], passed |-> {}]
  ELSE IF s[1] = -2 THEN c[s[3]]
  ELSE CallHolder(st[s[1]][s[2]], s[3])

\* A holder may see what was done to its entry, and two holders of one entry are
\* in different branches.  BranchesIsolated alone is not inductive: what it says
\* of an entry holds after the next change only because of who else has it, in a
\* batch, further down in a stack or behind the other outputs of a router.
Isolated(st, ba, c, h) ==
  /\ Typed(st, ba, c) /\ Heap(h)
  /\ \A s \in Places(st, ba, c) :
       /\ Valid(h, Holder(st, ba, c, s).p)
       /\ \A i \in By(h, Holder(st, ba, c, s).p) : MaySee(i, Holder(st, ba, c, s))
  /\ \A s, t \in Places(st, ba, c) :
       s # t /\ Holder(st, ba, c, s).p = Holder(st, ba, c, t).p
         => Apart(Holder(st, ba, c, s), Holder(st, ba, c, t))

\* Goroutines have numbers from 0.
LEMMA GoroutineNumbers ==
  ASSUME Len(ops) \in Nat
  PROVE  /\ Goroutines \subseteq Nat /\ Positions \subseteq Goroutines
         /\ Positions \subseteq Nat /\ Main \in Goroutines
         /\ -1 \notin Goroutines /\ -2 \notin Goroutines /\ 0 \notin Positions
BY DEF Goroutines, Positions, Main

\* Every place has a holder.
LEMMA PlaceHolder ==
  ASSUME GoodGraph, NEW st, NEW ba, NEW c, Typed(st, ba, c), NEW s \in Places(st, ba, c)
  PROVE  Holder(st, ba, c, s) \in Holders
<1>1. s \in Int \X Int \X Int /\ IsPlace(st, ba, c, s)
  BY DEF Places
<1>2. CASE s[1] = -1
  <2>1. s[2] \in Positions /\ s[3] \in 1..Len(ba[s[2]])
    BY <1>1, <1>2, GoroutineNumbers DEF IsPlace, GoodGraph
  <2>2. ba[s[2]][s[3]] \in Int \X Int
    BY <2>1, ElementOfSeq DEF Typed
  <2> QED
    BY <1>2, <2>1, <2>2 DEF Holder, Holders
<1>3. CASE s[1] = -2
  <2>1. s[3] \in 1..Len(c)
    BY <1>1, <1>3, GoroutineNumbers DEF IsPlace, GoodGraph
  <2>2. c[s[3]] \in Holders
    BY <2>1, ElementOfSeq DEF Typed
  <2> QED
    BY <1>3, <2>2 DEF Holder
<1>4. CASE s[1] # -1 /\ s[1] # -2
  <2> DEFINE f == st[s[1]][s[2]]
  <2>1. /\ s[1] \in Goroutines /\ s[2] \in 1..Len(st[s[1]])
        /\ s[3] \in 1..Len(f.pending)
    BY <1>1, <1>4 DEF IsPlace
  <2>2. f \in CallRecords
    BY <2>1, ElementOfSeq DEF Typed
  <2> HIDE DEF f
  <2>3. f.op \in Positions /\ f.pending \in Seq(Int \X Int)
    BY <2>2 DEF CallRecords
  <2>4. f.pending[s[3]] \in Int \X Int
    BY <2>1, <2>3, ElementOfSeq
  <2>5. /\ Passed(f) \subseteq Positions
        /\ \A i \in Passed(f) : CalledBy(outs, i) \subseteq Passed(f)
    BY <2>2, PassedOnly DEF GoodGraph
  <2>6. PICK P : P = IF s[3] = 1 THEN Passed(f) ELSE {}
    OBVIOUS
  <2>7. P \subseteq Positions /\ \A i \in P : CalledBy(outs, i) \subseteq P
    BY <2>5, <2>6
  <2>8. Holder(st, ba, c, s) = [op |-> f.op, p |-> f.pending[s[3]], passed |-> P]
    BY <1>4, <2>6 DEF Holder, CallHolder, f
  <2> QED
    BY <2>3, <2>4, <2>7, <2>8 DEF Holders
<1> QED
  BY <1>2, <1>3, <1>4

\* Pointers that are passed on and dropped: e says where each one was.
LEMMA Fewer ==
  ASSUME NEW st, NEW ba, NEW c, NEW h, Isolated(st, ba, c, h),
         NEW st2, NEW ba2, NEW c2, Typed(st2, ba2, c2), NEW e,
         \A t \in Places(st2, ba2, c2) :
           /\ e[t] \in Places(st, ba, c)
           /\ Holder(st2, ba2, c2, t) = Holder(st, ba, c, e[t]),
         \A t, u \in Places(st2, ba2, c2) : t # u => e[t] # e[u]
  PROVE  Isolated(st2, ba2, c2, h)
<1>1. ASSUME NEW t \in Places(st2, ba2, c2)
      PROVE  /\ Valid(h, Holder(st2, ba2, c2, t).p)
             /\ \A i \in By(h, Holder(st2, ba2, c2, t).p) : MaySee(i, Holder(st2, ba2, c2, t))
  BY DEF Isolated
<1>2. ASSUME NEW t \in Places(st2, ba2, c2), NEW u \in Places(st2, ba2, c2), t # u,
             Holder(st2, ba2, c2, t).p = Holder(st2, ba2, c2, u).p
      PROVE  Apart(Holder(st2, ba2, c2, t), Holder(st2, ba2, c2, u))
  BY <1>2 DEF Isolated
<1> QED
  BY <1>1, <1>2 DEF Isolated

\* The argument of a call, which nothing was done with yet.
Argued(o, p) == [op |-> o, p |-> p, passed |-> {}]

\* It is a holder.
LEMMA ArguedTyped ==
  ASSUME NEW o \in Positions, NEW p \in Int \X Int
  PROVE  /\ Argued(o, p) \in Holders /\ <<Argued(o, p)>> \in Seq(Holders)
         /\ Len(<<Argued(o, p)>>) = 1 /\ <<Argued(o, p)>>[1] = Argued(o, p)
         /\ Argued(o, p).op = o /\ Argued(o, p).p = p /\ Argued(o, p).passed = {}
<1>1. /\ Argued(o, p) \in Holders
      /\ Argued(o, p).op = o /\ Argued(o, p).p = p /\ Argued(o, p).passed = {}
  BY DEF Argued, Holders
<1> QED
  BY <1>1

\* The operator that was given an entry changes it: all others that have it may
\* see that.
LEMMA ArgumentChanged ==
  ASSUME GoodGraph, NEW st, NEW ba, NEW o \in Positions, NEW p \in Int \X Int, NEW h,
         Isolated(st, ba, <<Argued(o, p)>>, h), NEW h2, Heap(h2),
         \A q : Valid(h2, q) <=> Valid(h, q),
         \A q : Valid(h, q) /\ q # p => By(h2, q) = By(h, q),
         By(h2, p) = By(h, p) \cup {o}
  PROVE  Isolated(st, ba, <<Argued(o, p)>>, h2)
<1>1. PICK v : v = Argued(o, p)
  OBVIOUS
<1>2. PICK c : c = <<v>>
  OBVIOUS
<1>3. Len(c) = 1 /\ c[1] = v /\ v.op = o /\ v.p = p
  BY <1>1, <1>2, ArguedTyped
<1>4. Isolated(st, ba, c, h)
  BY <1>1, <1>2
<1> DEFINE C == <<-2, 0, 1>>
<1>5. C \in Places(st, ba, c) /\ Holder(st, ba, c, C) = v
  BY <1>3 DEF Places, IsPlace, Holder
<1>6. ASSUME NEW s \in Places(st, ba, c)
      PROVE  LET w == Holder(st, ba, c, s)
             IN  Valid(h2, w.p) /\ \A i \in By(h2, w.p) : MaySee(i, w)
  <2>1. PICK w : w = Holder(st, ba, c, s)
    OBVIOUS
  <2>2. Valid(h, w.p) /\ \A i \in By(h, w.p) : MaySee(i, w)
    BY <1>4, <2>1 DEF Isolated
  <2>3. w.p = p => MaySee(o, w)
    <3>1. CASE s = C
      <4>1. Reaches(o, w.op)
        BY <1>3, <1>5, <2>1, <3>1, ReachesOn DEF GoodGraph
      <4> QED
        BY <4>1 DEF MaySee
    <3>2. CASE s # C
      <4> SUFFICES ASSUME w.p = p PROVE MaySee(o, w)
        OBVIOUS
      <4>1. Apart(v, w)
        BY <1>3, <1>4, <1>5, <2>1, <3>2 DEF Isolated
      <4>2. v.passed = {}
        BY <1>1, ArguedTyped
      <4> QED
        BY <4>1, <4>2, <1>3 DEF Apart, MaySee
    <3> QED
      BY <3>1, <3>2
  <2> QED
    BY <2>1, <2>2, <2>3
<1>7. Isolated(st, ba, c, h2)
  BY <1>4, <1>6 DEF Isolated
<1> QED
  BY <1>1, <1>2, <1>7

\* An entry that was made for an operator.
LEMMA EntryMade ==
  ASSUME GoodGraph, NEW st, NEW ba, NEW o \in Positions, NEW p, NEW h,
         Isolated(st, ba, <<>>, h), NEW h2, Heap(h2), Valid(h2, p), ~Valid(h, p),
         \A q : Valid(h, q) => Valid(h2, q) /\ By(h2, q) = By(h, q),
         \A i \in By(h2, p) : Reaches(i, o) \/ OtherBranch(i, o)
  PROVE  Isolated(st, ba, <<Argued(o, p)>>, h2)
<1>0. p \in Int \X Int
  BY DEF Valid
<1>1. PICK v : v = Argued(o, p)
  OBVIOUS
<1>2. PICK c : c = <<v>>
  OBVIOUS
<1>3. Len(c) = 1 /\ c[1] = v /\ v.op = o /\ v.p = p /\ c \in Seq(Holders)
  BY <1>0, <1>1, <1>2, ArguedTyped
<1>4. Len(<<>>) = 0 /\ <<>> \in Seq(Holders)
  OBVIOUS
<1> DEFINE C == <<-2, 0, 1>>
<1>5. Holder(st, ba, c, C) = v
  BY <1>3 DEF Holder
<1>6. ASSUME NEW s \in Places(st, ba, c), s # C
      PROVE  s \in Places(st, ba, <<>>) /\ Holder(st, ba, c, s) = Holder(st, ba, <<>>, s)
  <2>1. s \in Int \X Int \X Int /\ IsPlace(st, ba, c, s)
    BY DEF Places
  <2>2. s = <<s[1], s[2], s[3]>>
    BY <2>1
  <2>3. s[1] # -2
    <3> SUFFICES ASSUME s[1] = -2 PROVE FALSE
      OBVIOUS
    <3>1. s[2] = 0 /\ s[3] \in 1..1
      BY <1>3, <2>1, GoroutineNumbers DEF IsPlace, GoodGraph
    <3>2. s[3] = 1
      BY <3>1
    <3> QED
      BY <3>1, <3>2, <2>2, <1>6
  <2> QED
    BY <2>1, <2>3 DEF Places, IsPlace, Holder
<1>7. ASSUME NEW s \in Places(st, ba, c), s # C
      PROVE  LET w == Holder(st, ba, c, s)
             IN  Valid(h, w.p) /\ w.p # p /\ \A i \in By(h, w.p) : MaySee(i, w)
  BY <1>6, <1>7 DEF Isolated
<1>8. ASSUME NEW s \in Places(st, ba, c)
      PROVE  LET w == Holder(st, ba, c, s)
             IN  Valid(h2, w.p) /\ \A i \in By(h2, w.p) : MaySee(i, w)
  <2>1. CASE s = C
    BY <2>1, <1>3, <1>5 DEF MaySee
  <2>2. CASE s # C
    BY <2>2, <1>7
  <2> QED
    BY <2>1, <2>2
<1>9. ASSUME NEW s \in Places(st, ba, c), NEW t \in Places(st, ba, c), s # t,
             Holder(st, ba, c, s).p = Holder(st, ba, c, t).p
      PROVE  Apart(Holder(st, ba, c, s), Holder(st, ba, c, t))
  <2>1. s # C /\ t # C
    BY <1>3, <1>5, <1>7, <1>9
  <2> QED
    BY <2>1, <1>6, <1>9 DEF Isolated
<1>10. Isolated(st, ba, c, h2)
  BY <1>3, <1>8, <1>9 DEF Isolated, Typed
<1> QED
  BY <1>1, <1>2, <1>10

-----------------------------------------------------------------------------
(* What a step does to the holders: entries are passed on, changed, kept,     *)
(* taken out of a batch, and dropped.                                         *)

\* Apart is so for both.
LEMMA ApartSymmetric ==
  ASSUME NEW v, NEW w, Apart(v, w)
  PROVE  Apart(w, v)
BY BranchesSymmetric DEF Apart

\* The last call of a goroutine.
LEMMA LastCall ==
  ASSUME NEW st \in [Goroutines -> Seq(CallRecords)], NEW g \in Goroutines, st[g] # <<>>
  PROVE  /\ Len(st[g]) \in Nat /\ Len(st[g]) \in 1..Len(st[g])
         /\ Last(st[g]) = st[g][Len(st[g])] /\ Last(st[g]) \in CallRecords
<1>1. st[g] \in Seq(CallRecords)
  OBVIOUS
<1>2. Len(st[g]) \in Nat /\ Len(st[g]) # 0
  BY <1>1, LenProperties, EmptySeq
<1>3. Len(st[g]) \in 1..Len(st[g])
  BY <1>2
<1>4. st[g][Len(st[g])] \in CallRecords
  BY <1>1, <1>3, ElementOfSeq
<1> QED
  BY <1>2, <1>3, <1>4 DEF Last

\* A call is replaced.
LEMMA CallReplaced ==
  ASSUME NEW st \in [Goroutines -> Seq(CallRecords)], NEW g \in Goroutines, st[g] # <<>>,
         NEW f \in CallRecords
  PROVE  LET n == Len(st[g])
             st2 == [st EXCEPT ![g] = [st[g] EXCEPT ![n] = f]]
         IN  /\ st2 \in [Goroutines -> Seq(CallRecords)]
             /\ \A k \in Goroutines : Len(st2[k]) = Len(st[k])
             /\ \A k \in Goroutines : \A d \in 1..Len(st[k]) :
                  st2[k][d] = IF k = g /\ d = n THEN f ELSE st[k][d]
             /\ st2[g] # <<>>
<1> DEFINE n == Len(st[g])
           s == [st[g] EXCEPT ![n] = f]
           st2 == [st EXCEPT ![g] = s]
<1>1. st[g] \in Seq(CallRecords) /\ n \in 1..n /\ n \in Nat
  BY LastCall
<1>2. /\ s \in Seq(CallRecords) /\ Len(s) = n
      /\ \A d \in 1..n : s[d] = IF d = n THEN f ELSE st[g][d]
  BY <1>1, ExceptSeq
<1> HIDE DEF s
<1>3. s # <<>>
  BY <1>1, <1>2, EmptySeq
<1>4. /\ st2 \in [Goroutines -> Seq(CallRecords)]
      /\ \A k \in Goroutines : st2[k] = IF k = g THEN s ELSE st[k]
  BY <1>2
<1> HIDE DEF st2
<1>5. /\ \A k \in Goroutines : Len(st2[k]) = Len(st[k])
      /\ \A k \in Goroutines : \A d \in 1..Len(st[k]) :
           st2[k][d] = IF k = g /\ d = n THEN f ELSE st[k][d]
      /\ st2[g] # <<>>
  BY <1>2, <1>3, <1>4
<1> QED
  BY <1>4, <1>5 DEF st2, s

\* The stacks after the last call of g has passed its entry to the next output.
PassedNext(st, g) ==
  [st EXCEPT ![g] = [st[g] EXCEPT ![Len(st[g])] = OutputDone(Last(st[g]))]]

\* Only the last call of g changes.
LEMMA PassedNextCalls ==
  ASSUME GoodGraph, NEW st \in [Goroutines -> Seq(CallRecords)], NEW g \in Goroutines,
         st[g] # <<>>, Last(st[g]).todo # <<>>
  PROVE  /\ PassedNext(st, g) \in [Goroutines -> Seq(CallRecords)]
         /\ \A k \in Goroutines : Len(PassedNext(st, g)[k]) = Len(st[k])
         /\ \A k \in Goroutines : \A d \in 1..Len(st[k]) :
              PassedNext(st, g)[k][d]
                = IF k = g /\ d = Len(st[g]) THEN OutputDone(Last(st[g])) ELSE st[k][d]
         /\ PassedNext(st, g)[g] # <<>>
<1>1. PICK f : f = Last(st[g])
  OBVIOUS
<1>2. PICK f2 : f2 = OutputDone(f)
  OBVIOUS
<1>3. f \in CallRecords /\ f = st[g][Len(st[g])] /\ st[g] \in Seq(CallRecords)
  BY <1>1, LastCall
<1>4. f2 \in CallRecords
  BY <1>1, <1>2, <1>3, NextOutput DEF GoodGraph
<1>5. PassedNext(st, g) = [st EXCEPT ![g] = [st[g] EXCEPT ![Len(st[g])] = f2]]
  BY <1>1, <1>2 DEF PassedNext
<1> QED
  BY <1>1, <1>2, <1>4, <1>5, CallReplaced

\* The next output is given the entry itself.  Every output of a router is; of
\* another operator only the last one, after which it has done with the entry.
LEMMA SharedNext ==
  ASSUME GoodGraph, NEW st, NEW ba, NEW h, Isolated(st, ba, <<>>, h),
         NEW g \in Goroutines, st[g] # <<>>,
         NEW f, f = Last(st[g]), f.todo # <<>>,
         Is(f.op, {"router"}) \/ Len(f.todo) = 1
  PROVE  Isolated(PassedNext(st, g), ba, <<Argued(Head(f.todo), f.pending[1])>>, h)
<1>1. /\ st \in [Goroutines -> Seq(CallRecords)] /\ f \in CallRecords
      /\ Len(st[g]) \in Nat /\ Len(st[g]) \in 1..Len(st[g]) /\ f = st[g][Len(st[g])]
  BY LastCall DEF Isolated, Typed
<1>2. PICK n : n = Len(st[g])
  OBVIOUS
<1>3. PICK f2 : f2 = OutputDone(f)
  OBVIOUS
<1>4. PICK o : o = Head(f.todo)
  OBVIOUS
<1>5. PICK p : p = f.pending[1]
  OBVIOUS
<1>6. PICK st2 : st2 = PassedNext(st, g)
  OBVIOUS
<1>7. /\ o \in CalledBy(outs, f.op) /\ o \in Positions
      /\ f2 \in CallRecords /\ f2.op = f.op /\ f2.pending = f.pending
      /\ f2.todo = Tail(f.todo)
      /\ \A i \in Passed(f) : OtherBranch(i, o)
      /\ Passed(f) \subseteq Passed(f2)
      /\ Is(f.op, {"router"}) => o \in Passed(f2)
  BY <1>1, <1>3, <1>4, NextOutput DEF GoodGraph
<1>8. /\ st2 \in [Goroutines -> Seq(CallRecords)]
      /\ \A k \in Goroutines : Len(st2[k]) = Len(st[k])
      /\ \A k \in Goroutines : \A d \in 1..Len(st[k]) :
           st2[k][d] = IF k = g /\ d = n THEN f2 ELSE st[k][d]
  <2>1. /\ PassedNext(st, g) \in [Goroutines -> Seq(CallRecords)]
        /\ \A k \in Goroutines : Len(PassedNext(st, g)[k]) = Len(st[k])
        /\ \A k \in Goroutines : \A d \in 1..Len(st[k]) :
             PassedNext(st, g)[k][d]
               = IF k = g /\ d = Len(st[g]) THEN OutputDone(Last(st[g])) ELSE st[k][d]
    <3>1. Last(st[g]).todo # <<>>
      OBVIOUS
    <3> QED
      BY ZenonT(30), <3>1, <1>1, PassedNextCalls
  <2> QED
    BY <2>1, <1>2, <1>3, <1>6
<1>9. /\ f.op \in Positions /\ f.pending \in Seq(Int \X Int) /\ f.pending # <<>>
      /\ f.todo \in Seq(Positions) /\ Len(f.pending) >= 1 /\ Len(f.pending) \in Nat
      /\ p \in Int \X Int
  <2>1. /\ f.op \in Positions /\ f.pending \in Seq(Int \X Int) /\ f.pending # <<>>
        /\ f.todo \in Seq(Positions)
    BY <1>1 DEF CallRecords
  <2>2. Len(f.pending) \in Nat /\ Len(f.pending) # 0
    BY <2>1, LenProperties, EmptySeq
  <2>3. 1 \in 1..Len(f.pending)
    BY <2>2
  <2> QED
    BY <2>1, <2>2, <2>3, <1>5, ElementOfSeq
<1>10. PICK v : v = Argued(o, p)
  OBVIOUS
<1>11. PICK c : c = <<v>>
  OBVIOUS
<1>12. /\ Len(c) = 1 /\ c[1] = v /\ v.op = o /\ v.p = p /\ v.passed = {}
       /\ c \in Seq(Holders) /\ v \in Holders
  BY <1>7, <1>9, <1>10, <1>11, ArguedTyped
<1>13. Len(<<>>) = 0 /\ <<>> \in Seq(Holders) /\ -1 \notin Goroutines /\ -2 \notin Goroutines
       /\ Goroutines \subseteq Nat
  BY GoroutineNumbers DEF GoodGraph
<1> DEFINE C == <<-2, 0, 1>>
           T == <<g, n, 1>>
           V(s) == Holder(st, ba, <<>>, s)
           W(s) == Holder(st2, ba, c, s)
           P == Places(st, ba, <<>>)
           Q == Places(st2, ba, c)
<1>14. T \in P /\ V(T) = CallHolder(f, 1) /\ V(T).op = f.op /\ V(T).p = p /\ V(T).passed = Passed(f)
  <2>1. T \in P
    <3>1. T[1] = g /\ T[2] = n /\ T[3] = 1 /\ T \in Int \X Int \X Int
      BY <1>1, <1>2, <1>13
    <3>2. g \in Goroutines /\ n \in 1..Len(st[g]) /\ 1 \in 1..Len(f.pending) /\ f = st[g][n]
      BY <1>1, <1>2, <1>9
    <3> HIDE DEF T
    <3> QED
      BY <3>1, <3>2 DEF Places, IsPlace
  <2>2. V(T) = CallHolder(f, 1)
    BY <1>1, <1>2, <1>13 DEF Holder
  <2> QED
    BY <2>1, <2>2, <1>5 DEF CallHolder
<1>15. W(C) = v
  BY <1>12 DEF Holder
<1>16. V(T) \in Holders
  BY <1>14, PlaceHolder DEF Isolated
<1>17. /\ \A i \in Positions : MaySee(i, V(T)) => Reaches(i, o) \/ OtherBranch(i, o)
       /\ \A w \in Holders : Apart(V(T), w) => OtherBranch(o, w.op) \/ o \in w.passed
  BY <1>7, <1>14, <1>16, PassedOn DEF GoodGraph
<1>18. ASSUME NEW s \in Q, s # C
       PROVE  /\ s \in P /\ W(s).op = V(s).op /\ W(s).p = V(s).p
              /\ V(s).passed \subseteq W(s).passed
              /\ s = T => o \in W(s).passed
  <2>1. s \in Int \X Int \X Int /\ IsPlace(st2, ba, c, s)
    BY DEF Places
  <2>2. s = <<s[1], s[2], s[3]>>
    BY <2>1
  <2>3. s[1] # -2
    <3> SUFFICES ASSUME s[1] = -2 PROVE FALSE
      OBVIOUS
    <3>1. s[2] = 0 /\ s[3] \in 1..1
      BY <1>12, <1>13, <2>1 DEF IsPlace
    <3>2. s[3] = 1
      BY <3>1
    <3> QED
      BY <3>1, <3>2, <2>2, <1>18
  <2>4. CASE s[1] = -1
    <3>1. IsPlace(st, ba, <<>>, s) /\ W(s) = V(s) /\ s # T
      BY <2>1, <2>4, <1>13 DEF IsPlace, Holder
    <3> QED
      BY <2>1, <3>1 DEF Places
  <2>5. CASE s[1] # -1
    <3>1. /\ s[1] \in Goroutines /\ s[2] \in 1..Len(st2[s[1]])
          /\ s[3] \in 1..Len(st2[s[1]][s[2]].pending)
          /\ s[3] = 1 => st2[s[1]][s[2]].todo # <<>>
      BY <2>1, <2>3, <2>5 DEF IsPlace
    <3>2. /\ s[2] \in 1..Len(st[s[1]])
          /\ V(s) = CallHolder(st[s[1]][s[2]], s[3])
          /\ W(s) = CallHolder(st2[s[1]][s[2]], s[3])
      BY <2>3, <2>5, <3>1, <1>8 DEF Holder
    <3>3. CASE s[1] = g /\ s[2] = n
      <4>1. st2[s[1]][s[2]] = f2 /\ st[s[1]][s[2]] = f
        BY <3>1, <3>2, <3>3, <1>1, <1>2, <1>8
      <4>2. s \in P
        BY <2>1, <3>1, <3>2, <4>1, <1>7 DEF Places, IsPlace
      <4>3. W(s).op = V(s).op /\ W(s).p = V(s).p /\ V(s).passed \subseteq W(s).passed
        BY <3>2, <4>1, <1>7 DEF CallHolder
      <4>4. s = T => o \in W(s).passed
        <5> SUFFICES ASSUME s = T PROVE o \in W(s).passed
          OBVIOUS
        <5>1. s[3] = 1 /\ Tail(f.todo) # <<>>
          BY <3>1, <4>1, <1>7
        <5>2. Len(f.todo) # 1
          <6> SUFFICES ASSUME Len(f.todo) = 1 PROVE FALSE
            OBVIOUS
          <6>1. Tail(f.todo) \in Seq(Positions) /\ Len(Tail(f.todo)) = 0
            BY <1>9, HeadTailProperties
          <6> QED
            BY <5>1, <6>1, EmptySeq
        <5>3. o \in Passed(f2)
          BY <5>2, <1>7
        <5> QED
          BY <3>2, <4>1, <5>1, <5>3 DEF CallHolder
      <4> QED
        BY <4>2, <4>3, <4>4
    <3>4. CASE ~(s[1] = g /\ s[2] = n)
      <4>1. st2[s[1]][s[2]] = st[s[1]][s[2]]
        BY <3>1, <3>2, <3>4, <1>8
      <4>2. s \in P
        BY <2>1, <3>1, <3>2, <4>1 DEF Places, IsPlace
      <4>3. W(s) = V(s) /\ s # T
        BY <3>2, <3>4, <4>1
      <4> QED
        BY <4>2, <4>3
    <3> QED
      BY <3>3, <3>4
  <2> QED
    BY <2>4, <2>5
<1> HIDE DEF C, T, V, W, P, Q
<1>19. /\ Heap(h) /\ ba \in [Positions -> Seq(Int \X Int)]
       /\ \A s \in P : V(s) \in Holders /\ Valid(h, V(s).p) /\ \A i \in By(h, V(s).p) : MaySee(i, V(s))
       /\ \A s, t \in P : s # t /\ V(s).p = V(t).p => Apart(V(s), V(t))
  BY PlaceHolder DEF Isolated, Typed, P, V
<1>20. ASSUME NEW s \in Q
       PROVE  Valid(h, W(s).p) /\ \A i \in By(h, W(s).p) : MaySee(i, W(s))
  <2>1. CASE s = C
    <3>1. Valid(h, p) /\ \A i \in By(h, p) : MaySee(i, V(T))
      BY <1>14, <1>19
    <3>2. By(h, p) \subseteq Positions
      BY <3>1, <1>19, HeapShape
    <3> QED
      BY <2>1, <3>1, <3>2, <1>12, <1>15, <1>17 DEF MaySee
  <2>2. CASE s # C
    BY <2>2, <1>18, <1>19 DEF MaySee
  <2> QED
    BY <2>1, <2>2
<1>21. ASSUME NEW s \in Q, s # C, W(s).p = p
       PROVE  Apart(v, W(s))
  <2>1. CASE s = T
    BY <2>1, <1>12, <1>18, <1>21 DEF Apart
  <2>2. CASE s # T
    <3>1. Apart(V(T), V(s)) /\ V(s) \in Holders
      BY <2>2, <1>14, <1>18, <1>19, <1>21
    <3>2. OtherBranch(o, V(s).op) \/ o \in V(s).passed
      BY <3>1, <1>17
    <3> QED
      BY <3>2, <1>12, <1>18, <1>21 DEF Apart
  <2> QED
    BY <2>1, <2>2
<1>22. ASSUME NEW s \in Q, NEW t \in Q, s # t, W(s).p = W(t).p
       PROVE  Apart(W(s), W(t))
  <2>1. CASE s = C
    BY <2>1, <1>12, <1>15, <1>21, <1>22
  <2>2. CASE t = C
    BY <2>2, <1>12, <1>15, <1>21, <1>22, ApartSymmetric
  <2>3. CASE s # C /\ t # C
    <3>1. Apart(V(s), V(t))
      BY <2>3, <1>18, <1>19, <1>22
    <3> QED
      BY <2>3, <3>1, <1>18 DEF Apart
  <2> QED
    BY <2>1, <2>2, <2>3
<1>23. Isolated(st2, ba, c, h)
  BY <1>8, <1>12, <1>19, <1>20, <1>22 DEF Isolated, Typed, Q, W
<1> QED
  BY <1>4, <1>5, <1>6, <1>10, <1>11, <1>23

\* The three kinds of places.
LEMMA PlaceKinds ==
  ASSUME Len(ops) \in Nat, NEW st, NEW ba, NEW c, NEW s
  PROVE  /\ s \in Places(st, ba, c) =>
              s \in Int \X Int \X Int /\ s = <<s[1], s[2], s[3]>>
         /\ s \in Places(st, ba, c) /\ s[1] = -1 =>
              /\ s[2] \in Positions /\ s[3] \in 1..Len(ba[s[2]])
              /\ Holder(st, ba, c, s) = Argued(s[2], ba[s[2]][s[3]])
         /\ s \in Places(st, ba, c) /\ s[1] = -2 =>
              s[2] = 0 /\ s[3] \in 1..Len(c) /\ Holder(st, ba, c, s) = c[s[3]]
         /\ s \in Places(st, ba, c) /\ s[1] # -1 /\ s[1] # -2 =>
              /\ s[1] \in Goroutines /\ s[2] \in 1..Len(st[s[1]])
              /\ s[3] \in 1..Len(st[s[1]][s[2]].pending)
              /\ s[3] = 1 => st[s[1]][s[2]].todo # <<>>
              /\ Holder(st, ba, c, s) = CallHolder(st[s[1]][s[2]], s[3])
<1>1. -1 \notin Goroutines /\ -2 \notin Goroutines
  BY GoroutineNumbers
<1> SUFFICES ASSUME s \in Places(st, ba, c)
             PROVE  /\ s \in Int \X Int \X Int /\ s = <<s[1], s[2], s[3]>>
                    /\ s[1] = -1 =>
                         /\ s[2] \in Positions /\ s[3] \in 1..Len(ba[s[2]])
                         /\ Holder(st, ba, c, s) = Argued(s[2], ba[s[2]][s[3]])
                    /\ s[1] = -2 =>
                         s[2] = 0 /\ s[3] \in 1..Len(c) /\ Holder(st, ba, c, s) = c[s[3]]
                    /\ s[1] # -1 /\ s[1] # -2 =>
                         /\ s[1] \in Goroutines /\ s[2] \in 1..Len(st[s[1]])
                         /\ s[3] \in 1..Len(st[s[1]][s[2]].pending)
                         /\ s[3] = 1 => st[s[1]][s[2]].todo # <<>>
                         /\ Holder(st, ba, c, s) = CallHolder(st[s[1]][s[2]], s[3])
  OBVIOUS
<1>2. s \in Int \X Int \X Int /\ IsPlace(st, ba, c, s)
  BY DEF Places
<1>3. s = <<s[1], s[2], s[3]>>
  BY <1>2
<1>4. CASE s[1] = -1
  BY <1>1, <1>2, <1>3, <1>4 DEF IsPlace, Holder, Argued
<1>5. CASE s[1] = -2
  BY <1>1, <1>2, <1>3, <1>5 DEF IsPlace, Holder
<1>6. CASE s[1] # -1 /\ s[1] # -2
  BY <1>2, <1>3, <1>6 DEF IsPlace, Holder
<1> QED
  BY <1>4, <1>5, <1>6

\* A pending entry of a call is at a place.
LEMMA CallPlace ==
  ASSUME Len(ops) \in Nat, NEW st, NEW ba, NEW c, NEW g \in Goroutines,
         NEW d \in 1..Len(st[g]), NEW f, f = st[g][d], NEW q \in 1..Len(f.pending),
         d \in Int, q \in Int, q = 1 => f.todo # <<>>
  PROVE  \E s \in Places(st, ba, c) :
           /\ s = <<g, d, q>> /\ s[1] = g /\ s[2] = d /\ s[3] = q
           /\ Holder(st, ba, c, s) = CallHolder(f, q)
<1>1. -1 \notin Goroutines /\ -2 \notin Goroutines /\ g \in Int
  BY GoroutineNumbers
<1>2. PICK s : s = <<g, d, q>>
  OBVIOUS
<1>3. s[1] = g /\ s[2] = d /\ s[3] = q /\ s \in Int \X Int \X Int
  BY <1>1, <1>2
<1>4. s \in Places(st, ba, c)
  BY <1>3 DEF Places, IsPlace
<1>5. Holder(st, ba, c, s) = CallHolder(f, q)
  BY <1>1, <1>3 DEF Holder
<1> QED
  BY <1>2, <1>3, <1>4, <1>5

\* So is an entry of a batch.
LEMMA BatchPlace ==
  ASSUME Len(ops) \in Nat, NEW st, NEW ba, NEW c, NEW j \in Positions, NEW b, b = ba[j],
         NEW k \in 1..Len(b), k \in Int
  PROVE  \E s \in Places(st, ba, c) :
           /\ s = <<-1, j, k>> /\ s[1] = -1 /\ s[2] = j /\ s[3] = k
           /\ Holder(st, ba, c, s) = Argued(j, b[k])
<1>1. j \in Int
  BY GoroutineNumbers
<1>2. PICK s : s = <<-1, j, k>>
  OBVIOUS
<1>3. s[1] = -1 /\ s[2] = j /\ s[3] = k /\ s \in Int \X Int \X Int
  BY <1>1, <1>2
<1>4. s \in Places(st, ba, c)
  BY <1>3 DEF Places, IsPlace
<1>5. Holder(st, ba, c, s) = Argued(j, b[k])
  BY <1>3 DEF Holder, Argued
<1> QED
  BY <1>2, <1>3, <1>4, <1>5

\* So is an argument.
LEMMA ArgumentPlace ==
  ASSUME NEW st, NEW ba, NEW c, Len(c) = 1
  PROVE  \E s \in Places(st, ba, c) :
           /\ s = <<-2, 0, 1>> /\ s[1] = -2 /\ s[2] = 0 /\ s[3] = 1
           /\ Holder(st, ba, c, s) = c[1]
<1>1. PICK s : s = <<-2, 0, 1>>
  OBVIOUS
<1>2. s \in Places(st, ba, c) /\ Holder(st, ba, c, s) = c[1]
  BY <1>1 DEF Places, IsPlace, Holder
<1> QED
  BY <1>1, <1>2

\* The next output is given a copy: nothing else changes for the other holders.
LEMMA CopiedNext ==
  ASSUME GoodGraph, NEW st, NEW ba, NEW h, Isolated(st, ba, <<>>, h),
         NEW g \in Goroutines, st[g] # <<>>,
         NEW f, f = Last(st[g]), f.todo # <<>>, ~Is(f.op, {"router"})
  PROVE  /\ Isolated(PassedNext(st, g), ba, <<>>, h)
         /\ Head(f.todo) \in Positions /\ Valid(h, f.pending[1])
         /\ \A i \in By(h, f.pending[1]) :
              Reaches(i, Head(f.todo)) \/ OtherBranch(i, Head(f.todo))
<1>0. Len(ops) \in Nat /\ Wired /\ NoCycle /\ Typed(st, ba, <<>>)
  BY DEF GoodGraph, Isolated
<1>1. /\ st \in [Goroutines -> Seq(CallRecords)] /\ f \in CallRecords
      /\ Len(st[g]) \in Nat /\ Len(st[g]) \in 1..Len(st[g]) /\ f = st[g][Len(st[g])]
  BY <1>0, LastCall DEF Typed
<1>2. PICK f2 : f2 = OutputDone(f)
  OBVIOUS
<1>3. PICK o : o = Head(f.todo)
  OBVIOUS
<1>4. /\ o \in CalledBy(outs, f.op) /\ o \in Positions
      /\ f2.op = f.op /\ f2.pending = f.pending
      /\ \A i \in Passed(f) : OtherBranch(i, o)
  BY <1>0, <1>1, <1>2, <1>3, NextOutput
<1>5. Passed(f) = {} /\ Passed(f2) = {}
  BY <1>4 DEF Passed
<1>6. PICK st2 : st2 = PassedNext(st, g)
  OBVIOUS
<1>7. /\ st2 \in [Goroutines -> Seq(CallRecords)]
      /\ \A k \in Goroutines : Len(st2[k]) = Len(st[k])
      /\ \A k \in Goroutines : \A d \in 1..Len(st[k]) :
           st2[k][d] = IF k = g /\ d = Len(st[g]) THEN f2 ELSE st[k][d]
  <2>1. Last(st[g]).todo # <<>>
    OBVIOUS
  <2> QED
    <3>1. /\ PassedNext(st, g) \in [Goroutines -> Seq(CallRecords)]
          /\ \A k \in Goroutines : Len(PassedNext(st, g)[k]) = Len(st[k])
          /\ \A k \in Goroutines : \A d \in 1..Len(st[k]) :
               PassedNext(st, g)[k][d]
                 = IF k = g /\ d = Len(st[g]) THEN OutputDone(Last(st[g])) ELSE st[k][d]
      BY <2>1, <1>1, PassedNextCalls
    <3> QED
      BY <3>1, <1>2, <1>6
<1>8. /\ f.pending \in Seq(Int \X Int) /\ 1 \in 1..Len(f.pending)
  <2>1. f.pending \in Seq(Int \X Int) /\ f.pending # <<>>
    BY <1>1 DEF CallRecords
  <2>2. Len(f.pending) \in Nat /\ Len(f.pending) # 0
    BY <2>1, LenProperties, EmptySeq
  <2> QED
    BY <2>1, <2>2
<1> DEFINE T == <<g, Len(st[g]), 1>>
<1>9. T \in Places(st, ba, <<>>) /\ Holder(st, ba, <<>>, T) = CallHolder(f, 1)
  <2>1. PICK n, q : n = Len(st[g]) /\ q = 1
    OBVIOUS
  <2>2. n \in Int /\ q \in Int /\ n \in 1..Len(st[g]) /\ st[g][n] = f
    BY <2>1, <1>1
  <2>3. q \in 1..Len(st[g][n].pending) /\ st[g][n].todo # <<>>
    BY <2>1, <2>2, <1>8
  <2>4. Len(ops) \in Nat
    BY <1>0
  <2>5. \E s \in Places(st, ba, <<>>) :
           s = <<g, n, q>> /\ Holder(st, ba, <<>>, s) = CallHolder(f, q)
    BY <2>2, <2>3, <2>4, CallPlace
  <2> QED
    BY <2>1, <2>2, <2>5
<1>10. /\ Holder(st, ba, <<>>, T) \in Holders
       /\ Holder(st, ba, <<>>, T).op = f.op /\ Holder(st, ba, <<>>, T).p = f.pending[1]
       /\ Holder(st, ba, <<>>, T).passed = {}
  BY <1>0, <1>5, <1>9, PlaceHolder DEF CallHolder
<1>11. Valid(h, f.pending[1]) /\ \A i \in By(h, f.pending[1]) : MaySee(i, Holder(st, ba, <<>>, T))
  BY <1>9, <1>10 DEF Isolated
<1>12. \A i \in By(h, f.pending[1]) : Reaches(i, o) \/ OtherBranch(i, o)
  <2>1. By(h, f.pending[1]) \subseteq Positions
    BY <1>11, HeapShape DEF Isolated
  <2> HIDE DEF T
  <2> QED
    BY <2>1, <1>0, <1>4, <1>10, <1>11, PassedOn
<1> DEFINE Q == Places(st2, ba, <<>>)
           e == [t \in Q |-> t]
<1>13. ASSUME NEW t \in Q
       PROVE  /\ t \in Places(st, ba, <<>>)
              /\ Holder(st2, ba, <<>>, t) = Holder(st, ba, <<>>, t)
  <2>1. t \in Int \X Int \X Int /\ t = <<t[1], t[2], t[3]>>
    BY <1>0, PlaceKinds
  <2>2. CASE t[1] = -1
    BY <2>1, <2>2, <1>0, GoroutineNumbers DEF Places, IsPlace, Holder
  <2>3. CASE t[1] = -2
    BY <2>1, <2>3, <1>0, GoroutineNumbers DEF Places, IsPlace, Holder
  <2>4. CASE t[1] # -1 /\ t[1] # -2
    <3>1. /\ t[1] \in Goroutines /\ t[2] \in 1..Len(st2[t[1]])
          /\ t[3] \in 1..Len(st2[t[1]][t[2]].pending)
          /\ t[3] = 1 => st2[t[1]][t[2]].todo # <<>>
          /\ Holder(st2, ba, <<>>, t) = CallHolder(st2[t[1]][t[2]], t[3])
      BY <2>4, <1>0, PlaceKinds
    <3>2. PICK k, d, q : k = t[1] /\ d = t[2] /\ q = t[3]
      OBVIOUS
    <3>3. t = <<k, d, q>> /\ k \in Goroutines /\ d \in Int /\ q \in Int
      BY <2>1, <3>1, <3>2
    <3>4. /\ d \in 1..Len(st[k])
          /\ st2[k][d] = st[k][d] \/ (st[k][d] = f /\ st2[k][d] = f2)
      BY <3>1, <3>2, <1>1, <1>7
    <3>5. q \in 1..Len(st[k][d].pending) /\ (q = 1 => st[k][d].todo # <<>>)
      BY <3>1, <3>2, <3>4, <1>4
    <3>6. CallHolder(st2[k][d], q) = CallHolder(st[k][d], q)
      BY <3>4, <1>4, <1>5 DEF CallHolder
    <3>7. PICK a : a = st[k][d]
      OBVIOUS
    <3>8. /\ Len(ops) \in Nat /\ k \in Goroutines /\ d \in Int /\ q \in Int
          /\ d \in 1..Len(st[k]) /\ q \in 1..Len(a.pending) /\ (q = 1 => a.todo # <<>>)
      BY <3>3, <3>4, <3>5, <3>7, <1>0
    <3>9. \E s \in Places(st, ba, <<>>) :
            s = <<k, d, q>> /\ Holder(st, ba, <<>>, s) = CallHolder(a, q)
      BY <3>7, <3>8, CallPlace
    <3> QED
      BY <3>1, <3>2, <3>3, <3>6, <3>7, <3>9
  <2> QED
    BY <2>2, <2>3, <2>4
<1>14. Isolated(st2, ba, <<>>, h)
  <2>1. Typed(st2, ba, <<>>)
    BY <1>0, <1>7 DEF Typed
  <2>2. \A t \in Q : e[t] = t
    OBVIOUS
  <2> HIDE DEF e
  <2> QED
    BY <2>1, <2>2, <1>13, Fewer
<1> QED
  BY <1>3, <1>4, <1>6, <1>11, <1>12, <1>14

\* The argument is dropped.
LEMMA Dropped ==
  ASSUME GoodGraph, NEW st, NEW ba, NEW c, NEW h, Isolated(st, ba, c, h)
  PROVE  Isolated(st, ba, <<>>, h)
<1>0. Len(ops) \in Nat /\ Typed(st, ba, c)
  BY DEF GoodGraph, Isolated
<1> DEFINE Q == Places(st, ba, <<>>)
           e == [t \in Q |-> t]
<1>1. ASSUME NEW t \in Q
      PROVE  /\ t \in Places(st, ba, c)
             /\ Holder(st, ba, <<>>, t) = Holder(st, ba, c, t)
  <2>1. t[1] # -2
    <3>1. Len(<<>>) = 0 /\ \A k \in 1..0 : FALSE
      OBVIOUS
    <3> QED
      BY <3>1, <1>0, PlaceKinds
  <2> QED
    BY <2>1 DEF Places, IsPlace, Holder
<1>2. Typed(st, ba, <<>>)
  BY <1>0, EmptySeq DEF Typed
<1>3. \A t \in Q : e[t] = t
  OBVIOUS
<1> HIDE DEF e
<1> QED
  BY <1>1, <1>2, <1>3, Fewer

\* An operator begins to write the entry it was given, or nothing.
LEMMA ArgumentEntered ==
  ASSUME GoodGraph, NEW st, NEW ba, NEW h, NEW o \in Positions, NEW p \in Int \X Int,
         Isolated(st, ba, <<Argued(o, p)>>, h),
         NEW g \in Goroutines, NEW r \in Routes, NEW x \in {<<p>>, <<>>}
  PROVE  Isolated([st EXCEPT ![g] = Append(st[g], Writing(o, x, r))], ba, <<>>, h)
<1>0. PICK c : c = <<Argued(o, p)>>
  OBVIOUS
<1>1. /\ Len(ops) \in Nat /\ Wired /\ Isolated(st, ba, c, h) /\ Typed(st, ba, c)
      /\ st \in [Goroutines -> Seq(CallRecords)] /\ Len(c) = 1 /\ c[1] = Argued(o, p)
  BY <1>0, ArguedTyped DEF GoodGraph, Isolated, Typed
<1>2. PICK w : w = Writing(o, x, r)
  OBVIOUS
<1>3. x \in Seq(Int \X Int) /\ ((x = <<p>> /\ Len(x) = 1 /\ x[1] = p) \/ (x = <<>> /\ Len(x) = 0))
  <2>1. PICK S : S = Int \X Int
    OBVIOUS
  <2>2. <<p>> \in Seq(S) /\ Len(<<p>>) = 1 /\ <<p>>[1] = p
    BY <2>1
  <2>3. <<>> \in Seq(S) /\ Len(<<>>) = 0
    OBVIOUS
  <2>4. x = <<p>> \/ x = <<>>
    OBVIOUS
  <2> QED
    BY <2>1, <2>2, <2>3, <2>4
<1>4. /\ w \in CallRecords /\ w.op = o /\ w.pending = x
      /\ w.todo # <<>> => Passed(w) = {}
  BY <1>1, <1>2, <1>3, WritingCall
<1>5. PICK n : n = Len(st[g]) + 1
  OBVIOUS
<1>6. PICK st2 : st2 = [st EXCEPT ![g] = Append(st[g], w)]
  OBVIOUS
<1>7. /\ st[g] \in Seq(CallRecords) /\ Append(st[g], w) \in Seq(CallRecords)
      /\ Len(st[g]) \in Nat /\ Len(Append(st[g], w)) = n
      /\ \A d \in 1..Len(st[g]) : Append(st[g], w)[d] = st[g][d]
      /\ Append(st[g], w)[n] = w
  BY <1>1, <1>4, <1>5, AppendProperties, LenProperties
<1>8. /\ st2 \in [Goroutines -> Seq(CallRecords)]
      /\ \A k \in Goroutines : k # g => st2[k] = st[k]
      /\ Len(st2[g]) = n /\ st2[g][n] = w
      /\ \A d \in 1..Len(st[g]) : st2[g][d] = st[g][d]
  BY <1>1, <1>6, <1>7
<1> DEFINE Q == Places(st2, ba, <<>>)
           New(t) == t[1] = g /\ t[2] = n
           e == [t \in Q |-> IF New(t) THEN <<-2, 0, 1>> ELSE t]
<1>9. -1 \notin Goroutines /\ -2 \notin Goroutines /\ Goroutines \subseteq Nat
  BY <1>1, GoroutineNumbers
<1>10. Len(<<>>) = 0 /\ \A k \in 1..0 : FALSE
  OBVIOUS
<1>11. ASSUME NEW t \in Q, New(t)
       PROVE  t = <<g, n, 1>> /\ Holder(st2, ba, <<>>, t) = c[1]
  <2>0. t \in Places(st2, ba, <<>>) /\ t[1] # -1 /\ t[1] # -2 /\ Len(ops) \in Nat
    BY <1>1, <1>9, <1>11
  <2>1. /\ t = <<t[1], t[2], t[3]>>
        /\ t[3] \in 1..Len(st2[t[1]][t[2]].pending)
        /\ t[3] = 1 => st2[t[1]][t[2]].todo # <<>>
        /\ Holder(st2, ba, <<>>, t) = CallHolder(st2[t[1]][t[2]], t[3])
    BY <2>0, PlaceKinds
  <2>2. st2[t[1]][t[2]] = w
    BY <1>8, <1>11
  <2>3. t[3] \in 1..Len(x) /\ (t[3] = 1 => w.todo # <<>>)
        /\ Holder(st2, ba, <<>>, t) = CallHolder(w, t[3])
    BY <2>1, <2>2, <1>4
  <2>4. x = <<p>> /\ Len(x) = 1 /\ x[1] = p
    <3>1. CASE x = <<>> /\ Len(x) = 0
      BY <2>3, <3>1
    <3> QED
      BY <3>1, <1>3
  <2>5. t[3] = 1
    BY <2>3, <2>4
  <2>6. CallHolder(w, 1) = [op |-> o, p |-> p, passed |-> {}]
    BY <2>3, <2>4, <2>5, <1>4 DEF CallHolder
  <2> QED
    BY <2>1, <2>3, <2>5, <2>6, <1>1, <1>11 DEF Argued
<1>12. ASSUME NEW t \in Q, ~New(t)
       PROVE  /\ t \in Places(st, ba, c) /\ t[1] # -2
              /\ Holder(st2, ba, <<>>, t) = Holder(st, ba, c, t)
  <2>1. t \in Int \X Int \X Int /\ t = <<t[1], t[2], t[3]>> /\ t[1] # -2
    BY <1>1, <1>10, PlaceKinds
  <2>2. CASE t[1] = -1
    BY <2>1, <2>2, <1>9 DEF Places, IsPlace, Holder
  <2>3. CASE t[1] # -1
    <3>1. PICK k, d, q : k = t[1] /\ d = t[2] /\ q = t[3]
      OBVIOUS
    <3>2. /\ t = <<k, d, q>> /\ k \in Goroutines /\ d \in Int /\ q \in Int
          /\ d \in 1..Len(st2[k]) /\ q \in 1..Len(st2[k][d].pending)
          /\ q = 1 => st2[k][d].todo # <<>>
          /\ Holder(st2, ba, <<>>, t) = CallHolder(st2[k][d], q)
      BY SMTT(30), <2>1, <2>3, <3>1, <1>1, PlaceKinds
    <3>3. d \in 1..Len(st[k]) /\ st2[k][d] = st[k][d]
      <4>1. CASE k = g
        <5>1. d # n
          BY <4>1, <3>1, <1>12
        <5>2. d \in 1..Len(st[g])
          BY <4>1, <5>1, <3>2, <1>5, <1>7, <1>8
        <5> QED
          BY <4>1, <5>2, <1>8
      <4>2. CASE k # g
        BY <4>2, <3>2, <1>8
      <4> QED
        BY <4>1, <4>2
    <3>4. PICK a : a = st[k][d]
      OBVIOUS
    <3>5. q \in 1..Len(a.pending) /\ (q = 1 => a.todo # <<>>)
      BY <3>2, <3>3, <3>4
    <3>6. /\ Len(ops) \in Nat /\ k \in Goroutines /\ d \in Int /\ q \in Int
          /\ d \in 1..Len(st[k]) /\ q \in 1..Len(a.pending) /\ (q = 1 => a.todo # <<>>)
      BY <3>2, <3>3, <3>5, <1>1
    <3>7. t \in Places(st, ba, c)
      BY <2>1, <3>1, <3>4, <3>6 DEF Places, IsPlace
    <3>8. Holder(st, ba, c, t) = CallHolder(a, q)
      BY <2>1, <2>3, <3>1, <3>4 DEF Holder
    <3> QED
      BY <2>1, <3>2, <3>3, <3>4, <3>7, <3>8
  <2> QED
    BY <2>2, <2>3
<1>13. <<-2, 0, 1>> \in Places(st, ba, c) /\ Holder(st, ba, c, <<-2, 0, 1>>) = c[1]
  <2>1. Len(c) = 1
    BY <1>1
  <2>2. PICK s \in Places(st, ba, c) : s = <<-2, 0, 1>> /\ Holder(st, ba, c, s) = c[1]
    BY <2>1, ArgumentPlace
  <2> QED
    BY <2>2
<1>14. \A t \in Q : e[t] = IF New(t) THEN <<-2, 0, 1>> ELSE t
  OBVIOUS
<1> HIDE DEF e, Q, New
<1>15. \A t \in Q : /\ e[t] \in Places(st, ba, c)
                    /\ Holder(st2, ba, <<>>, t) = Holder(st, ba, c, e[t])
  BY <1>11, <1>12, <1>13, <1>14
<1>16. ASSUME NEW t \in Q, NEW u \in Q, t # u PROVE e[t] # e[u]
  BY <1>11, <1>12, <1>13, <1>14, <1>16
<1>17. Typed(st2, ba, <<>>)
  BY <1>1, <1>8, EmptySeq DEF Typed
<1>18. Isolated(st2, ba, <<>>, h)
  BY SMTT(30), <1>1, <1>15, <1>16, <1>17, Fewer DEF Q
<1> QED
  BY <1>2, <1>6, <1>18

\* A pending entry of a call that did not change.
LEMMA CallStays ==
  ASSUME NEW st, NEW ba, NEW c, NEW st2, NEW ba2, NEW c2, NEW t \in Places(st2, ba2, c2),
         t[1] # -1, t[1] # -2, t[2] \in 1..Len(st[t[1]]),
         st2[t[1]][t[2]] = st[t[1]][t[2]]
  PROVE  t \in Places(st, ba, c) /\ Holder(st2, ba2, c2, t) = Holder(st, ba, c, t)
BY DEF Places, IsPlace, Holder

\* An entry of a batch that did not change.
LEMMA BatchStays ==
  ASSUME Len(ops) \in Nat,
         NEW st, NEW ba, NEW c, NEW st2, NEW ba2, NEW c2, NEW t \in Places(st2, ba2, c2),
         t[1] = -1, t[3] \in 1..Len(ba[t[2]]), ba2[t[2]][t[3]] = ba[t[2]][t[3]]
  PROVE  t \in Places(st, ba, c) /\ Holder(st2, ba2, c2, t) = Holder(st, ba, c, t)
BY GoroutineNumbers DEF Places, IsPlace, Holder

\* A recombine operator puts the entry it was given into its batch.
LEMMA Kept ==
  ASSUME GoodGraph, NEW st, NEW ba, NEW h, NEW o \in Positions, NEW p \in Int \X Int,
         Isolated(st, ba, <<Argued(o, p)>>, h)
  PROVE  Isolated(st, [ba EXCEPT ![o] = Append(ba[o], p)], <<>>, h)
<1>0. PICK c : c = <<Argued(o, p)>>
  OBVIOUS
<1>1. /\ Len(ops) \in Nat /\ Isolated(st, ba, c, h) /\ Typed(st, ba, c)
      /\ ba \in [Positions -> Seq(Int \X Int)] /\ Len(c) = 1 /\ c[1] = Argued(o, p)
  BY <1>0, ArguedTyped DEF GoodGraph, Isolated, Typed
<1>2. PICK n : n = Len(ba[o]) + 1
  OBVIOUS
<1>3. PICK ba2 : ba2 = [ba EXCEPT ![o] = Append(ba[o], p)]
  OBVIOUS
<1>4. /\ Append(ba[o], p) \in Seq(Int \X Int) /\ Len(ba[o]) \in Nat
      /\ Len(Append(ba[o], p)) = n /\ Append(ba[o], p)[n] = p
      /\ \A d \in 1..Len(ba[o]) : Append(ba[o], p)[d] = ba[o][d]
  <2>1. PICK S : S = Int \X Int
    OBVIOUS
  <2>2. ba[o] \in Seq(S) /\ p \in S
    BY <1>1, <2>1
  <2> QED
    BY <2>1, <2>2, <1>2, AppendProperties, LenProperties
<1>5. /\ ba2 \in [Positions -> Seq(Int \X Int)]
      /\ \A j \in Positions : j # o => ba2[j] = ba[j]
      /\ Len(ba2[o]) = n /\ ba2[o][n] = p
      /\ \A d \in 1..Len(ba[o]) : ba2[o][d] = ba[o][d]
  BY <1>1, <1>3, <1>4
<1> DEFINE Q == Places(st, ba2, <<>>)
           New(t) == t[1] = -1 /\ t[2] = o /\ t[3] = n
           e == [t \in Q |-> IF New(t) THEN <<-2, 0, 1>> ELSE t]
<1>6. ASSUME NEW t \in Q
      PROVE  t = <<t[1], t[2], t[3]>> /\ t[1] # -2
  <2>1. Len(<<>>) = 0 /\ \A k \in 1..0 : FALSE
    OBVIOUS
  <2> QED
    BY <2>1, <1>1, PlaceKinds
<1>7. ASSUME NEW t \in Q, New(t)
      PROVE  t = <<-1, o, n>> /\ Holder(st, ba2, <<>>, t) = c[1]
  <2>1. Holder(st, ba2, <<>>, t) = Argued(t[2], ba2[t[2]][t[3]])
    BY <1>1, <1>7, PlaceKinds
  <2> QED
    BY <2>1, <1>1, <1>5, <1>6, <1>7
<1>8. ASSUME NEW t \in Q, ~New(t)
      PROVE  /\ t \in Places(st, ba, c)
             /\ Holder(st, ba2, <<>>, t) = Holder(st, ba, c, t)
  <2>1. CASE t[1] = -1
    <3>1. t[2] \in Positions /\ t[3] \in 1..Len(ba2[t[2]])
      BY <2>1, <1>1, PlaceKinds
    <3>2. t[3] \in 1..Len(ba[t[2]]) /\ ba2[t[2]][t[3]] = ba[t[2]][t[3]]
      <4>1. CASE t[2] = o
        <5>1. t[3] \in 1..n /\ t[3] # n
          BY <2>1, <3>1, <4>1, <1>5, <1>8
        <5>2. t[3] \in 1..Len(ba[o])
          BY <5>1, <1>2, <1>4
        <5> QED
          BY <4>1, <5>2, <1>5
      <4>2. CASE t[2] # o
        BY <4>2, <3>1, <1>5
      <4> QED
        BY <4>1, <4>2
    <3>3. Len(ops) \in Nat /\ t \in Places(st, ba2, <<>>)
      BY <1>1
    <3> HIDE DEF Q, New, e
    <3> QED
      BY <2>1, <3>2, <3>3, BatchStays
  <2>2. CASE t[1] # -1
    <3>1. t \in Places(st, ba2, <<>>) /\ t[1] # -2 /\ Len(ops) \in Nat
      BY <1>1, <1>6
    <3> HIDE DEF Q, New, e
    <3>2. t[2] \in 1..Len(st[t[1]])
      BY <2>2, <3>1, PlaceKinds
    <3> QED
      BY <2>2, <3>1, <3>2, CallStays
  <2> QED
    BY <2>1, <2>2
<1>9. <<-2, 0, 1>> \in Places(st, ba, c) /\ Holder(st, ba, c, <<-2, 0, 1>>) = c[1]
  <2>1. Len(c) = 1
    BY <1>1
  <2>2. PICK s \in Places(st, ba, c) : s = <<-2, 0, 1>> /\ Holder(st, ba, c, s) = c[1]
    BY <2>1, ArgumentPlace
  <2> QED
    BY <2>2
<1>10. \A t \in Q : e[t] = IF New(t) THEN <<-2, 0, 1>> ELSE t
  OBVIOUS
<1>11. <<-2, 0, 1>>[1] = -2
  OBVIOUS
<1> HIDE DEF e, Q, New
<1>12. \A t \in Q : /\ e[t] \in Places(st, ba, c)
                    /\ Holder(st, ba2, <<>>, t) = Holder(st, ba, c, e[t])
  BY <1>7, <1>8, <1>9, <1>10
<1>13. ASSUME NEW t \in Q, NEW u \in Q, t # u PROVE e[t] # e[u]
  BY <1>6, <1>7, <1>10, <1>11, <1>13
<1>14. Typed(st, ba2, <<>>)
  BY <1>1, <1>5, EmptySeq DEF Typed
<1>15. Isolated(st, ba2, <<>>, h)
  <2>1. Isolated(st, ba, c, h)
    BY <1>1
  <2> QED
    BY <2>1, <1>12, <1>13, <1>14, Fewer DEF Q
<1> QED
  BY <1>3, <1>15

\* It takes one of its batch to write it, and forgets the others, or all but
\* another one, the last.
LEMMA Flushed ==
  ASSUME GoodGraph, NEW st, NEW ba, NEW h, NEW o \in Positions, Isolated(st, ba, <<>>, h),
         NEW k \in 1..Len(ba[o]), NEW b,
         \/ b = <<>>
         \/ b = <<ba[o][Len(ba[o])]>> /\ k # Len(ba[o])
  PROVE  Isolated(st, [ba EXCEPT ![o] = b], <<Argued(o, ba[o][k])>>, h)
<1>1. /\ Len(ops) \in Nat /\ Typed(st, ba, <<>>)
      /\ ba \in [Positions -> Seq(Int \X Int)]
  BY DEF GoodGraph, Isolated, Typed
<1>2. PICK n : n = Len(ba[o])
  OBVIOUS
<1>3. PICK p : p = ba[o][k]
  OBVIOUS
<1>4. PICK S : S = Int \X Int
  OBVIOUS
<1>5. ba[o] \in Seq(S) /\ n \in Nat /\ k \in Int /\ n \in 1..n /\ p \in S /\ ba[o][n] \in S
  BY <1>1, <1>2, <1>3, <1>4, LenProperties, ElementOfSeq
<1>6. /\ b \in Seq(S)
      /\ (Len(b) = 0 /\ b = <<>>) \/ (Len(b) = 1 /\ b[1] = ba[o][n] /\ k # n)
  <2>1. CASE b = <<>>
    <3>1. <<>> \in Seq(S) /\ Len(<<>>) = 0
      OBVIOUS
    <3> QED
      BY <2>1, <3>1
  <2>2. CASE b = <<ba[o][Len(ba[o])]>> /\ k # Len(ba[o])
    <3>1. PICK a : a = ba[o][n]
      OBVIOUS
    <3>2. <<a>> \in Seq(S) /\ Len(<<a>>) = 1 /\ <<a>>[1] = a
      BY <3>1, <1>5
    <3>3. b = <<a>> /\ k # n
      BY <2>2, <3>1, <1>2
    <3> QED
      BY <3>1, <3>2, <3>3
  <2> QED
    BY <2>1, <2>2
<1>7. PICK c : c = <<Argued(o, p)>>
  OBVIOUS
<1>8. c \in Seq(Holders) /\ Len(c) = 1 /\ c[1] = Argued(o, p)
  BY <1>4, <1>5, <1>7, ArguedTyped
<1>9. PICK ba2 : ba2 = [ba EXCEPT ![o] = b]
  OBVIOUS
<1>10. /\ ba2 \in [Positions -> Seq(Int \X Int)] /\ ba2[o] = b
       /\ \A j \in Positions : j # o => ba2[j] = ba[j]
  BY <1>1, <1>4, <1>6, <1>9
<1> DEFINE Q == Places(st, ba2, c)
           At(t) == IF t[1] = -2 THEN <<-1, o, k>>
                    ELSE IF t[1] = -1 /\ t[2] = o THEN <<-1, o, n>> ELSE t
           e == [t \in Q |-> At(t)]
<1>11. ASSUME NEW m \in 1..n
       PROVE  /\ <<-1, o, m>> \in Places(st, ba, <<>>)
              /\ Holder(st, ba, <<>>, <<-1, o, m>>) = Argued(o, ba[o][m])
  <2>1. m \in 1..Len(ba[o]) /\ m \in Int /\ Len(ops) \in Nat
    BY <1>1, <1>2, <1>5
  <2>2. PICK s : s = <<-1, o, m>>
    OBVIOUS
  <2>3. s[1] = -1 /\ s[2] = o /\ s[3] = m /\ s \in Int \X Int \X Int
    BY <2>1, <2>2, GoroutineNumbers
  <2>4. s \in Places(st, ba, <<>>)
    BY <2>1, <2>3 DEF Places, IsPlace
  <2>5. Holder(st, ba, <<>>, s) = Argued(o, ba[o][m])
    BY <2>3 DEF Holder, Argued
  <2> QED
    BY <2>2, <2>4, <2>5
<1>12. ASSUME NEW t \in Q, t[1] = -2
       PROVE  t = <<-2, 0, 1>> /\ Holder(st, ba2, c, t) = Argued(o, p)
  <2>1. t = <<t[1], t[2], t[3]>> /\ t[2] = 0 /\ t[3] \in 1..Len(c)
        /\ Holder(st, ba2, c, t) = c[t[3]]
    BY <1>1, <1>12, PlaceKinds
  <2>2. t[3] = 1
    BY <2>1, <1>8
  <2> QED
    BY <2>1, <2>2, <1>8, <1>12
<1>13. ASSUME NEW t \in Q, t[1] = -1, t[2] = o
       PROVE  /\ t = <<-1, o, 1>> /\ k # n
              /\ Holder(st, ba2, c, t) = Argued(o, ba[o][n])
  <2>1. /\ t = <<t[1], t[2], t[3]>> /\ t[3] \in 1..Len(ba2[t[2]])
        /\ Holder(st, ba2, c, t) = Argued(t[2], ba2[t[2]][t[3]])
    BY SMTT(30), <1>1, <1>13, PlaceKinds
  <2>2. t[3] \in 1..Len(b)
    BY <2>1, <1>10, <1>13
  <2>3. Len(b) = 1 /\ b[1] = ba[o][n] /\ k # n
    <3>1. CASE Len(b) = 0
      BY <2>2, <3>1
    <3> QED
      BY <3>1, <1>6
  <2>4. t[3] = 1
    BY <2>2, <2>3
  <2> QED
    BY <2>1, <2>3, <2>4, <1>10, <1>13
<1>14. ASSUME NEW t \in Q, t[1] # -2, ~(t[1] = -1 /\ t[2] = o)
       PROVE  /\ t \in Places(st, ba, <<>>)
              /\ Holder(st, ba2, c, t) = Holder(st, ba, <<>>, t)
  <2>1. CASE t[1] = -1
    <3>1. t[2] \in Positions /\ t[3] \in 1..Len(ba2[t[2]])
      BY <2>1, <1>1, PlaceKinds
    <3>2. t[3] \in 1..Len(ba[t[2]]) /\ ba2[t[2]][t[3]] = ba[t[2]][t[3]]
      BY <2>1, <3>1, <1>10, <1>14
    <3>3. Len(ops) \in Nat /\ t \in Places(st, ba2, c)
      BY <1>1
    <3> HIDE DEF Q, At, e
    <3> QED
      BY <2>1, <3>2, <3>3, BatchStays
  <2>2. CASE t[1] # -1
    <3>1. t \in Places(st, ba2, c) /\ t[1] # -2 /\ Len(ops) \in Nat
      BY <1>1, <1>14
    <3> HIDE DEF Q, At, e
    <3>2. t[2] \in 1..Len(st[t[1]])
      BY <2>2, <3>1, PlaceKinds
    <3> QED
      BY <2>2, <3>1, <3>2, CallStays
  <2> QED
    BY <2>1, <2>2
<1>15. \A t \in Q : e[t] = At(t)
  OBVIOUS
<1>16. /\ <<-1, o, k>>[1] = -1 /\ <<-1, o, k>>[2] = o /\ <<-1, o, k>>[3] = k
       /\ <<-1, o, n>>[1] = -1 /\ <<-1, o, n>>[2] = o /\ <<-1, o, n>>[3] = n
       /\ k \in 1..n /\ n \in 1..n
  BY <1>2, <1>5
<1> HIDE DEF e, Q
<1>17. ASSUME NEW t \in Q
       PROVE  /\ e[t] \in Places(st, ba, <<>>)
              /\ Holder(st, ba2, c, t) = Holder(st, ba, <<>>, e[t])
  <2>1. CASE t[1] = -2
    BY <2>1, <1>3, <1>11, <1>12, <1>15, <1>16
  <2>2. CASE t[1] = -1 /\ t[2] = o
    BY <2>2, <1>11, <1>13, <1>15, <1>16
  <2>3. CASE t[1] # -2 /\ ~(t[1] = -1 /\ t[2] = o)
    BY <2>3, <1>14, <1>15
  <2> QED
    BY <2>1, <2>2, <2>3
<1>18. ASSUME NEW t \in Q, NEW u \in Q, t # u PROVE e[t] # e[u]
  <2>1. CASE t[1] = -2
    BY <2>1, <1>12, <1>13, <1>15, <1>16, <1>18
  <2>2. CASE t[1] = -1 /\ t[2] = o
    BY <2>2, <1>12, <1>13, <1>15, <1>16, <1>18
  <2>3. CASE t[1] # -2 /\ ~(t[1] = -1 /\ t[2] = o)
    BY <2>3, <1>15, <1>16, <1>18
  <2> QED
    BY <2>1, <2>2, <2>3
<1>19. Typed(st, ba2, c)
  BY <1>1, <1>8, <1>10 DEF Typed
<1>20. Isolated(st, ba2, c, h)
  BY <1>17, <1>18, <1>19, Fewer DEF Q
<1> QED
  BY <1>3, <1>7, <1>9, <1>20

\* A stack without its last call.
LEMMA FrontOfSeq ==
  ASSUME NEW S, NEW s \in Seq(S), s # <<>>
  PROVE  /\ Front(s) \in Seq(S) /\ Len(Front(s)) = Len(s) - 1
         /\ Len(s) \in Nat /\ Len(s) - 1 \in Nat
         /\ \A k \in 1..(Len(s) - 1) : Front(s)[k] = s[k]
<1> DEFINE n == Len(s)
           t == Front(s)
<1>1. n \in Nat /\ n >= 1 /\ n - 1 \in Nat
  BY LenProperties, EmptySeq
<1>2. \A i \in 1..(n - 1) : s[i] \in S
  BY <1>1, ElementOfSeq
<1>3. t = SubSeq(s, 1, n - 1)
  BY DEF Front
<1>4. /\ SubSeq(s, 1, n - 1) \in Seq(S)
      /\ Len(SubSeq(s, 1, n - 1)) = IF 1 <= n - 1 THEN n - 1 - 1 + 1 ELSE 0
      /\ \A i \in 1..(n - 1 - 1 + 1) : SubSeq(s, 1, n - 1)[i] = s[1 + i - 1]
  <2>1. 1 \in Int /\ n - 1 \in Int
    BY <1>1
  <2> QED
    BY <1>2, <2>1, SubSeqProperties
<1> HIDE DEF n, t
<1>5. n - 1 - 1 + 1 = n - 1 /\ (~(1 <= n - 1) => n - 1 = 0)
      /\ \A i \in 1..(n - 1) : 1 + i - 1 = i
  BY <1>1
<1>6. Len(t) = n - 1
  BY <1>3, <1>4, <1>5
<1>7. \A i \in 1..(n - 1) : t[i] = s[1 + i - 1]
  BY <1>3, <1>4, <1>5
<1> QED
  BY <1>1, <1>3, <1>4, <1>5, <1>6, <1>7 DEF n, t

\* A call returns.
LEMMA Popped ==
  ASSUME GoodGraph, NEW st, NEW ba, NEW c, NEW h, Isolated(st, ba, c, h),
         NEW g \in Goroutines, st[g] # <<>>
  PROVE  Isolated([st EXCEPT ![g] = Front(st[g])], ba, c, h)
<1>0. /\ Len(ops) \in Nat /\ Typed(st, ba, c) /\ st \in [Goroutines -> Seq(CallRecords)]
  BY DEF GoodGraph, Isolated, Typed
<1>1. /\ Front(st[g]) \in Seq(CallRecords) /\ Len(Front(st[g])) = Len(st[g]) - 1
      /\ Len(st[g]) \in Nat
      /\ \A k \in 1..(Len(st[g]) - 1) : Front(st[g])[k] = st[g][k]
  BY <1>0, FrontOfSeq
<1>2. PICK st2 : st2 = [st EXCEPT ![g] = Front(st[g])]
  OBVIOUS
<1>3. /\ st2 \in [Goroutines -> Seq(CallRecords)]
      /\ \A k \in Goroutines : k # g => st2[k] = st[k]
      /\ st2[g] = Front(st[g])
  BY <1>0, <1>1, <1>2
<1> DEFINE Q == Places(st2, ba, c)
           e == [t \in Q |-> t]
<1>4. ASSUME NEW t \in Q
      PROVE  t \in Places(st, ba, c) /\ Holder(st2, ba, c, t) = Holder(st, ba, c, t)
  <2>1. CASE t[1] = -1 \/ t[1] = -2
    BY <2>1, <1>0, GoroutineNumbers DEF Places, IsPlace, Holder
  <2>2. CASE t[1] # -1 /\ t[1] # -2
    <3>1. t[1] \in Goroutines /\ t[2] \in 1..Len(st2[t[1]]) /\ t \in Places(st2, ba, c)
      BY <2>2, <1>0, PlaceKinds
    <3>2. t[2] \in 1..Len(st[t[1]]) /\ st2[t[1]][t[2]] = st[t[1]][t[2]]
      <4>1. CASE t[1] = g
        BY <4>1, <3>1, <1>1, <1>3
      <4>2. CASE t[1] # g
        BY <4>2, <3>1, <1>3
      <4> QED
        BY <4>1, <4>2
    <3> HIDE DEF Q, e
    <3> QED
      BY <2>2, <3>1, <3>2, CallStays
  <2> QED
    BY <2>1, <2>2
<1>5. Typed(st2, ba, c)
  BY <1>0, <1>3 DEF Typed
<1>6. \A t \in Q : e[t] = t
  OBVIOUS
<1> HIDE DEF e
<1>7. Isolated(st2, ba, c, h)
  BY <1>4, <1>5, <1>6, Fewer
<1> QED
  BY <1>2, <1>7

\* A call goes on with its next entry.
LEMMA PendingNext ==
  ASSUME GoodGraph, NEW st, NEW ba, NEW h, Isolated(st, ba, <<>>, h),
         NEW g \in Goroutines, st[g] # <<>>,
         NEW f, f = Last(st[g]), Len(f.pending) > 1
  PROVE  Isolated([st EXCEPT ![g] =
                     Append(Front(st[g]), Writing(f.op, Tail(f.pending), f.route))],
                  ba, <<>>, h)
<1>0. /\ Len(ops) \in Nat /\ Wired
      /\ Typed(st, ba, <<>>) /\ st \in [Goroutines -> Seq(CallRecords)]
  BY DEF GoodGraph, Isolated, Typed
<1>1. PICK n : n = Len(st[g])
  OBVIOUS
<1>2. n \in Nat /\ n \in 1..n /\ f = st[g][n] /\ f \in CallRecords
  BY <1>0, <1>1, LastCall
<1>3. f.op \in Positions /\ f.pending \in Seq(Int \X Int) /\ f.route \in Routes
  BY <1>2 DEF CallRecords
<1>4. PICK x : x = Tail(f.pending)
  OBVIOUS
<1>5. /\ x \in Seq(Int \X Int) /\ Len(f.pending) \in Nat /\ Len(x) = Len(f.pending) - 1
      /\ \A q \in 1..Len(x) : x[q] = f.pending[q + 1]
  <2>1. f.pending # <<>> /\ Len(f.pending) \in Nat
    BY <1>3, EmptySeq, LenProperties
  <2>2. PICK S : S = Int \X Int
    OBVIOUS
  <2> QED
    BY <1>3, <1>4, <2>1, <2>2, HeadTailProperties
<1>6. PICK w : w = Writing(f.op, x, f.route)
  OBVIOUS
<1>7. /\ w \in CallRecords /\ w.op = f.op /\ w.pending = x
      /\ w.todo # <<>> => Passed(w) = {}
  <2>1. /\ Wired /\ f.op \in Positions /\ x \in Seq(Int \X Int) /\ f.route \in Routes
    BY <1>0, <1>3, <1>5
  <2>2. PICK i, r : i = f.op /\ r = f.route
    OBVIOUS
  <2> QED
    BY <2>1, <2>2, <1>6, WritingCall
<1>8. PICK u : u = Front(st[g])
  OBVIOUS
<1>9. /\ u \in Seq(CallRecords) /\ Len(u) = n - 1
      /\ \A k \in 1..(n - 1) : u[k] = st[g][k]
  BY <1>0, <1>1, <1>8, FrontOfSeq
<1>10. PICK v : v = Append(u, w)
  OBVIOUS
<1>11. /\ v \in Seq(CallRecords) /\ Len(v) = n /\ v[n] = w
       /\ \A k \in 1..(n - 1) : v[k] = st[g][k]
  <2>1. /\ v \in Seq(CallRecords) /\ Len(v) = Len(u) + 1 /\ v[Len(u) + 1] = w
        /\ \A k \in 1..Len(u) : v[k] = u[k]
    BY <1>7, <1>9, <1>10, AppendProperties
  <2> QED
    BY <2>1, <1>2, <1>9
<1>12. PICK st2 : st2 = [st EXCEPT ![g] = v]
  OBVIOUS
<1>13. /\ st2 \in [Goroutines -> Seq(CallRecords)]
       /\ \A k \in Goroutines : k # g => st2[k] = st[k]
       /\ st2[g] = v
  BY <1>0, <1>11, <1>12
<1> DEFINE Q == Places(st2, ba, <<>>)
           New(t) == t[1] = g /\ t[2] = n
           e == [t \in Q |-> IF New(t) THEN <<g, n, t[3] + 1>> ELSE t]
<1>14. -1 \notin Goroutines /\ -2 \notin Goroutines /\ Goroutines \subseteq Nat
  BY <1>0, GoroutineNumbers
<1>15. ASSUME NEW t \in Q, New(t)
       PROVE  /\ t = <<g, n, t[3]>> /\ t[3] \in Int
              /\ <<g, n, t[3] + 1>> \in Places(st, ba, <<>>)
              /\ Holder(st2, ba, <<>>, t) = Holder(st, ba, <<>>, <<g, n, t[3] + 1>>)
  <2>0. t \in Places(st2, ba, <<>>) /\ t[1] # -1 /\ t[1] # -2 /\ Len(ops) \in Nat
    BY <1>0, <1>14, <1>15
  <2>1. /\ t = <<t[1], t[2], t[3]>> /\ t \in Int \X Int \X Int
        /\ t[3] \in 1..Len(st2[t[1]][t[2]].pending)
        /\ t[3] = 1 => st2[t[1]][t[2]].todo # <<>>
        /\ Holder(st2, ba, <<>>, t) = CallHolder(st2[t[1]][t[2]], t[3])
    BY <2>0, PlaceKinds
  <2>2. st2[t[1]][t[2]] = w
    BY <1>11, <1>13, <1>15
  <2>3. PICK q : q = t[3]
    OBVIOUS
  <2>4. /\ q \in 1..Len(x) /\ q \in Int /\ (q = 1 => w.todo # <<>>)
        /\ Holder(st2, ba, <<>>, t) = CallHolder(w, q)
    BY <2>1, <2>2, <2>3, <1>7
  <2>5. /\ q + 1 \in 1..Len(f.pending) /\ q + 1 # 1 /\ q + 1 \in Int
        /\ x[q] = f.pending[q + 1]
    BY <2>4, <1>5
  <2>6. CallHolder(w, q) = CallHolder(f, q + 1)
    BY <2>4, <2>5, <1>7 DEF CallHolder
  <2>7. PICK s : s = <<g, n, q + 1>>
    OBVIOUS
  <2>8. s[1] = g /\ s[2] = n /\ s[3] = q + 1 /\ s \in Int \X Int \X Int
    BY <2>5, <2>7, <1>2, <1>14
  <2>9. s \in Places(st, ba, <<>>)
    BY <2>5, <2>8, <1>1, <1>2 DEF Places, IsPlace
  <2>10. Holder(st, ba, <<>>, s) = CallHolder(f, q + 1)
    BY <2>8, <1>2, <1>14 DEF Holder
  <2> QED
    BY <2>1, <2>3, <2>4, <2>6, <2>7, <2>9, <2>10, <1>15
<1>16. ASSUME NEW t \in Q, ~New(t)
       PROVE  /\ t \in Places(st, ba, <<>>)
              /\ Holder(st2, ba, <<>>, t) = Holder(st, ba, <<>>, t)
  <2>1. CASE t[1] = -1 \/ t[1] = -2
    BY <2>1, <1>0, GoroutineNumbers DEF Places, IsPlace, Holder
  <2>2. CASE t[1] # -1 /\ t[1] # -2
    <3>1. t[1] \in Goroutines /\ t[2] \in 1..Len(st2[t[1]]) /\ t \in Places(st2, ba, <<>>)
      BY <2>2, <1>0, PlaceKinds
    <3>2. t[2] \in 1..Len(st[t[1]]) /\ st2[t[1]][t[2]] = st[t[1]][t[2]]
      <4>1. CASE t[1] = g
        <5>1. t[2] \in 1..n /\ t[2] # n
          BY <4>1, <3>1, <1>11, <1>13, <1>16
        <5>2. t[2] \in 1..(n - 1)
          BY <5>1, <1>2
        <5> QED
          BY <4>1, <5>1, <5>2, <1>1, <1>11, <1>13
      <4>2. CASE t[1] # g
        BY <4>2, <3>1, <1>13
      <4> QED
        BY <4>1, <4>2
    <3> HIDE DEF Q, e, New
    <3> QED
      BY <2>2, <3>1, <3>2, CallStays
  <2> QED
    BY <2>1, <2>2
<1>17. Typed(st2, ba, <<>>)
  BY <1>0, <1>13 DEF Typed
<1>18. \A t \in Q : e[t] = IF New(t) THEN <<g, n, t[3] + 1>> ELSE t
  OBVIOUS
<1> HIDE DEF e, Q
<1>19. \A t \in Q : /\ e[t] \in Places(st, ba, <<>>)
                    /\ Holder(st2, ba, <<>>, t) = Holder(st, ba, <<>>, e[t])
  BY <1>15, <1>16, <1>18
<1>20. ASSUME NEW t \in Q, NEW y \in Q, t # y PROVE e[t] # e[y]
  <2>1. CASE New(t) /\ New(y)
    <3>1. t = <<g, n, t[3]>> /\ y = <<g, n, y[3]>> /\ t[3] \in Int /\ y[3] \in Int
      BY <2>1, <1>15
    <3>2. t[3] + 1 # y[3] + 1
      BY <3>1, <1>20
    <3>3. e[t] = <<g, n, t[3] + 1>> /\ e[y] = <<g, n, y[3] + 1>>
      BY <2>1, <1>18
    <3>4. e[t][3] = t[3] + 1 /\ e[y][3] = y[3] + 1
      BY <3>3
    <3> QED
      BY <3>2, <3>4
  <2>2. CASE ~New(t) /\ ~New(y)
    BY <2>2, <1>18, <1>20
  <2>3. CASE New(t) /\ ~New(y)
    <3>1. e[t] = <<g, n, t[3] + 1>> /\ e[y] = y
      BY <2>3, <1>18
    <3>2. e[t][1] = g /\ e[t][2] = n
      BY <3>1
    <3> QED
      BY <2>3, <3>1, <3>2
  <2>4. CASE ~New(t) /\ New(y)
    <3>1. e[y] = <<g, n, y[3] + 1>> /\ e[t] = t
      BY <2>4, <1>18
    <3>2. e[y][1] = g /\ e[y][2] = n
      BY <3>1
    <3> QED
      BY <2>4, <3>1, <3>2
  <2> QED
    BY <2>1, <2>2, <2>3, <2>4
<1>21. Isolated(st2, ba, <<>>, h)
  BY <1>17, <1>19, <1>20, Fewer DEF Q
<1> QED
  BY <1>4, <1>6, <1>8, <1>10, <1>12, <1>21

\* A recombine operator that is stopped writes what it holds.
LEMMA Unloaded ==
  ASSUME GoodGraph, NEW st, NEW ba, NEW h, Isolated(st, ba, <<>>, h), NEW i \in Positions
  PROVE  Isolated([st EXCEPT ![Main] = <<Writing(i, ba[i], 1)>>],
                  [ba EXCEPT ![i] = <<>>], <<>>, h)
<1>0. /\ Len(ops) \in Nat /\ Wired /\ Typed(st, ba, <<>>)
      /\ st \in [Goroutines -> Seq(CallRecords)] /\ ba \in [Positions -> Seq(Int \X Int)]
  BY DEF GoodGraph, Isolated, Typed
<1>1. PICK x : x = ba[i]
  OBVIOUS
<1>2. PICK w : w = Writing(i, x, 1)
  OBVIOUS
<1>3. /\ w \in CallRecords /\ w.op = i /\ w.pending = x
      /\ w.todo # <<>> => Passed(w) = {}
  <2>1. x \in Seq(Int \X Int) /\ 1 \in Routes
    BY <1>0, <1>1 DEF Routes
  <2> QED
    BY <2>1, <1>0, <1>2, WritingCall
<1>4. PICK v : v = <<w>>
  OBVIOUS
<1>5. v \in Seq(CallRecords) /\ Len(v) = 1 /\ v[1] = w
  BY <1>3, <1>4
<1>6. PICK st2 : st2 = [st EXCEPT ![Main] = v]
  OBVIOUS
<1>7. Main \in Goroutines /\ Main \in Int
  BY <1>0, GoroutineNumbers
<1>8. /\ st2 \in [Goroutines -> Seq(CallRecords)]
      /\ \A k \in Goroutines : k # Main => st2[k] = st[k]
      /\ st2[Main] = v
  BY <1>0, <1>5, <1>6, <1>7
<1>9. PICK ba2 : ba2 = [ba EXCEPT ![i] = <<>>]
  OBVIOUS
<1>10. /\ ba2 \in [Positions -> Seq(Int \X Int)]
       /\ \A k \in Positions : k # i => ba2[k] = ba[k]
       /\ ba2[i] = <<>> /\ Len(ba2[i]) = 0
  <2>1. <<>> \in Seq(Int \X Int) /\ Len(<<>>) = 0
    BY EmptySeq
  <2> QED
    BY <2>1, <1>0, <1>9
<1> DEFINE Q == Places(st2, ba2, <<>>)
           New(t) == t[1] = Main
           e == [t \in Q |-> IF New(t) THEN <<-1, i, t[3]>> ELSE t]
<1>11. -1 \notin Goroutines /\ -2 \notin Goroutines /\ i \in Int
  BY <1>0, GoroutineNumbers
<1>12. ASSUME NEW t \in Q, New(t)
       PROVE  /\ t = <<Main, 1, t[3]>> /\ t[3] \in Int
              /\ <<-1, i, t[3]>> \in Places(st, ba, <<>>)
              /\ Holder(st2, ba2, <<>>, t) = Holder(st, ba, <<>>, <<-1, i, t[3]>>)
  <2>0. t \in Places(st2, ba2, <<>>) /\ t[1] # -1 /\ t[1] # -2 /\ Len(ops) \in Nat
    BY <1>0, <1>7, <1>11, <1>12
  <2>1. /\ t = <<t[1], t[2], t[3]>> /\ t \in Int \X Int \X Int
        /\ t[2] \in 1..Len(st2[t[1]])
        /\ t[3] \in 1..Len(st2[t[1]][t[2]].pending)
        /\ t[3] = 1 => st2[t[1]][t[2]].todo # <<>>
        /\ Holder(st2, ba2, <<>>, t) = CallHolder(st2[t[1]][t[2]], t[3])
    BY <2>0, PlaceKinds
  <2>2. t[2] \in 1..1
    BY <2>1, <1>5, <1>8, <1>12
  <2>3. t[2] = 1 /\ st2[t[1]][t[2]] = w
    BY <2>2, <1>5, <1>8, <1>12
  <2>4. PICK q : q = t[3]
    OBVIOUS
  <2>5. /\ q \in 1..Len(x) /\ q \in Int /\ (q = 1 => w.todo # <<>>)
        /\ Holder(st2, ba2, <<>>, t) = CallHolder(w, q)
    BY <2>1, <2>3, <2>4, <1>3
  <2>6. CallHolder(w, q) = Argued(i, x[q])
    BY <2>5, <1>3 DEF CallHolder, Argued
  <2>7. PICK s : s = <<-1, i, q>>
    OBVIOUS
  <2>8. s[1] = -1 /\ s[2] = i /\ s[3] = q /\ s \in Int \X Int \X Int
    BY <2>5, <2>7, <1>11
  <2>9. s \in Places(st, ba, <<>>)
    BY <2>5, <2>8, <1>1 DEF Places, IsPlace
  <2>10. Holder(st, ba, <<>>, s) = Argued(i, x[q])
    BY <2>8, <1>1 DEF Holder, Argued
  <2> QED
    BY <2>1, <2>3, <2>4, <2>5, <2>6, <2>7, <2>9, <2>10, <1>12
<1>13. ASSUME NEW t \in Q, ~New(t)
       PROVE  /\ t \in Places(st, ba, <<>>) /\ (t[1] = -1 => t[2] # i)
              /\ Holder(st2, ba2, <<>>, t) = Holder(st, ba, <<>>, t)
  <2>1. CASE t[1] = -1
    <3>1. t[2] \in Positions /\ t[3] \in 1..Len(ba2[t[2]])
      BY <2>1, <1>0, PlaceKinds
    <3>2. t[2] # i
      BY <3>1, <1>10
    <3>3. ba2[t[2]] = ba[t[2]]
      BY <3>1, <3>2, <1>10
    <3>4. Len(ops) \in Nat /\ t \in Places(st2, ba2, <<>>)
      BY <1>0
    <3>5. t[3] \in 1..Len(ba[t[2]]) /\ ba2[t[2]][t[3]] = ba[t[2]][t[3]]
      BY <3>1, <3>3
    <3> HIDE DEF Q, New, e
    <3> QED
      BY <2>1, <3>2, <3>4, <3>5, BatchStays
  <2>2. CASE t[1] = -2
    <3>1. Len(<<>>) = 0 /\ \A k \in 1..0 : FALSE
      OBVIOUS
    <3> QED
      BY <2>2, <3>1, <1>0, PlaceKinds
  <2>3. CASE t[1] # -1 /\ t[1] # -2
    <3>1. t[1] \in Goroutines /\ t[2] \in 1..Len(st2[t[1]]) /\ t \in Places(st2, ba2, <<>>)
      BY <2>3, <1>0, PlaceKinds
    <3>2. t[2] \in 1..Len(st[t[1]]) /\ st2[t[1]][t[2]] = st[t[1]][t[2]]
      BY <3>1, <1>8, <1>13
    <3> HIDE DEF Q, e, New
    <3> QED
      BY <2>3, <3>1, <3>2, CallStays
  <2> QED
    BY <2>1, <2>2, <2>3
<1>14. Typed(st2, ba2, <<>>)
  BY <1>0, <1>8, <1>10 DEF Typed
<1>15. \A t \in Q : e[t] = IF New(t) THEN <<-1, i, t[3]>> ELSE t
  OBVIOUS
<1> HIDE DEF e, Q
<1>16. \A t \in Q : /\ e[t] \in Places(st, ba, <<>>)
                    /\ Holder(st2, ba2, <<>>, t) = Holder(st, ba, <<>>, e[t])
  BY <1>12, <1>13, <1>15
<1>17. ASSUME NEW t \in Q, NEW y \in Q, t # y PROVE e[t] # e[y]
  <2>1. CASE New(t) /\ New(y)
    <3>1. t = <<Main, 1, t[3]>> /\ y = <<Main, 1, y[3]>>
      BY <2>1, <1>12
    <3>2. t[3] # y[3]
      BY <3>1, <1>17
    <3>3. e[t] = <<-1, i, t[3]>> /\ e[y] = <<-1, i, y[3]>>
      BY <2>1, <1>15
    <3>4. e[t][3] = t[3] /\ e[y][3] = y[3]
      BY <3>3
    <3> QED
      BY <3>2, <3>4
  <2>2. CASE ~New(t) /\ ~New(y)
    BY <2>2, <1>15, <1>17
  <2>3. CASE New(t) /\ ~New(y)
    <3>1. e[t] = <<-1, i, t[3]>> /\ e[y] = y
      BY <2>3, <1>15
    <3>2. e[t][1] = -1 /\ e[t][2] = i
      BY <3>1
    <3> QED
      BY <2>3, <3>1, <3>2, <1>13
  <2>4. CASE ~New(t) /\ New(y)
    <3>1. e[y] = <<-1, i, y[3]>> /\ e[t] = t
      BY <2>4, <1>15
    <3>2. e[y][1] = -1 /\ e[y][2] = i
      BY <3>1
    <3> QED
      BY <2>4, <3>1, <3>2, <1>13
  <2> QED
    BY <2>1, <2>2, <2>3, <2>4
<1>18. Isolated(st2, ba2, <<>>, h)
  BY <1>14, <1>16, <1>17, Fewer DEF Q
<1> QED
  BY <1>1, <1>2, <1>4, <1>6, <1>9, <1>18

-----------------------------------------------------------------------------
(* The steps of goroutines *)

\* The argument of a call is an entry of the heap.
LEMMA ArgumentValid ==
  ASSUME NEW st, NEW ba, NEW o \in Positions, NEW p \in Int \X Int, NEW h,
         Isolated(st, ba, <<Argued(o, p)>>, h)
  PROVE  Heap(h) /\ Valid(h, p)
<1>1. PICK c : c = <<Argued(o, p)>>
  OBVIOUS
<1>2. Len(c) = 1 /\ c[1] = Argued(o, p) /\ Argued(o, p).p = p
  BY <1>1, ArguedTyped
<1>3. PICK s \in Places(st, ba, c) : Holder(st, ba, c, s) = c[1]
  BY <1>2, ArgumentPlace
<1>4. Isolated(st, ba, c, h)
  BY <1>1
<1> QED
  BY <1>2, <1>3, <1>4 DEF Isolated

\* What a call of the next output leaves of the stacks.
LEMMA StacksAfter ==
  ASSUME stacks \in [Goroutines -> Seq(CallRecords)], NEW g \in Goroutines, stacks[g] # <<>>
  PROVE  /\ Skipped(g) = PassedNext(stacks, g)
         /\ \A w : Entered(g, w)
                     = [PassedNext(stacks, g) EXCEPT ![g] = Append(PassedNext(stacks, g)[g], w)]
<1>1. Returned(g) = [stacks[g] EXCEPT ![Len(stacks[g])] = OutputDone(Last(stacks[g]))]
  BY DEF Returned, OutputDone, Last
<1>2. PICK r : r = Returned(g)
  OBVIOUS
<1>3. PassedNext(stacks, g) = [stacks EXCEPT ![g] = r]
  BY <1>1, <1>2 DEF PassedNext
<1>4. PassedNext(stacks, g)[g] = r
  BY <1>3
<1>5. ASSUME NEW w
      PROVE  Entered(g, w)
               = [PassedNext(stacks, g) EXCEPT ![g] = Append(PassedNext(stacks, g)[g], w)]
  <2>1. PICK u : u = Append(r, w)
    OBVIOUS
  <2>2. Entered(g, w) = [stacks EXCEPT ![g] = u]
    BY <1>2, <2>1 DEF Entered
  <2>3. [stacks EXCEPT ![g] = u] = [[stacks EXCEPT ![g] = r] EXCEPT ![g] = u]
    OBVIOUS
  <2> QED
    BY <1>3, <1>4, <2>1, <2>2, <2>3
<1>6. Skipped(g) = [stacks EXCEPT ![g] = r]
  BY <1>2 DEF Skipped
<1> QED
  BY <1>3, <1>5, <1>6

\* The next output is given an entry, shared or copied.
LEMMA ArgumentGiven ==
  ASSUME GoodGraph, Isolated(stacks, batch, <<>>, heap), NEW g \in Goroutines,
         NEW o, Calls(g, o)
  PROVE  /\ o \in Positions /\ Argument(g).p \in Int \X Int
         /\ Heap(Argument(g).h) /\ Valid(Argument(g).h, Argument(g).p)
         /\ Isolated(PassedNext(stacks, g), batch, <<Argued(o, Argument(g).p)>>, Argument(g).h)
<1>1. PICK f : f = Last(stacks[g])
  OBVIOUS
<1>2. f = Top(g) /\ stacks[g] # <<>> /\ f.todo # <<>> /\ o = Head(f.todo)
  BY <1>1 DEF Calls, Top
<1>3. stacks \in [Goroutines -> Seq(CallRecords)] /\ Heap(heap) /\ Wired /\ NoCycle
  BY DEF Isolated, Typed, GoodGraph
<1>4. f \in CallRecords
  BY <1>1, <1>2, <1>3, LastCall
<1>5. o \in Positions
  BY <1>2, <1>3, <1>4, NextOutput
<1>6. f.pending[1] \in Int \X Int
  <2>1. f.pending \in Seq(Int \X Int) /\ f.pending # <<>>
    BY <1>2, <1>4 DEF CallRecords
  <2>2. 1 \in 1..Len(f.pending)
    BY <2>1, LenProperties, EmptySeq
  <2> QED
    BY <2>1, <2>2, ElementOfSeq
<1>7. PICK s : s = PassedNext(stacks, g)
  OBVIOUS
<1>8. CASE IsShared(f)
  <2>1. Argument(g).p = f.pending[1] /\ Argument(g).h = heap
    BY <1>2, <1>8 DEF Argument
  <2>2. Is(f.op, {"router"}) \/ Len(f.todo) = 1
    BY <1>8 DEF IsShared
  <2>3. Isolated(PassedNext(stacks, g), batch, <<Argued(Head(f.todo), f.pending[1])>>, heap)
    BY <1>1, <1>2, <2>2, SharedNext
  <2>4. Isolated(s, batch, <<Argued(o, f.pending[1])>>, heap)
    BY <1>2, <1>7, <2>3
  <2>5. Heap(heap) /\ Valid(heap, f.pending[1])
    BY <1>5, <1>6, <2>4, ArgumentValid
  <2> QED
    BY <1>5, <1>6, <1>7, <2>1, <2>4, <2>5
<1>9. CASE ~IsShared(f)
  <2>1. PICK p : p = f.pending[1]
    OBVIOUS
  <2>2. ~Is(f.op, {"router"})
    BY <1>9 DEF IsShared
  <2>3. /\ Isolated(s, batch, <<>>, heap) /\ Valid(heap, p)
        /\ \A i \in By(heap, p) : Reaches(i, o) \/ OtherBranch(i, o)
    BY <1>1, <1>2, <1>7, <2>1, <2>2, CopiedNext
  <2>4. PICK h2, c : /\ h2 = [heap EXCEPT ![p[1]] = Append(@, heap[p[1]][p[2]])]
                     /\ c = <<p[1], Len(heap[p[1]]) + 1>>
    OBVIOUS
  <2>5. Argument(g).p = c /\ Argument(g).h = h2
    BY <1>2, <1>9, <2>1, <2>4 DEF Argument, Entry
  <2>6. /\ Heap(h2) /\ Valid(h2, c) /\ ~Valid(heap, c)
        /\ \A q : Valid(heap, q) => Valid(h2, q) /\ By(h2, q) = By(heap, q)
        /\ By(h2, c) = By(heap, p)
    <3>1. PICK h : h = heap
      OBVIOUS
    <3>2. Heap(h) /\ Valid(h, p)
      BY <1>3, <2>3, <3>1
    <3>3. LET n == p[1]
              k2 == [h EXCEPT ![n] = Append(@, h[p[1]][p[2]])]
              d == <<n, Len(h[n]) + 1>>
          IN  /\ Heap(k2) /\ Valid(k2, d) /\ ~Valid(h, d)
              /\ \A q : Valid(h, q) => Valid(k2, q) /\ By(k2, q) = By(h, q)
              /\ By(k2, d) = By(h, p)
      BY <3>2, Copied
    <3> QED
      BY <3>1, <3>3, <2>4
  <2>7. Isolated(s, batch, <<Argued(o, c)>>, h2)
    BY <1>5, <2>3, <2>6, EntryMade
  <2>8. c \in Int \X Int
    BY <2>6 DEF Valid
  <2> QED
    BY <1>5, <1>7, <2>5, <2>6, <2>7, <2>8
<1> QED
  BY <1>8, <1>9

\* What an operator that may fail makes of its argument.
LEMMA ResultIsolated ==
  ASSUME GoodGraph, NEW st, NEW ba, NEW o \in Positions, NEW p \in Int \X Int, NEW h,
         Isolated(st, ba, <<Argued(o, p)>>, h), NEW result \in Results(o)
  PROVE  /\ Isolated(st, ba, <<Argued(o, p)>>, AfterResult(h, o, result, p))
         /\ Written(o, result, p) \in {<<p>>, <<>>}
<1>1. Heap(h) /\ Valid(h, p)
  BY ArgumentValid
<1>2. PICK h2 : h2 = ChangedBy(h, p, o)
  OBVIOUS
<1>3. /\ Heap(h2)
      /\ \A q : Valid(h2, q) <=> Valid(h, q)
      /\ \A q : Valid(h, q) /\ q # p => By(h2, q) = By(h, q)
      /\ By(h2, p) = By(h, p) \cup {o}
  BY <1>1, <1>2, Changed
<1>4. Isolated(st, ba, <<Argued(o, p)>>, h2)
  BY <1>3, ArgumentChanged
<1>5. AfterResult(h, o, result, p) \in {h, h2}
  BY <1>2 DEF AfterResult
<1>6. result \in {"skipped", "done", "failed", "failed_late", "callback_failed"}
  BY DEF Results
<1>7. Written(o, result, p) \in {<<p>>, <<>>}
  BY <1>6 DEF Written
<1> QED
  BY <1>4, <1>5, <1>7

\* The operator that was called writes what it was given, or nothing.
LEMMA CallEntered ==
  ASSUME GoodGraph, Isolated(stacks, batch, <<>>, heap), NEW g \in Goroutines, stacks[g] # <<>>,
         NEW o \in Positions, NEW p \in Int \X Int, NEW ba, NEW h,
         Isolated(PassedNext(stacks, g), ba, <<Argued(o, p)>>, h),
         NEW x \in {<<p>>, <<>>}, NEW r \in Routes
  PROVE  Isolated(Entered(g, Writing(o, x, r)), ba, <<>>, h)
<1>1. stacks \in [Goroutines -> Seq(CallRecords)]
  BY DEF Isolated, Typed
<1>2. PICK s : s = PassedNext(stacks, g)
  OBVIOUS
<1>3. Isolated([s EXCEPT ![g] = Append(s[g], Writing(o, x, r))], ba, <<>>, h)
  BY <1>2, ArgumentEntered
<1>4. PICK w : w = Writing(o, x, r)
  OBVIOUS
<1>5. Entered(g, w) = [s EXCEPT ![g] = Append(s[g], w)]
  BY <1>1, <1>2, StacksAfter
<1> QED
  BY <1>3, <1>4, <1>5

\* An operator other than a recombine operator.
LEMMA ProcessIsolated ==
  ASSUME GoodGraph, Isolated(stacks, batch, <<>>, heap), NEW g \in Goroutines, NEW o,
         \/ ProcessOutput(g, o) \/ ProcessParser(g, o) \/ ProcessFilter(g, o)
         \/ ProcessRouter(g, o)
  PROVE  Isolated(stacks', batch', <<>>, heap')
<1>1. Calls(g, o) /\ batch' = batch /\ stacks[g] # <<>>
  BY DEF ProcessOutput, ProcessParser, ProcessFilter, ProcessRouter, Calls
<1>2. PICK p, h : p = Argument(g).p /\ h = Argument(g).h
  OBVIOUS
<1>3. PICK s : s = PassedNext(stacks, g)
  OBVIOUS
<1>4. /\ o \in Positions /\ p \in Int \X Int /\ Heap(h) /\ Valid(h, p)
      /\ Isolated(s, batch, <<Argued(o, p)>>, h)
  BY <1>1, <1>2, <1>3, ArgumentGiven
<1>5. PICK h2 : h2 = ChangedBy(h, p, o)
  OBVIOUS
<1>6. Isolated(s, batch, <<Argued(o, p)>>, h2)
  <2>1. /\ Heap(h2)
        /\ \A q : Valid(h2, q) <=> Valid(h, q)
        /\ \A q : Valid(h, q) /\ q # p => By(h2, q) = By(h, q)
        /\ By(h2, p) = By(h, p) \cup {o}
    BY <1>4, <1>5, Changed
  <2> QED
    BY <1>4, <2>1, ArgumentChanged
<1>7. stacks \in [Goroutines -> Seq(CallRecords)]
  BY DEF Isolated, Typed
<1>8. s = Skipped(g)
  BY <1>1, <1>3, <1>7, StacksAfter
<1>9. 1 \in Routes /\ DOMAIN outs[o] \subseteq Routes
  BY <1>4 DEF Routes
<1>10. ASSUME stacks' = Skipped(g), heap' \in {h, h2}
       PROVE  Isolated(stacks', batch', <<>>, heap')
  <2>1. Isolated(s, batch, <<Argued(o, p)>>, heap')
    BY <1>4, <1>6, <1>10
  <2>2. Isolated(s, batch, <<>>, heap')
    BY <2>1, Dropped
  <2> QED
    BY <2>2, <1>1, <1>8, <1>10
<1>11. CASE ProcessOutput(g, o)
  BY <1>11, <1>2, <1>10 DEF ProcessOutput
<1>12. CASE ProcessParser(g, o)
  <2>1. PICK result \in Results(o) :
          /\ heap' = AfterResult(h, o, result, p)
          /\ stacks' = Entered(g, Writing(o, Written(o, result, p), 1))
    BY <1>2, <1>12 DEF ProcessParser
  <2>2. PICK x : x = Written(o, result, p)
    OBVIOUS
  <2>3. Isolated(s, batch, <<Argued(o, p)>>, heap') /\ x \in {<<p>>, <<>>}
    BY <1>4, <2>1, <2>2, ResultIsolated
  <2>4. Isolated(Entered(g, Writing(o, x, 1)), batch, <<>>, heap')
    BY <1>1, <1>3, <1>4, <1>9, <2>3, CallEntered
  <2> QED
    BY <2>1, <2>2, <2>4, <1>1
<1>13. CASE ProcessFilter(g, o)
  <2>1. heap' = h /\ (stacks' = Entered(g, Writing(o, <<p>>, 1)) \/ stacks' = Skipped(g))
    BY <1>2, <1>13 DEF ProcessFilter
  <2>2. CASE stacks' = Entered(g, Writing(o, <<p>>, 1))
    <3>1. PICK x : x = <<p>>
      OBVIOUS
    <3>2. x \in {<<p>>, <<>>}
      BY <3>1
    <3>3. Isolated(Entered(g, Writing(o, x, 1)), batch, <<>>, h)
      BY <1>1, <1>3, <1>4, <1>9, <3>2, CallEntered
    <3> QED
      BY <3>1, <3>3, <2>1, <2>2, <1>1
  <2>3. CASE stacks' = Skipped(g)
    BY <2>1, <2>3, <1>10
  <2> QED
    BY <2>1, <2>2, <2>3
<1>14. CASE ProcessRouter(g, o)
  <2>1. CASE heap' = h /\ stacks' = Skipped(g)
    BY <2>1, <1>10
  <2>2. CASE heap' = h2 /\ stacks' = Skipped(g)
    BY <2>2, <1>10
  <2>3. CASE \E r \in DOMAIN outs[o] :
               heap' = h2 /\ stacks' = Entered(g, Writing(o, <<p>>, r))
    <3>1. PICK x : x = <<p>>
      OBVIOUS
    <3>2. x \in {<<p>>, <<>>}
      BY <3>1
    <3>3. PICK r \in DOMAIN outs[o] : heap' = h2 /\ stacks' = Entered(g, Writing(o, x, r))
      BY <2>3, <3>1
    <3>4. r \in Routes
      BY <1>9, <3>3
    <3>5. Isolated(Entered(g, Writing(o, x, r)), batch, <<>>, h2)
      BY <1>1, <1>3, <1>4, <1>6, <3>2, <3>4, CallEntered
    <3> QED
      BY <3>3, <3>5, <1>1
  <2> QED
    BY <1>2, <1>5, <1>14, <2>1, <2>2, <2>3 DEF ProcessRouter
<1> QED
  BY <1>11, <1>12, <1>13, <1>14

\* The first or the last of a list is one of them.
LEMMA EndsOfSeq ==
  ASSUME NEW S, NEW s \in Seq(S), s # <<>>, NEW x \in {Head(s), Last(s)}
  PROVE  \E k \in 1..Len(s) : x = s[k]
<1>1. Len(s) \in Nat /\ Len(s) # 0
  BY LenProperties, EmptySeq
<1>2. 1 \in 1..Len(s) /\ Len(s) \in 1..Len(s)
  BY <1>1
<1>3. Head(s) = s[1] /\ Last(s) = s[Len(s)]
  BY HeadTailProperties DEF Last
<1> QED
  BY <1>2, <1>3

\* A recombine operator.
LEMMA RecombineIsolated ==
  ASSUME GoodGraph, Isolated(stacks, batch, <<>>, heap), NEW g \in Goroutines, NEW o,
         RecombineError(g, o) \/ RecombineAdd(g, o) \/ RecombineFlush(g, o)
  PROVE  Isolated(stacks', batch', <<>>, heap')
<1>1. Calls(g, o) /\ stacks[g] # <<>>
  BY DEF RecombineError, RecombineAdd, RecombineFlush, Calls
<1>2. PICK p, h : p = Argument(g).p /\ h = Argument(g).h
  OBVIOUS
<1>3. PICK s : s = PassedNext(stacks, g)
  OBVIOUS
<1>4. /\ o \in Positions /\ p \in Int \X Int /\ Heap(h) /\ Valid(h, p)
      /\ Isolated(s, batch, <<Argued(o, p)>>, h)
  BY <1>1, <1>2, <1>3, ArgumentGiven
<1>5. /\ stacks \in [Goroutines -> Seq(CallRecords)]
      /\ batch \in [Positions -> Seq(Int \X Int)]
  BY DEF Isolated, Typed
<1>6. s = Skipped(g)
  BY <1>1, <1>3, <1>5, StacksAfter
<1>7. 1 \in Routes
  BY DEF Routes
<1>8. PICK ps : ps = Append(batch[o], p)
  OBVIOUS
<1>9. PICK ba : ba = [batch EXCEPT ![o] = ps]
  OBVIOUS
<1>10. Isolated(s, ba, <<>>, h)
  BY <1>4, <1>8, <1>9, Kept
<1>11. CASE RecombineError(g, o)
  <2>1. PICK x : x = Written(o, "failed", p)
    OBVIOUS
  <2>2. /\ heap' = h /\ batch' = batch
        /\ stacks' = Entered(g, Writing(o, x, 1))
    BY <1>2, <1>11, <2>1 DEF RecombineError
  <2>3. x \in {<<p>>, <<>>}
    BY <2>1 DEF Written
  <2>4. Isolated(Entered(g, Writing(o, x, 1)), batch, <<>>, h)
    BY <1>1, <1>3, <1>4, <1>7, <2>3, CallEntered
  <2> QED
    BY <2>2, <2>4
<1>12. CASE RecombineAdd(g, o)
  <2>1. heap' = h /\ stacks' = Skipped(g) /\ batch' = ba
    BY <1>2, <1>8, <1>9, <1>12 DEF RecombineAdd
  <2> QED
    BY <2>1, <1>6, <1>10
<1>13. CASE RecombineFlush(g, o)
  <2>1. PICK last \in BOOLEAN :
          LET qs == IF last THEN ps ELSE batch[o] IN
          /\ qs # <<>>
          /\ \E base \in {Head(qs), Last(qs)} :
               /\ heap' = Combined(h, qs, base, o)
               /\ stacks' = Entered(g, Writing(o, <<base>>, 1))
          /\ batch' = [batch EXCEPT ![o] = IF last THEN <<>> ELSE <<p>>]
    BY <1>2, <1>8, <1>13 DEF RecombineFlush
  <2>2. PICK qs : qs = IF last THEN ps ELSE batch[o]
    OBVIOUS
  <2>3. qs # <<>> /\ batch' = [batch EXCEPT ![o] = IF last THEN <<>> ELSE <<p>>]
    BY <2>1, <2>2
  <2>4. PICK base \in {Head(qs), Last(qs)} :
          /\ heap' = Combined(h, qs, base, o)
          /\ stacks' = Entered(g, Writing(o, <<base>>, 1))
    BY <2>1, <2>2
  <2>5. PICK b : b = IF last THEN <<>> ELSE <<p>>
    OBVIOUS
  <2>6. PICK S : S = Int \X Int
    OBVIOUS
  <2>7. batch[o] \in Seq(S) /\ p \in S
    BY <1>4, <1>5, <2>6
  <2>8. /\ ps \in Seq(S) /\ Len(batch[o]) \in Nat /\ Len(ps) = Len(batch[o]) + 1
        /\ \A k \in 1..Len(batch[o]) : ps[k] = batch[o][k]
        /\ ps[Len(batch[o]) + 1] = p
    BY <2>7, <1>8, AppendProperties, LenProperties
  <2>9. qs \in Seq(S)
    BY <2>2, <2>7, <2>8
  <2>10. PICK k \in 1..Len(qs) : base = qs[k]
    BY <2>3, <2>4, <2>9, EndsOfSeq
  <2>11. ba[o] = ps /\ batch' = [ba EXCEPT ![o] = b]
    <3>1. batch' = [batch EXCEPT ![o] = b]
      BY <2>3, <2>5
    <3>2. [[batch EXCEPT ![o] = ps] EXCEPT ![o] = b] = [batch EXCEPT ![o] = b]
      OBVIOUS
    <3> QED
      BY <3>1, <3>2, <1>4, <1>5, <1>9
  <2>12. /\ k \in 1..Len(ba[o]) /\ base = ba[o][k]
         /\ b = <<>> \/ (b = <<ba[o][Len(ba[o])]>> /\ k # Len(ba[o]))
    <3>1. CASE last = TRUE
      <4>1. qs = ps /\ b = <<>>
        BY <3>1, <2>2, <2>5
      <4> QED
        BY <4>1, <2>10, <2>11
    <3>2. CASE last = FALSE
      <4>1. qs = batch[o] /\ b = <<p>>
        BY <3>2, <2>2, <2>5
      <4>2. k \in 1..Len(ps) /\ k # Len(ps) /\ base = ps[k] /\ ps[Len(ps)] = p
        BY <4>1, <2>8, <2>10
      <4> QED
        BY <4>1, <4>2, <2>11
    <3> QED
      BY <3>1, <3>2
  <2>13. base \in Int \X Int
    BY <2>6, <2>9, <2>10, ElementOfSeq
  <2>14. Isolated(s, [ba EXCEPT ![o] = b], <<Argued(o, ba[o][k])>>, h)
    BY <1>4, <1>10, <2>12, Flushed
  <2>15. Isolated(s, batch', <<Argued(o, base)>>, h)
    BY <2>11, <2>12, <2>14
  <2>16. PICK ba2 : ba2 = batch'
    OBVIOUS
  <2>17. Isolated(s, ba2, <<Argued(o, base)>>, h) /\ Valid(h, base)
    BY <1>4, <2>13, <2>15, <2>16, ArgumentValid
  <2>18. PICK h2 : h2 = Combined(h, qs, base, o)
    OBVIOUS
  <2>19. /\ Heap(h2)
         /\ \A q : Valid(h2, q) <=> Valid(h, q)
         /\ \A q : Valid(h, q) /\ q # base => By(h2, q) = By(h, q)
         /\ By(h2, base) = By(h, base) \cup {o}
    BY SMTT(30), <1>4, <2>17, <2>18, CombinedChanged
  <2>20. Isolated(s, ba2, <<Argued(o, base)>>, h2)
    BY <1>4, <2>13, <2>17, <2>19, ArgumentChanged
  <2>21. PICK x : x = <<base>>
    OBVIOUS
  <2>22. x \in {<<base>>, <<>>}
    BY <2>21
  <2>23. Isolated(Entered(g, Writing(o, x, 1)), ba2, <<>>, h2)
    BY <1>1, <1>3, <1>4, <1>7, <2>13, <2>20, <2>22, CallEntered
  <2> QED
    BY <2>4, <2>16, <2>18, <2>21, <2>23
<1> QED
  BY <1>11, <1>12, <1>13

\* The only call of a goroutine.
LEMMA FirstCall ==
  ASSUME NEW st \in [Goroutines -> Seq(CallRecords)], NEW g \in Goroutines, st[g] = <<>>,
         NEW w
  PROVE  [st EXCEPT ![g] = <<w>>] = [st EXCEPT ![g] = Append(st[g], w)]
<1>1. Append(<<>>, w) = <<w>>
  OBVIOUS
<1> QED
  BY <1>1

\* The time is up for a batch.
LEMMA TickIsolated ==
  ASSUME GoodGraph, Isolated(stacks, batch, <<>>, heap), NEW i \in Positions, Tick(i)
  PROVE  Isolated(stacks', batch', <<>>, heap')
<1>1. /\ stacks \in [Goroutines -> Seq(CallRecords)] /\ i \in Goroutines
      /\ batch \in [Positions -> Seq(Int \X Int)] /\ stacks[i] = <<>> /\ 1 \in Routes
  BY GoroutineNumbers DEF GoodGraph, Isolated, Typed, Tick, Routes
<1>2. PICK ps : ps = batch[i]
  OBVIOUS
<1>3. ps # <<>> /\ batch' = [batch EXCEPT ![i] = <<>>]
  BY <1>2 DEF Tick
<1>4. PICK base \in {Head(ps), Last(ps)} :
        /\ heap' = Combined(heap, ps, base, i)
        /\ stacks' = [stacks EXCEPT ![i] = <<Writing(i, <<base>>, 1)>>]
  BY <1>2 DEF Tick
<1>5. PICK S : S = Int \X Int
  OBVIOUS
<1>6. ps \in Seq(S)
  BY <1>1, <1>2, <1>5
<1>7. PICK k \in 1..Len(ps) : base = ps[k]
  BY <1>3, <1>4, <1>6, EndsOfSeq
<1>8. base \in Int \X Int
  BY <1>5, <1>6, <1>7, ElementOfSeq
<1>9. PICK b : b = <<>>
  OBVIOUS
<1>10. k \in 1..Len(batch[i]) /\ (b = <<>> \/ (b = <<batch[i][Len(batch[i])]>> /\ k # Len(batch[i])))
  BY <1>2, <1>7, <1>9
<1>11. Isolated(stacks, [batch EXCEPT ![i] = b], <<Argued(i, batch[i][k])>>, heap)
  BY <1>10, Flushed
<1>12. PICK ba2 : ba2 = batch'
  OBVIOUS
<1>13. Isolated(stacks, ba2, <<Argued(i, base)>>, heap)
  BY <1>2, <1>3, <1>7, <1>9, <1>11, <1>12
<1>14. Heap(heap) /\ Valid(heap, base)
  BY <1>8, <1>13, ArgumentValid
<1>15. PICK h, h2 : h = heap /\ h2 = Combined(h, ps, base, i)
  OBVIOUS
<1>16. /\ Heap(h2)
       /\ \A q : Valid(h2, q) <=> Valid(h, q)
       /\ \A q : Valid(h, q) /\ q # base => By(h2, q) = By(h, q)
       /\ By(h2, base) = By(h, base) \cup {i}
  <2>1. Heap(h) /\ Valid(h, base)
    BY <1>14, <1>15
  <2> QED
    BY <2>1, <1>15, CombinedChanged
<1>17. Isolated(stacks, ba2, <<Argued(i, base)>>, h)
  BY <1>13, <1>15
<1>18. Isolated(stacks, ba2, <<Argued(i, base)>>, h2)
  BY <1>8, <1>16, <1>17, ArgumentChanged
<1>19. PICK x, st : x = <<base>> /\ st = stacks
  OBVIOUS
<1>20. x \in {<<base>>, <<>>} /\ Isolated(st, ba2, <<Argued(i, base)>>, h2)
  BY <1>18, <1>19
<1>21. Isolated([st EXCEPT ![i] = Append(st[i], Writing(i, x, 1))], ba2, <<>>, h2)
  BY <1>1, <1>8, <1>20, ArgumentEntered
<1>22. PICK w : w = Writing(i, x, 1)
  OBVIOUS
<1>23. [st EXCEPT ![i] = <<w>>] = [st EXCEPT ![i] = Append(st[i], w)]
  BY <1>1, <1>19, FirstCall
<1> QED
  BY <1>4, <1>12, <1>15, <1>19, <1>21, <1>22, <1>23

\* An input makes an entry.
LEMMA NewEntryIsolated ==
  ASSUME GoodGraph, Isolated(stacks, batch, <<>>, heap), NEW i \in Positions, NewEntry(i)
  PROVE  Isolated(stacks', batch', <<>>, heap')
<1>1. /\ stacks \in [Goroutines -> Seq(CallRecords)] /\ i \in Goroutines /\ Heap(heap)
      /\ stacks[i] = <<>> /\ 1 \in Routes /\ batch' = batch
  BY GoroutineNumbers DEF GoodGraph, Isolated, Typed, NewEntry, Routes
<1>2. PICK h, st : h = heap /\ st = stacks
  OBVIOUS
<1>3. PICK p : p = <<Len(h) + 1, 1>>
  OBVIOUS
<1>4. PICK h2 : h2 = Append(h, <<[of |-> <<Len(h) + 1>>, by |-> <<>>]>>)
  OBVIOUS
<1>5. PICK result \in Results(i) \cup {"skipped"} :
        /\ heap' = AfterResult(h2, i, result, p)
        /\ stacks' = [st EXCEPT ![i] = <<Writing(i, Written(i, result, p), 1)>>]
  BY <1>2, <1>3, <1>4 DEF NewEntry
<1>6. /\ Heap(h2) /\ Valid(h2, p) /\ ~Valid(h, p)
      /\ \A q : Valid(h, q) => Valid(h2, q) /\ By(h2, q) = By(h, q)
      /\ By(h2, p) = {}
  BY ZenonT(30), <1>1, <1>2, <1>3, <1>4, Made
<1>7. Isolated(st, batch, <<>>, h)
  BY <1>2
<1>8. \A k \in By(h2, p) : Reaches(k, i) \/ OtherBranch(k, i)
  BY <1>6
<1>9. Isolated(st, batch, <<Argued(i, p)>>, h2)
  BY <1>6, <1>7, <1>8, EntryMade
<1>10. p \in Int \X Int /\ result \in Results(i)
  BY <1>5, <1>6 DEF Valid, Results
<1>11. PICK h3, x : h3 = AfterResult(h2, i, result, p) /\ x = Written(i, result, p)
  OBVIOUS
<1>12. Isolated(st, batch, <<Argued(i, p)>>, h3) /\ x \in {<<p>>, <<>>}
  BY <1>9, <1>10, <1>11, ResultIsolated
<1>13. Isolated([st EXCEPT ![i] = Append(st[i], Writing(i, x, 1))], batch, <<>>, h3)
  BY <1>1, <1>10, <1>12, ArgumentEntered
<1>14. PICK w : w = Writing(i, x, 1)
  OBVIOUS
<1>15. [st EXCEPT ![i] = <<w>>] = [st EXCEPT ![i] = Append(st[i], w)]
  BY <1>1, <1>2, FirstCall
<1> QED
  BY <1>1, <1>5, <1>11, <1>13, <1>14, <1>15

\* The first entry of a call has been written, and the call goes on or returns.
LEMMA ReturnIsolated ==
  ASSUME GoodGraph, Isolated(stacks, batch, <<>>, heap), NEW g \in Goroutines, Return(g)
  PROVE  Isolated(stacks', batch', <<>>, heap')
<1>1. stacks[g] # <<>> /\ batch' = batch /\ heap' = heap
  BY DEF Return
<1>2. PICK f : f = Last(stacks[g])
  OBVIOUS
<1>3. CASE Len(f.pending) > 1
  <2>1. stacks' = [stacks EXCEPT ![g] =
                     Append(Front(stacks[g]), Writing(f.op, Tail(f.pending), f.route))]
    BY <1>2, <1>3 DEF Return, Top
  <2> QED
    BY <2>1, <1>1, <1>2, <1>3, PendingNext
<1>4. CASE ~(Len(f.pending) > 1)
  <2>1. stacks' = [stacks EXCEPT ![g] = Front(stacks[g])]
    BY <1>2, <1>4 DEF Return, Top
  <2> QED
    BY <2>1, <1>1, Popped
<1> QED
  BY <1>3, <1>4

\* A recombine operator is stopped.
LEMMA StopIsolated ==
  ASSUME GoodGraph, Isolated(stacks, batch, <<>>, heap), NEW i \in Positions, StopRecombine(i)
  PROVE  Isolated(stacks', batch', <<>>, heap')
<1>1. /\ heap' = heap
      /\ stacks' = [stacks EXCEPT ![Main] = <<Writing(i, batch[i], 1)>>]
      /\ batch' = [batch EXCEPT ![i] = <<>>]
  BY DEF StopRecombine, flushUncombined
<1> QED
  BY <1>1, Unloaded

-----------------------------------------------------------------------------
(* The theorem on branches *)

\* Who holds what depends on the graph, which stays.
LEMMA GraphStays ==
  ASSUME UNCHANGED <<ops, outs>>
  PROVE  /\ Positions' = Positions /\ Goroutines' = Goroutines
         /\ \A i, j : (Reaches(i, j))' <=> Reaches(i, j)
         /\ \A i, j : (OtherBranch(i, j))' <=> OtherBranch(i, j)
         /\ \A f : (Done(f))' = Done(f) /\ (Passed(f))' = Passed(f)
         /\ CallRecords' = CallRecords /\ Holders' = Holders
<1>1. Positions' = Positions /\ Goroutines' = Goroutines
  BY DEF Positions, Goroutines, Main
<1>2. \A i, j : (Reaches(i, j))' <=> Reaches(i, j)
  BY <1>1 DEF Reaches
<1>3. \A i, j : (OtherBranch(i, j))' <=> OtherBranch(i, j)
  BY <1>1, <1>2 DEF OtherBranch, Is
<1>4. \A f : (Done(f))' = Done(f)
  BY DEF Done, OutputsOf
<1>5. \A f : (Passed(f))' = Passed(f)
  <2> SUFFICES ASSUME NEW CONSTANT f PROVE (Passed(f))' = Passed(f)
    OBVIOUS
  <2>1. (OutputsOf(f.op, f.route))' = OutputsOf(f.op, f.route)
    BY DEF OutputsOf
  <2> QED
    BY <1>1, <1>2, <1>4, <2>1 DEF Passed, Is
<1>6. Routes' = Routes
  BY <1>1 DEF Routes
<1>7. CallRecords' = CallRecords
  BY <1>1, <1>4, <1>6 DEF CallRecords, OutputsOf
<1>8. Holders' = Holders
  BY <1>1 DEF Holders
<1> QED
  BY <1>1, <1>2, <1>3, <1>4, <1>5, <1>7, <1>8

\* So what is so with the graph of before is so with that of after.
LEMMA Carried ==
  ASSUME UNCHANGED <<ops, outs>>, Isolated(stacks', batch', <<>>, heap')
  PROVE  (Isolated(stacks, batch, <<>>, heap))'
<1>1. /\ Positions' = Positions /\ Goroutines' = Goroutines
      /\ \A i, j : (Reaches(i, j))' <=> Reaches(i, j)
      /\ \A i, j : (OtherBranch(i, j))' <=> OtherBranch(i, j)
      /\ \A f : (Passed(f))' = Passed(f)
      /\ CallRecords' = CallRecords /\ Holders' = Holders
  BY GraphStays
<1>2. (Typed(stacks, batch, <<>>))'
  BY <1>1 DEF Isolated, Typed
<1>3. (Heap(heap))'
  BY <1>1 DEF Isolated, Heap
<1>4. (Places(stacks, batch, <<>>))' = Places(stacks', batch', <<>>)
  BY <1>1 DEF Places, IsPlace
<1>5. ASSUME NEW s PROVE (Holder(stacks, batch, <<>>, s))' = Holder(stacks', batch', <<>>, s)
  BY <1>1 DEF Holder, CallHolder
<1>6. ASSUME NEW v PROVE \A i : (MaySee(i, v))' <=> MaySee(i, v)
  BY <1>1 DEF MaySee
<1>7. ASSUME NEW v, NEW w PROVE (Apart(v, w))' <=> Apart(v, w)
  BY <1>1 DEF Apart
<1> QED
  BY <1>2, <1>3, <1>4, <1>5, <1>6, <1>7 DEF Isolated

\* The invariant: in a pipeline that was built branches are isolated; before,
\* there is no entry.
Guarded ==
  /\ Configured /\ Graph
  /\ stage = "configured" => heap = <<>>
  /\ Running => Isolated(stacks, batch, <<>>, heap)

\* A pipeline that was built holds nothing.
LEMMA BuildIsolated ==
  ASSUME Build, heap = <<>>, Running', Graph'
  PROVE  (Isolated(stacks, batch, <<>>, heap))'
<1>1. ops' = Built /\ Idle(Built) /\ heap' = <<>>
  BY DEF Build, Built
<1>2. Positions' = 1..Len(Built) /\ Goroutines' = {Main} \cup (1..Len(Built)) /\ Len(Built) \in Nat
  BY <1>1 DEF Positions, Goroutines, Main, Graph
<1>3. /\ stacks' = [g \in Goroutines' |-> <<>>] /\ batch' = [i \in Positions' |-> <<>>]
  BY <1>1, <1>2 DEF Idle, Main
<1>4. ASSUME NEW S PROVE <<>> \in Seq(S) /\ Len(<<>>) = 0 /\ \A k \in 1..0 : FALSE
  OBVIOUS
<1>5. (Typed(stacks, batch, <<>>))'
  <2>1. stacks' \in [Goroutines' -> Seq(CallRecords')]
    BY <1>3, <1>4
  <2>2. batch' \in [Positions' -> Seq(Int \X Int)]
    BY <1>3, EmptySeq
  <2> QED
    BY <2>1, <2>2, EmptySeq DEF Typed
<1>6. (Heap(heap))'
  <2>1. <<>> \in Seq(Seq({}))
    BY <1>4
  <2> QED
    BY <2>1, <1>1 DEF Heap
<1>7. (Places(stacks, batch, <<>>))' = {}
  BY <1>3, <1>4 DEF Places, IsPlace
<1> QED
  BY <1>5, <1>6, <1>7 DEF Isolated

\* Every step keeps it.
LEMMA GuardedNext ==
  ASSUME Guarded, [Next]_vars
  PROVE  Guarded'
<1>0. Configured' /\ Graph'
  BY ConfiguredNext, GraphNext DEF Guarded
<1>1. CASE Build
  BY <1>0, <1>1, BuildIsolated DEF Guarded, Build, Running
<1>2. CASE /\ UNCHANGED <<ops, outs, stacks, batch, heap>>
           /\ (Running' => Running) /\ stage' # "configured"
  <2> SUFFICES ASSUME Running' PROVE (Isolated(stacks, batch, <<>>, heap))'
    BY <1>0, <1>2 DEF Guarded
  <2>1. Isolated(stacks', batch', <<>>, heap')
    BY <1>2 DEF Guarded
  <2> QED
    BY <1>2, <2>1, Carried
<1>3. CASE UNCHANGED vars
  <2>1. UNCHANGED <<ops, outs, stacks, batch, heap, stage>>
    BY <1>3 DEF vars, buildVars, flowVars, loopVars
  <2>2. Running => (Isolated(stacks, batch, <<>>, heap))'
    BY <2>1, Carried DEF Guarded
  <2> QED
    BY <1>0, <2>1, <2>2 DEF Guarded, Running
<1>4. ASSUME UNCHANGED <<ops, outs>>, Running, stage' # "configured",
             GoodGraph => Isolated(stacks', batch', <<>>, heap')
      PROVE  Guarded'
  <2>1. GoodGraph
    BY <1>4 DEF Guarded, Graph, GoodGraph
  <2>2. (Isolated(stacks, batch, <<>>, heap))'
    BY <1>4, <2>1, Carried
  <2> QED
    BY <1>0, <1>4, <2>2 DEF Guarded
<1>5. CASE Start \/ StartOperator \/ StartError \/ Stop
  BY <1>2, <1>5 DEF Start, StartOperator, StartError, Stop, Running, buildVars, flowVars
<1>6. CASE Running /\ StopNext
  <2>1. PICK i \in Positions :
          \/ StopOperator(i) \/ StopBasic(i) \/ CancelInput(i) \/ WaitForInput(i)
          \/ StopUnstarted(i) \/ StopRecombine(i)
    BY <1>6 DEF StopNext
  <2>2. CASE StopRecombine(i)
    <3>1. GoodGraph => Isolated(stacks', batch', <<>>, heap')
      BY <1>6, <2>2, StopIsolated DEF Guarded
    <3>2. UNCHANGED <<ops, outs>> /\ stage' = stage
      BY <2>2 DEF StopRecombine, buildVars, loopVars
    <3>3. stage' # "configured"
      BY <3>2, <1>6 DEF Running
    <3> QED
      BY <1>4, <1>6, <3>1, <3>2, <3>3
  <2>3. CASE ~StopRecombine(i)
    BY <1>2, <1>6, <2>1, <2>3 DEF StopOperator, StopBasic, CancelInput, WaitForInput,
       StopUnstarted, Stopped, Running, buildVars, flowVars
  <2> QED
    BY <2>2, <2>3
<1>7. CASE Running /\ \E i \in Positions : NewEntry(i) \/ Tick(i)
  <2>1. PICK i \in Positions : NewEntry(i) \/ Tick(i)
    BY <1>7
  <2>2. GoodGraph => Isolated(stacks', batch', <<>>, heap')
    BY <1>7, <2>1, NewEntryIsolated, TickIsolated DEF Guarded
  <2>3. UNCHANGED <<ops, outs>> /\ stage' = stage
    BY <2>1 DEF NewEntry, Tick, buildVars, loopVars
  <2>4. stage' # "configured"
    BY <2>3, <1>7 DEF Running
  <2> QED
    BY <1>4, <1>7, <2>2, <2>3, <2>4
<1>8. CASE \E g \in DOMAIN stacks : Step(g)
  <2>1. PICK g \in DOMAIN stacks : Step(g)
    BY <1>8
  <2>2. Running /\ Isolated(stacks, batch, <<>>, heap)
    BY <2>1 DEF Step, Guarded
  <2>3. g \in Goroutines
    BY <2>1, <2>2 DEF Isolated, Typed
  <2>4. CASE Return(g)
    <3>1. GoodGraph => Isolated(stacks', batch', <<>>, heap')
      BY <2>2, <2>3, <2>4, ReturnIsolated
    <3>2. UNCHANGED <<ops, outs>> /\ stage' = stage
      BY <2>4 DEF Return, buildVars, loopVars
    <3>3. stage' # "configured"
      BY <3>2, <2>2 DEF Running
    <3> QED
      BY <1>4, <2>2, <3>1, <3>2, <3>3
  <2>5. CASE \E o \in Positions : Process(g, o)
    <3>1. PICK o \in Positions : Process(g, o)
      BY <2>5
    <3>2. GoodGraph => Isolated(stacks', batch', <<>>, heap')
      BY <2>2, <2>3, <3>1, ProcessIsolated, RecombineIsolated DEF Process
    <3>3. UNCHANGED <<ops, outs>> /\ stage' = stage
      BY <3>1 DEF Process, ProcessOutput, ProcessParser, ProcessFilter, ProcessRouter,
         RecombineError, RecombineAdd, RecombineFlush, buildVars, loopVars
    <3>4. stage' # "configured"
      BY <3>3, <2>2 DEF Running
    <3> QED
      BY <1>4, <2>2, <3>2, <3>3, <3>4
  <2> QED
    BY <2>1, <2>4, <2>5 DEF Step
<1> QED
  BY <1>1, <1>3, <1>5, <1>6, <1>7, <1>8 DEF Next

\* Isolated branches are what BranchesIsolated asks for.
LEMMA IsolatedBranches ==
  ASSUME Guarded
  PROVE  BranchesIsolated
<1> SUFFICES ASSUME Running PROVE BranchesIsolated
  BY DEF BranchesIsolated
<1>1. /\ GoodGraph /\ Wired /\ NoCycle /\ Len(ops) \in Nat
      /\ Isolated(stacks, batch, <<>>, heap)
      /\ stacks \in [Goroutines -> Seq(CallRecords)]
  BY DEF Guarded, Graph, GoodGraph, Isolated, Typed
<1>2. ASSUME NEW i, NEW j, OtherBranch(i, j) PROVE SameRoute(i, j)
  BY <1>2 DEF OtherBranch, SameRoute
<1>3. ASSUME NEW f \in Frames, f.todo # <<>>, NEW i \in Range(Entry(f.pending[1]).by)
      PROVE  Reaches(i, f.op) \/ SameRoute(i, f.op)
  <2>1. PICK g \in Goroutines : f \in Range(stacks[g])
    BY <1>1 DEF Frames
  <2>2. PICK d \in 1..Len(stacks[g]) : f = stacks[g][d]
    <3>1. stacks[g] \in Seq(CallRecords)
      BY <1>1
    <3>2. DOMAIN stacks[g] = 1..Len(stacks[g])
      BY <3>1, LenProperties
    <3> QED
      BY <2>1, <3>2 DEF Range
  <2>3. f \in CallRecords /\ d \in Int
    <3>1. stacks[g] \in Seq(CallRecords)
      BY <1>1
    <3> QED
      BY <2>2, <3>1, ElementOfSeq, LenProperties
  <2>4. 1 \in 1..Len(f.pending)
    <3>1. f.pending \in Seq(Int \X Int) /\ f.pending # <<>>
      BY <1>3, <2>3 DEF CallRecords
    <3> QED
      BY <3>1, LenProperties, EmptySeq
  <2>5. PICK s : s = <<g, d, 1>>
    OBVIOUS
  <2>6. /\ s[1] = g /\ s[2] = d /\ s[3] = 1 /\ s \in Int \X Int \X Int
        /\ g # -1 /\ g # -2
    BY <1>1, <2>3, <2>5, GoroutineNumbers
  <2>7. s \in Places(stacks, batch, <<>>)
    BY <1>3, <2>2, <2>4, <2>6 DEF Places, IsPlace
  <2>8. Holder(stacks, batch, <<>>, s) = CallHolder(f, 1)
    BY <2>2, <2>6 DEF Holder
  <2>9. /\ CallHolder(f, 1).op = f.op /\ CallHolder(f, 1).p = f.pending[1]
        /\ CallHolder(f, 1).passed = Passed(f)
    BY DEF CallHolder
  <2>10. i \in By(heap, f.pending[1])
    BY DEF By, Entry
  <2>11. Reaches(i, f.op) \/ OtherBranch(i, f.op) \/ i \in Passed(f)
    BY <1>1, <2>7, <2>8, <2>9, <2>10 DEF Isolated, MaySee
  <2>12. CASE i \in Passed(f)
    <3>1. Is(f.op, {"router"})
      BY <2>12 DEF Passed
    <3>2. PICK l : l = OutputsOf(f.op, f.route)
      OBVIOUS
    <3>3. PICK a \in 1..Done(f) : Reaches(l[a], i)
      BY <2>12, <3>1, <3>2 DEF Passed
    <3>4. f.op \in Positions /\ f.todo \in Seq(Positions) /\ Done(f) \in Nat
      BY <2>3 DEF CallRecords
    <3>5. Len(f.todo) \in Nat /\ Len(f.todo) >= 1
      BY <1>3, <3>4, LenProperties, EmptySeq
    <3>6. l \in Seq(Positions) /\ Len(l) \in Nat
      BY <1>1, <3>2, <3>4, OutputsOfRoute, LenProperties
    <3>7. Done(f) = Len(l) - Len(f.todo)
      BY <3>2 DEF Done
    <3>8. a \in 1..Len(l) /\ Done(f) + 1 \in 1..Len(l) /\ a # Done(f) + 1
      BY <3>3, <3>4, <3>5, <3>6, <3>7
    <3>9. /\ f.route \in DOMAIN outs[f.op] /\ l = outs[f.op][f.route]
          /\ a \in DOMAIN outs[f.op][f.route]
          /\ Done(f) + 1 \in DOMAIN outs[f.op][f.route]
      BY <1>1, <3>2, <3>4, <3>8, OutputsOfRoute
    <3> QED
      BY <3>1, <3>3, <3>4, <3>8, <3>9 DEF SameRoute
  <2> QED
    BY <2>11, <2>12, <1>2
<1>4. ASSUME NEW j \in Positions, NEW k \in 1..Len(batch[j]),
             NEW i \in Range(Entry(batch[j][k]).by)
      PROVE  Reaches(i, j) \/ SameRoute(i, j)
  <2>1. PICK b : b = batch[j]
    OBVIOUS
  <2>2. Len(b) \in Nat /\ k \in 1..Len(b) /\ k \in Int
    <3>1. batch[j] \in Seq(Int \X Int)
      BY <1>1 DEF Isolated, Typed
    <3> QED
      BY <2>1, <3>1, LenProperties
  <2>3. PICK s : s = <<-1, j, k>>
    OBVIOUS
  <2>4. s[1] = -1 /\ s[2] = j /\ s[3] = k /\ s \in Int \X Int \X Int
    BY <1>1, <2>2, <2>3, GoroutineNumbers
  <2>5. s \in Places(stacks, batch, <<>>)
    BY <2>1, <2>2, <2>4 DEF Places, IsPlace
  <2>6. Holder(stacks, batch, <<>>, s) = [op |-> j, p |-> b[k], passed |-> {}]
    BY <2>1, <2>4 DEF Holder
  <2>7. i \in By(heap, b[k])
    BY <2>1 DEF By, Entry
  <2>8. Reaches(i, j) \/ OtherBranch(i, j)
    <3>1. PICK v : v = Holder(stacks, batch, <<>>, s)
      OBVIOUS
    <3>2. v.op = j /\ v.p = b[k] /\ v.passed = {}
      BY <2>6, <3>1
    <3>3. \A x \in By(heap, v.p) : MaySee(x, v)
      BY <1>1, <2>5, <3>1 DEF Isolated
    <3> QED
      BY <2>7, <3>2, <3>3 DEF MaySee
  <2> QED
    BY <2>8, <1>2
<1> QED
  BY <1>3, <1>4 DEF BranchesIsolated

\* The branches of a pipeline do not see each other's changes: what was done to
\* an entry that an operator writes or keeps was done upstream of it, or behind
\* another output of the same route of a router, whatever the graph.
THEOREM BranchesIsolatedCorrect == Spec => []BranchesIsolated
<1>1. Init => Guarded
  <2> SUFFICES ASSUME Init PROVE Guarded
    OBVIOUS
  <2>1. stage = "configured" /\ heap = <<>> /\ given \in Configs
    BY DEF Init
  <2> QED
    BY <2>1 DEF Guarded, Configured, Graph, Running
<1>2. Guarded /\ [Next]_vars => Guarded'
  BY GuardedNext
<1>3. Guarded => BranchesIsolated
  BY IsolatedBranches
<1> QED
  BY <1>1, <1>2, <1>3, PTL DEF Spec

=============================================================================
