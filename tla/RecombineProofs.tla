-------------------------- MODULE RecombineProofs --------------------------
(***************************************************************************)
(* What is proved of Recombine for every number of sources and entries,    *)
(* every limit and every configuration: no text of an accepted entry is    *)
(* lost, repeated or overtaken, records are not mixed, and batches stay    *)
(* within the limits.                                                      *)
(***************************************************************************)
EXTENDS Recombine, SequenceTheorems, FiniteSetTheorems, TLAPS

-----------------------------------------------------------------------------
(* Places.  The operators on one source: out is what was written for it,     *)
(* batch its batch.                                                          *)

Written == [from : Seq(Nat), text : SUBSET Nat, base : Nat]

\* A written entry with the text of every entry in texts that it was made from.
Keeps(w, texts) ==
  /\ w.text \subseteq 1..Len(w.from)
  /\ \A i \in 1..Len(w.from) : w.from[i] \in texts => i \in w.text

\* The place with number g and index i exists.
Place(out, batch, g, i) ==
  g \in 1..(Len(out) + 1) /\ i \in 1..Len(Group(out, batch, g))

\* Orderly, with the numbers of a place for the place, and with the entries whose
\* text was left out in their places among the others.
OrderlyAt(out, batch, own, accepted) ==
  /\ \A e \in accepted : \E g, i :
       Place(out, batch, g, i) /\ Group(out, batch, g)[i] = e
  /\ \A g, i, h, j :
       /\ Place(out, batch, g, i) /\ Place(out, batch, h, j)
       /\ g < h \/ (g = h /\ i < j)
       /\ Group(out, batch, g)[i] \in accepted /\ Group(out, batch, h)[j] \in accepted
       => Group(out, batch, g)[i] < Group(out, batch, h)[j]
  /\ \A g, i : Place(out, batch, g, i) => Group(out, batch, g)[i] \in own

\* When the entries whose text was left out are taken away, the others stay in
\* order.
LEMMA OrderlyTexts ==
  ASSUME NEW out \in Seq(Written), NEW batch \in Seq(Nat), NEW own, NEW accepted,
         \A g \in 1..Len(out) : out[g].text \subseteq 1..Len(out[g].from),
         OrderlyAt(out, batch, own, accepted)
  PROVE  Orderly(out, batch, own, accepted \ Dropped(out))
<1>0. Len(out) \in Nat /\ Len(batch) \in Nat
  OBVIOUS
<1>1. ASSUME NEW p \in Places(out, batch)
      PROVE  \E g, i : /\ p = <<g, i>> /\ Place(out, batch, g, i)
                       /\ At(out, batch, p) = Group(out, batch, g)[i]
  <2>1. PICK g \in 1..(Len(out) + 1) : \E i \in Indices(out, batch, g) : p = <<g, i>>
    BY DEF Places
  <2>2. PICK i \in Indices(out, batch, g) : p = <<g, i>>
    BY <2>1
  <2>3. i \in 1..Len(Group(out, batch, g))
    BY <1>0, <2>1, <2>2 DEF Indices, Group
  <2>4. At(out, batch, p) = Group(out, batch, g)[i]
    BY <2>2 DEF At
  <2> QED
    BY <2>1, <2>2, <2>3, <2>4 DEF Place
<1>2. ASSUME NEW g, NEW i, Place(out, batch, g, i),
             Group(out, batch, g)[i] \notin Dropped(out)
      PROVE  <<g, i>> \in Places(out, batch)
  <2>1. i \in Indices(out, batch, g)
    <3>1. CASE g <= Len(out)
      <4>1. g \in 1..Len(out) /\ Group(out, batch, g) = out[g].from
        BY <1>0, <1>2, <3>1 DEF Place, Group
      <4>2. out[g] \in Range(out) /\ out[g].from \in Seq(Nat)
        <5>1. g \in DOMAIN out /\ out[g] \in Written
          BY <1>0, <4>1
        <5>2. out[g] \in Range(out)
          BY <5>1, Zenon DEF Range
        <5>3. out[g].from \in Seq(Nat)
          BY <5>1 DEF Written
        <5> QED
          BY <5>2, <5>3
      <4>3. i \in DOMAIN out[g].from
        BY <1>2, <4>1, <4>2 DEF Place
      <4>4. i \notin out[g].text => out[g].from[i] \in Dropped(out)
        BY <4>2, <4>3 DEF Dropped
      <4> QED
        BY <1>2, <3>1, <4>1, <4>4 DEF Indices
    <3>2. CASE ~(g <= Len(out))
      BY <1>2, <3>2 DEF Place, Group, Indices
    <3> QED
      BY <3>1, <3>2
  <2> QED
    BY <1>2, <2>1 DEF Place, Places
<1>3. ASSUME NEW e \in accepted \ Dropped(out)
      PROVE  \E p \in Places(out, batch) : At(out, batch, p) = e
  <2>1. PICK g, i : Place(out, batch, g, i) /\ Group(out, batch, g)[i] = e
    BY DEF OrderlyAt
  <2>2. <<g, i>> \in Places(out, batch)
    BY <1>2, <2>1
  <2>3. At(out, batch, <<g, i>>) = e
    BY <2>1 DEF At
  <2> QED
    BY <2>2, <2>3
<1>4. ASSUME NEW p \in Places(out, batch), NEW q \in Places(out, batch), Before(p, q),
             At(out, batch, p) \in accepted, At(out, batch, q) \in accepted
      PROVE  At(out, batch, p) < At(out, batch, q)
  <2>1. PICK g, i : /\ p = <<g, i>> /\ Place(out, batch, g, i)
                    /\ At(out, batch, p) = Group(out, batch, g)[i]
    BY <1>1
  <2>2. PICK h, j : /\ q = <<h, j>> /\ Place(out, batch, h, j)
                    /\ At(out, batch, q) = Group(out, batch, h)[j]
    BY <1>1
  <2>3. g < h \/ (g = h /\ i < j)
    <3>1. <<g, i>>[1] = g /\ <<g, i>>[2] = i /\ <<h, j>>[1] = h /\ <<h, j>>[2] = j
      OBVIOUS
    <3> QED
      BY <1>4, <2>1, <2>2, <3>1 DEF Before
  <2>4. Group(out, batch, g)[i] \in accepted /\ Group(out, batch, h)[j] \in accepted
    BY <1>4, <2>1, <2>2
  <2>5. Group(out, batch, g)[i] < Group(out, batch, h)[j]
    BY <2>1, <2>2, <2>3, <2>4 DEF OrderlyAt
  <2> QED
    BY <2>1, <2>2, <2>5
<1>5. ASSUME NEW p \in Places(out, batch) PROVE At(out, batch, p) \in own
  BY <1>1 DEF OrderlyAt
<1> QED
  BY <1>3, <1>4, <1>5 DEF Orderly

\* The batch is written as one: its entries stay where they are.
LEMMA FlushOrderly ==
  ASSUME NEW out \in Seq(Written), NEW batch \in Seq(Nat), NEW own, NEW accepted,
         OrderlyAt(out, batch, own, accepted), NEW w \in Written, w.from = batch
  PROVE  OrderlyAt(Append(out, w), <<>>, own, accepted)
<1> DEFINE o == Append(out, w)
<1>1. /\ Len(o) = Len(out) + 1 /\ Len(out) \in Nat
      /\ \A g \in 1..Len(out) : o[g] = out[g]
      /\ o[Len(out) + 1] = w
  BY AppendProperties
<1> HIDE DEF o
<1>2. ASSUME NEW g \in 1..(Len(out) + 1)
      PROVE  Group(o, <<>>, g) = Group(out, batch, g)
  BY <1>1 DEF Group
<1>3. Group(o, <<>>, Len(out) + 2) = <<>>
  BY <1>1 DEF Group
<1>4. ASSUME NEW g, NEW i
      PROVE  Place(o, <<>>, g, i) <=> Place(out, batch, g, i)
  <2>1. g \in 1..(Len(o) + 1) <=> g \in 1..(Len(out) + 1) \/ g = Len(out) + 2
    BY <1>1
  <2>2. CASE g = Len(out) + 2
    BY <1>1, <1>3, <2>2 DEF Place
  <2>3. CASE g # Len(out) + 2
    BY <1>2, <2>1, <2>3 DEF Place
  <2> QED
    BY <2>2, <2>3
<1>5. ASSUME NEW g, NEW i, Place(out, batch, g, i)
      PROVE  Group(o, <<>>, g)[i] = Group(out, batch, g)[i]
  BY <1>2, <1>5 DEF Place
<1>6. \A e \in accepted : \E g, i : Place(o, <<>>, g, i) /\ Group(o, <<>>, g)[i] = e
  BY <1>4, <1>5 DEF OrderlyAt
<1>7. ASSUME NEW g, NEW i, NEW h, NEW j, Place(o, <<>>, g, i), Place(o, <<>>, h, j),
             g < h \/ (g = h /\ i < j),
             Group(o, <<>>, g)[i] \in accepted, Group(o, <<>>, h)[j] \in accepted
      PROVE  Group(o, <<>>, g)[i] < Group(o, <<>>, h)[j]
  <2>1. /\ Place(out, batch, g, i) /\ Place(out, batch, h, j)
        /\ Group(o, <<>>, g)[i] = Group(out, batch, g)[i]
        /\ Group(o, <<>>, h)[j] = Group(out, batch, h)[j]
    BY <1>4, <1>5, <1>7
  <2> QED
    BY <1>7, <2>1 DEF OrderlyAt
<1>8. \A g, i : Place(o, <<>>, g, i) => Group(o, <<>>, g)[i] \in own
  BY <1>4, <1>5 DEF OrderlyAt
<1>9. OrderlyAt(o, <<>>, own, accepted)
  BY <1>6, <1>7, <1>8 DEF OrderlyAt
<1> QED
  BY <1>9 DEF o

\* An entry that came after all others is added to the batch.
LEMMA AddOrderly ==
  ASSUME NEW out \in Seq(Written), NEW batch \in Seq(Nat), NEW own \in SUBSET Nat,
         NEW accepted, OrderlyAt(out, batch, own, accepted),
         NEW e \in Nat, \A x \in own : x < e
  PROVE  OrderlyAt(out, Append(batch, e), own \cup {e}, accepted \cup {e})
<1> DEFINE b == Append(batch, e)
           n == Len(out) + 1
           m == Len(batch) + 1
<1>1. /\ Len(b) = m /\ Len(out) \in Nat /\ Len(batch) \in Nat
      /\ \A i \in 1..Len(batch) : b[i] = batch[i]
      /\ b[m] = e
  BY AppendProperties
<1>2. n = Len(out) + 1 /\ m = Len(batch) + 1
  OBVIOUS
<1> HIDE DEF b, n, m
<1>3. /\ Group(out, b, n) = b /\ Group(out, batch, n) = batch
      /\ \A g \in 1..Len(out) : Group(out, b, g) = Group(out, batch, g)
  BY <1>1, <1>2 DEF Group
<1>4. ASSUME NEW g, NEW i, Place(out, b, g, i)
      PROVE  \/ g = n /\ i = m /\ Group(out, b, g)[i] = e
             \/ /\ Place(out, batch, g, i) /\ ~(g = n /\ i = m)
                /\ Group(out, b, g)[i] = Group(out, batch, g)[i]
                /\ Group(out, batch, g)[i] \in own
  <2>1. g \in 1..Len(out) \/ g = n
    BY <1>1, <1>2, <1>4 DEF Place
  <2>2. CASE g \in 1..Len(out)
    <3>1. Place(out, batch, g, i) /\ g # n /\ Group(out, b, g)[i] = Group(out, batch, g)[i]
      BY <1>1, <1>2, <1>3, <1>4, <2>2 DEF Place
    <3> QED
      BY <3>1 DEF OrderlyAt
  <2>3. CASE g = n /\ i = m
    BY <1>1, <1>3, <2>3
  <2>4. CASE g = n /\ i # m
    <3>1. i \in 1..m
      BY <1>1, <1>3, <1>4, <2>4 DEF Place
    <3>2. i \in 1..Len(batch)
      BY <1>1, <1>2, <2>4, <3>1
    <3>3. Place(out, batch, g, i) /\ Group(out, b, g)[i] = Group(out, batch, g)[i]
      BY <1>1, <1>2, <1>3, <2>4, <3>2 DEF Place
    <3> QED
      BY <2>4, <3>3 DEF OrderlyAt
  <2> QED
    BY <2>1, <2>2, <2>3, <2>4
<1>5. ASSUME NEW g, NEW i, Place(out, batch, g, i)
      PROVE  Place(out, b, g, i) /\ Group(out, b, g)[i] = Group(out, batch, g)[i]
  <2>1. g \in 1..Len(out) \/ g = n
    BY <1>1, <1>2, <1>5 DEF Place
  <2>2. CASE g \in 1..Len(out)
    BY <1>1, <1>3, <1>5, <2>2 DEF Place
  <2>3. CASE g = n
    <3>1. i \in 1..Len(batch)
      BY <1>3, <1>5, <2>3 DEF Place
    <3> QED
      BY <1>1, <1>2, <1>3, <2>3, <3>1 DEF Place
  <2> QED
    BY <2>1, <2>2, <2>3
<1>6. Place(out, b, n, m) /\ Group(out, b, n)[m] = e
  BY <1>1, <1>2, <1>3 DEF Place
<1>7. ASSUME NEW x \in accepted \cup {e}
      PROVE  \E g, i : Place(out, b, g, i) /\ Group(out, b, g)[i] = x
  <2>1. CASE x = e
    BY <1>6, <2>1
  <2>2. CASE x \in accepted
    <3>1. PICK g, i : Place(out, batch, g, i) /\ Group(out, batch, g)[i] = x
      BY <2>2 DEF OrderlyAt
    <3> QED
      BY <1>5, <3>1
  <2> QED
    BY <2>1, <2>2
<1>8. ASSUME NEW g, NEW i, NEW h, NEW j, Place(out, b, g, i), Place(out, b, h, j),
             g < h \/ (g = h /\ i < j),
             Group(out, b, g)[i] \in accepted \cup {e},
             Group(out, b, h)[j] \in accepted \cup {e}
      PROVE  Group(out, b, g)[i] < Group(out, b, h)[j]
  <2>1. CASE g = n /\ i = m
    <3>1. h \in 1..n /\ (h = n => j \in 1..m) /\ n \in Nat /\ m \in Nat
      BY <1>1, <1>2, <1>3, <1>8 DEF Place
    <3> QED
      BY <1>8, <2>1, <3>1
  <2>2. CASE h = n /\ j = m /\ ~(g = n /\ i = m)
    <3>1. Group(out, b, h)[j] = e /\ Group(out, b, g)[i] \in own
      BY <1>4, <1>6, <1>8, <2>2
    <3> QED
      BY <3>1
  <2>3. CASE ~(g = n /\ i = m) /\ ~(h = n /\ j = m)
    <3>1. /\ Place(out, batch, g, i) /\ Group(out, b, g)[i] = Group(out, batch, g)[i]
          /\ Group(out, batch, g)[i] \in own
      BY <1>4, <1>8, <2>3
    <3>2. /\ Place(out, batch, h, j) /\ Group(out, b, h)[j] = Group(out, batch, h)[j]
          /\ Group(out, batch, h)[j] \in own
      BY <1>4, <1>8, <2>3
    <3>3. e \notin own
      OBVIOUS
    <3>4. Group(out, batch, g)[i] \in accepted /\ Group(out, batch, h)[j] \in accepted
      BY <1>8, <3>1, <3>2, <3>3
    <3>5. Group(out, batch, g)[i] < Group(out, batch, h)[j]
      BY <1>8, <3>1, <3>2, <3>4 DEF OrderlyAt
    <3> QED
      BY <3>1, <3>2, <3>5
  <2> QED
    BY <2>1, <2>2, <2>3
<1>9. \A g, i : Place(out, b, g, i) => Group(out, b, g)[i] \in own \cup {e}
  BY <1>4
<1>10. OrderlyAt(out, b, own \cup {e}, accepted \cup {e})
  BY <1>7, <1>8, <1>9 DEF OrderlyAt
<1> QED
  BY <1>10 DEF b

\* An entry that is not accepted is written on its own, before the batch.
LEMMA ErrorOrderly ==
  ASSUME NEW out \in Seq(Written), NEW batch \in Seq(Nat), NEW own, NEW accepted,
         OrderlyAt(out, batch, own, accepted), NEW e \in Nat, e \notin accepted
  PROVE  OrderlyAt(Append(out, Single(e)), batch, own \cup {e}, accepted)
<1> DEFINE o == Append(out, Single(e))
           n == Len(out) + 1
           up(g) == IF g <= Len(out) THEN g ELSE g + 1
<1>0. Single(e) \in Written /\ Single(e).from = <<e>>
  BY DEF Single, Written
<1>1. /\ Len(o) = n /\ Len(out) \in Nat
      /\ \A g \in 1..Len(out) : o[g] = out[g]
      /\ o[n] = Single(e)
  BY <1>0, AppendProperties
<1>2. n = Len(out) + 1
  OBVIOUS
<1> HIDE DEF o, n
<1>3. /\ Group(o, batch, n) = <<e>> /\ Group(o, batch, n + 1) = batch
      /\ Group(out, batch, n) = batch
      /\ \A g \in 1..Len(out) : Group(o, batch, g) = Group(out, batch, g)
  BY <1>0, <1>1, <1>2 DEF Group
\* A place is the new one, or the place of something that was there.
<1>4. ASSUME NEW g, NEW i, Place(o, batch, g, i)
      PROVE  \/ g = n /\ i = 1 /\ Group(o, batch, g)[i] = e
             \/ \E h : /\ Place(out, batch, h, i) /\ g = up(h) /\ h \in 1..n
                       /\ Group(o, batch, g)[i] = Group(out, batch, h)[i]
  <2>1. g \in 1..Len(out) \/ g = n \/ g = n + 1
    BY <1>1, <1>2, <1>4 DEF Place
  <2>2. CASE g \in 1..Len(out)
    <3>1. up(g) = g /\ g \in 1..n /\ g \in 1..(Len(out) + 1)
      BY <1>1, <1>2, <2>2
    <3>2. Place(out, batch, g, i) /\ Group(o, batch, g)[i] = Group(out, batch, g)[i]
      BY <1>3, <1>4, <2>2, <3>1 DEF Place
    <3> QED
      BY <3>1, <3>2
  <2>3. CASE g = n
    <3>1. i \in 1..Len(<<e>>) /\ Len(<<e>>) = 1 /\ <<e>>[1] = e
      BY <1>3, <1>4, <2>3 DEF Place
    <3>2. i = 1
      BY <3>1
    <3> QED
      BY <1>3, <2>3, <3>1, <3>2
  <2>4. CASE g = n + 1
    <3>1. i \in 1..Len(batch) /\ Group(o, batch, g)[i] = batch[i]
      BY <1>3, <1>4, <2>4 DEF Place
    <3>2. Place(out, batch, n, i) /\ up(n) = g /\ n \in 1..n
      BY <1>1, <1>2, <1>3, <2>4, <3>1 DEF Place
    <3> QED
      BY <1>3, <3>1, <3>2
  <2> QED
    BY <2>1, <2>2, <2>3, <2>4
<1>5. ASSUME NEW g, NEW i, Place(out, batch, g, i)
      PROVE  Place(o, batch, up(g), i) /\ Group(o, batch, up(g))[i] = Group(out, batch, g)[i]
  <2>1. g \in 1..Len(out) \/ g = n
    BY <1>1, <1>2, <1>5 DEF Place
  <2>2. CASE g \in 1..Len(out)
    BY <1>1, <1>2, <1>3, <1>5, <2>2 DEF Place
  <2>3. CASE g = n
    <3>1. up(g) = n + 1 /\ i \in 1..Len(batch)
      BY <1>1, <1>2, <1>3, <1>5, <2>3 DEF Place
    <3> QED
      BY <1>1, <1>2, <1>3, <2>3, <3>1 DEF Place
  <2> QED
    BY <2>1, <2>2, <2>3
<1>6. \A g, h \in 1..n : up(g) < up(h) => g < h
  BY <1>1, <1>2
<1>6a. \A g, h \in 1..n : up(g) = up(h) => g = h
  BY <1>1, <1>2
<1> HIDE DEF up
<1>7. ASSUME NEW x \in accepted
      PROVE  \E g, i : Place(o, batch, g, i) /\ Group(o, batch, g)[i] = x
  <2>1. PICK g, i : Place(out, batch, g, i) /\ Group(out, batch, g)[i] = x
    BY DEF OrderlyAt
  <2> QED
    BY <1>5, <2>1
<1>8. ASSUME NEW g, NEW i, NEW h, NEW j, Place(o, batch, g, i), Place(o, batch, h, j),
             g < h \/ (g = h /\ i < j),
             Group(o, batch, g)[i] \in accepted,
             Group(o, batch, h)[j] \in accepted
      PROVE  Group(o, batch, g)[i] < Group(o, batch, h)[j]
  <2>1. PICK a \in 1..n : /\ Place(out, batch, a, i) /\ g = up(a)
                          /\ Group(o, batch, g)[i] = Group(out, batch, a)[i]
    BY <1>4, <1>8
  <2>2. PICK c \in 1..n : /\ Place(out, batch, c, j) /\ h = up(c)
                          /\ Group(o, batch, h)[j] = Group(out, batch, c)[j]
    BY <1>4, <1>8
  <2>3. a < c \/ (a = c /\ i < j)
    BY <1>6, <1>6a, <1>8, <2>1, <2>2
  <2>4. Group(out, batch, a)[i] < Group(out, batch, c)[j]
    BY <1>8, <2>1, <2>2, <2>3 DEF OrderlyAt
  <2> QED
    BY <2>1, <2>2, <2>4
<1>9. ASSUME NEW g, NEW i, Place(o, batch, g, i)
      PROVE  Group(o, batch, g)[i] \in own \cup {e}
  BY <1>4, <1>9 DEF OrderlyAt
<1>10. OrderlyAt(o, batch, own \cup {e}, accepted)
  BY <1>7, <1>8, <1>9 DEF OrderlyAt
<1> QED
  BY <1>10 DEF o

\* The entries of a batch, each on its own.
Singles(batch) == [i \in 1..Len(batch) |-> Single(batch[i])]

\* Every entry of the batch is written on its own.
LEMMA UncombinedOrderly ==
  ASSUME NEW out \in Seq(Written), NEW batch \in Seq(Nat), NEW own, NEW accepted,
         OrderlyAt(out, batch, own, accepted)
  PROVE  /\ out \o Singles(batch) \in Seq(Written)
         /\ OrderlyAt(out \o Singles(batch), <<>>, own, accepted)
<1> DEFINE o == out \o Singles(batch)
           n == Len(out) + 1
<1>0. /\ Singles(batch) \in Seq(Written) /\ Len(Singles(batch)) = Len(batch)
      /\ \A i \in 1..Len(batch) : Singles(batch)[i].from = <<batch[i]>>
  <2>1. ASSUME NEW i \in 1..Len(batch)
        PROVE  Single(batch[i]) \in Written /\ Single(batch[i]).from = <<batch[i]>>
    BY DEF Single, Written
  <2>2. Singles(batch) \in [1..Len(batch) -> Written] /\ Len(batch) \in Nat
    BY <2>1 DEF Singles
  <2>3. \A i \in 1..Len(batch) : Singles(batch)[i] = Single(batch[i])
    BY DEF Singles
  <2>4. Singles(batch) \in Seq(Written) /\ Len(Singles(batch)) = Len(batch)
    BY <2>2, SMTT(30)
  <2> QED
    BY <2>1, <2>3, <2>4
<1>1. /\ o \in Seq(Written) /\ Len(o) = Len(out) + Len(batch)
      /\ Len(out) \in Nat /\ Len(batch) \in Nat
      /\ \A g \in 1..Len(out) : o[g] = out[g]
      /\ \A i \in 1..Len(batch) : o[Len(out) + i] = Singles(batch)[i]
  <2>1. out \in Seq(Written) /\ Singles(batch) \in Seq(Written)
    BY <1>0
  <2>2. /\ out \o Singles(batch) \in Seq(Written)
        /\ Len(out \o Singles(batch)) = Len(out) + Len(Singles(batch))
        /\ \A g \in 1..(Len(out) + Len(Singles(batch))) :
             (out \o Singles(batch))[g]
               = IF g <= Len(out) THEN out[g] ELSE Singles(batch)[g - Len(out)]
    BY <2>1, ConcatProperties
  <2>3. Len(out) \in Nat /\ Len(batch) \in Nat
    OBVIOUS
  <2>4. ASSUME NEW g \in 1..Len(out) PROVE o[g] = out[g]
    BY <1>0, <2>2, <2>3
  <2>5. ASSUME NEW i \in 1..Len(batch) PROVE o[Len(out) + i] = Singles(batch)[i]
    <3>1. /\ Len(out) + i \in 1..(Len(out) + Len(Singles(batch)))
          /\ ~(Len(out) + i <= Len(out)) /\ (Len(out) + i) - Len(out) = i
      BY <1>0, <2>3
    <3> QED
      BY <2>2, <3>1
  <2> QED
    BY <1>0, <2>2, <2>3, <2>4, <2>5
<1>2. n = Len(out) + 1
  OBVIOUS
<1> HIDE DEF o, n, Singles
<1>3. /\ Group(out, batch, n) = batch
      /\ Group(o, <<>>, Len(o) + 1) = <<>>
      /\ \A g \in 1..Len(out) : Group(o, <<>>, g) = Group(out, batch, g)
      /\ \A i \in 1..Len(batch) : Group(o, <<>>, Len(out) + i) = <<batch[i]>>
  <2>1. ASSUME NEW i \in 1..Len(batch) PROVE Group(o, <<>>, Len(out) + i) = <<batch[i]>>
    <3>1. Len(out) + i <= Len(o)
      BY <1>1
    <3> QED
      BY <1>0, <1>1, <3>1 DEF Group
  <2>2. Group(out, batch, n) = batch /\ Group(o, <<>>, Len(o) + 1) = <<>>
    BY <1>1, <1>2 DEF Group
  <2>3. ASSUME NEW g \in 1..Len(out) PROVE Group(o, <<>>, g) = Group(out, batch, g)
    BY <1>1 DEF Group
  <2> QED
    BY <2>1, <2>2, <2>3
<1>4. ASSUME NEW g, NEW i, Place(o, <<>>, g, i)
      PROVE  \/ /\ g \in 1..Len(out) /\ Place(out, batch, g, i)
                /\ Group(o, <<>>, g)[i] = Group(out, batch, g)[i]
             \/ \E k \in 1..Len(batch) :
                  /\ g = Len(out) + k /\ i = 1 /\ Place(out, batch, n, k)
                  /\ Group(o, <<>>, g)[i] = Group(out, batch, n)[k]
  <2>0. g \in 1..(Len(o) + 1) /\ i \in 1..Len(Group(o, <<>>, g))
    BY <1>4 DEF Place
  <2>0a. /\ g \in 1..(Len(out) + Len(batch) + 1) /\ Len(o) = Len(out) + Len(batch)
         /\ Len(out) \in Nat /\ Len(batch) \in Nat /\ g \in Nat
    <3>1. /\ Len(o) = Len(out) + Len(batch)
          /\ Len(out) \in Nat /\ Len(batch) \in Nat
      BY <1>1
    <3>2. g \in 1..(Len(o) + 1)
      BY <2>0
    <3> QED
      BY <3>1, <3>2
  <2>1. g \in 1..Len(out) \/ g - Len(out) \in 1..Len(batch) \/ g = Len(o) + 1
    BY <2>0a
  <2>2. CASE g \in 1..Len(out)
    BY <1>1, <1>2, <1>3, <2>0, <2>2 DEF Place
  <2>3. CASE g - Len(out) \in 1..Len(batch)
    <3>1. PICK k \in 1..Len(batch) : g = Len(out) + k
      <4>1. g = Len(out) + (g - Len(out))
        BY <2>0a
      <4> QED
        BY <2>3, <4>1
    <3>1a. Group(o, <<>>, g) = <<batch[k]>> /\ Len(<<batch[k]>>) = 1
      BY <1>3, <3>1
    <3>2. Group(o, <<>>, g) = <<batch[k]>> /\ i = 1
      <4>1. i \in 1..Len(Group(o, <<>>, g))
        BY <2>0
      <4>2. i \in 1..1
        BY <3>1a, <4>1
      <4> QED
        BY <3>1a, <4>2
    <3>3. Place(out, batch, n, k) /\ Group(out, batch, n)[k] = batch[k]
      BY <1>1, <1>2, <1>3 DEF Place
    <3> QED
      BY <3>1, <3>2, <3>3
  <2>4. CASE g = Len(o) + 1
    BY <1>3, <2>0, <2>4
  <2> QED
    BY <2>1, <2>2, <2>3, <2>4
<1>5. ASSUME NEW x \in accepted
      PROVE  \E g, i : Place(o, <<>>, g, i) /\ Group(o, <<>>, g)[i] = x
  <2>1. PICK g, i : Place(out, batch, g, i) /\ Group(out, batch, g)[i] = x
    BY DEF OrderlyAt
  <2>2. g \in 1..Len(out) \/ g = n
    BY <1>1, <1>2, <2>1 DEF Place
  <2>3. CASE g \in 1..Len(out)
    <3>1. Place(o, <<>>, g, i) /\ Group(o, <<>>, g)[i] = x
      BY <1>1, <1>3, <2>1, <2>3 DEF Place
    <3> QED
      BY <3>1
  <2>4. CASE g = n
    <3>1. i \in 1..Len(batch) /\ batch[i] = x
      BY <1>3, <2>1, <2>4 DEF Place
    <3>2. Group(o, <<>>, Len(out) + i) = <<batch[i]>> /\ Len(out) + i \in 1..(Len(o) + 1)
      BY <1>1, <1>3, <3>1
    <3>3. Place(o, <<>>, Len(out) + i, 1) /\ Group(o, <<>>, Len(out) + i)[1] = x
      BY <3>1, <3>2 DEF Place
    <3> QED
      BY <3>3
  <2> QED
    BY <2>2, <2>3, <2>4
<1>6. ASSUME NEW g, NEW i, NEW h, NEW j, Place(o, <<>>, g, i), Place(o, <<>>, h, j),
             g < h \/ (g = h /\ i < j),
             Group(o, <<>>, g)[i] \in accepted, Group(o, <<>>, h)[j] \in accepted
      PROVE  Group(o, <<>>, g)[i] < Group(o, <<>>, h)[j]
  <2>1. CASE g \in 1..Len(out) /\ h \in 1..Len(out)
    <3>1. /\ Place(out, batch, g, i) /\ Group(o, <<>>, g)[i] = Group(out, batch, g)[i]
          /\ Place(out, batch, h, j) /\ Group(o, <<>>, h)[j] = Group(out, batch, h)[j]
      BY <1>1, <1>4, <1>6, <2>1
    <3> QED
      BY <1>6, <3>1 DEF OrderlyAt
  <2>2. CASE g \in 1..Len(out) /\ h \notin 1..Len(out)
    <3>1. Place(out, batch, g, i) /\ Group(o, <<>>, g)[i] = Group(out, batch, g)[i]
      BY <1>1, <1>4, <1>6, <2>2
    <3>2. PICK k : Place(out, batch, n, k) /\ Group(o, <<>>, h)[j] = Group(out, batch, n)[k]
      BY <1>4, <1>6, <2>2
    <3>3. g < n
      BY <1>1, <1>2, <2>2
    <3>4. Group(out, batch, g)[i] < Group(out, batch, n)[k]
      BY <1>6, <3>1, <3>2, <3>3 DEF OrderlyAt
    <3> QED
      BY <3>1, <3>2, <3>4
  <2>3. CASE g \notin 1..Len(out)
    <3>1. PICK k \in 1..Len(batch) :
            /\ Place(out, batch, n, k) /\ Group(o, <<>>, g)[i] = Group(out, batch, n)[k]
            /\ g = Len(out) + k /\ i = 1
      BY <1>4, <1>6, <2>3
    <3>2. h \notin 1..Len(out)
      <4>1. h \in Nat
        BY <1>1, <1>6 DEF Place
      <4> QED
        BY <1>1, <1>6, <3>1, <4>1
    <3>3. PICK l \in 1..Len(batch) :
            /\ Place(out, batch, n, l) /\ Group(o, <<>>, h)[j] = Group(out, batch, n)[l]
            /\ h = Len(out) + l /\ j = 1
      BY <1>4, <1>6, <3>2
    <3>4. k < l
      BY <1>1, <1>6, <3>1, <3>3
    <3>5. Group(out, batch, n)[k] < Group(out, batch, n)[l]
      BY <1>6, <3>1, <3>3, <3>4 DEF OrderlyAt
    <3> QED
      BY <3>1, <3>3, <3>5
  <2> QED
    BY <2>1, <2>2, <2>3
<1>7. ASSUME NEW g, NEW i, Place(o, <<>>, g, i) PROVE Group(o, <<>>, g)[i] \in own
  BY <1>4, <1>7 DEF OrderlyAt
<1>8. OrderlyAt(o, <<>>, own, accepted)
  BY <1>5, <1>6, <1>7 DEF OrderlyAt
<1> QED
  BY <1>1, <1>8 DEF o

\* More entries, fewer of which are accepted.
LEMMA OrderlyWeaker ==
  ASSUME NEW out, NEW batch, NEW own, NEW accepted, OrderlyAt(out, batch, own, accepted),
         NEW own2, own \subseteq own2, NEW accepted2, accepted2 \subseteq accepted
  PROVE  OrderlyAt(out, batch, own2, accepted2)
  BY DEF OrderlyAt

-----------------------------------------------------------------------------
(* The operator's functions, for all sources.  own[s] and accepted[s] are    *)
(* the entries of source s; yes and no those for which the expression is     *)
(* true and false.                                                           *)

States == [batch : [AllSources -> Seq(Nat)], out : [AllSources -> Seq(Written)]]

\* A group that may be written as one entry, or a batch with its last entry.
Intact(c, from, yes, no) ==
  /\ \A i \in (IF c.matchFirst THEN 2..Len(from) ELSE 1..(Len(from) - 1)) : from[i] \in no
  /\ c.matchFirst /\ Len(from) > 1 => from[1] \in yes

\* A batch that may wait for more.
Waiting(c, batch, yes, no) ==
  c.canSet =>
    /\ \A i \in (IF c.matchFirst THEN 2..Len(batch) ELSE 1..Len(batch)) : batch[i] \in no
    /\ c.matchFirst /\ Len(batch) > 0 => batch[1] \in yes

AllOrderly(st, own, accepted) ==
  \A s \in AllSources : OrderlyAt(st.out[s], st.batch[s], own[s], accepted[s])

WrittenIntact(c, st, yes, no) ==
  \A s \in AllSources : \A g \in 1..Len(st.out[s]) : Intact(c, st.out[s][g].from, yes, no)

\* The batch of t may be complete, the others wait.
Complete(c, st, t, yes, no) ==
  /\ WrittenIntact(c, st, yes, no)
  /\ \A s \in AllSources \ {t} : Waiting(c, st.batch[s], yes, no)
  /\ c.canSet => Intact(c, st.batch[t], yes, no)

\* What was written has the text of every entry in texts that it was made from.
Kept(st, texts) ==
  \A s \in AllSources : \A g \in 1..Len(st.out[s]) : Keeps(st.out[s][g], texts)

\* The entries with a combine_field.
Texts == {e \in Entries : kind[e].text}

AllWaiting(c, st, yes, no) ==
  /\ WrittenIntact(c, st, yes, no)
  /\ \A s \in AllSources : Waiting(c, st.batch[s], yes, no)

BatchLimit == IF MaxBatchSize = 1 THEN 2 ELSE MaxBatchSize

Limited(c, st) ==
  /\ IsFiniteSet(Batched(st)) /\ Cardinality(Batched(st)) < MaxSources
  /\ c.canSet => \A s \in AllSources : Len(st.batch[s]) < BatchLimit

\* A batch that waits could be written.
LEMMA WaitingIntact ==
  ASSUME NEW c, NEW batch \in Seq(Nat), NEW yes, NEW no, Waiting(c, batch, yes, no), c.canSet
  PROVE  Intact(c, batch, yes, no)
<1>1. Len(batch) \in Nat
  OBVIOUS
<1> QED
  BY <1>1 DEF Waiting, Intact

\* If all wait, the batch of any source may be taken for complete.
LEMMA WaitingComplete ==
  ASSUME NEW c, NEW st \in States, NEW yes, NEW no, AllWaiting(c, st, yes, no),
         NEW t \in AllSources
  PROVE  Complete(c, st, t, yes, no)
<1>1. st.batch[t] \in Seq(Nat)
  BY DEF States
<1> QED
  BY <1>1, WaitingIntact DEF AllWaiting, Complete

\* flushSource does nothing, or moves the batch to what is written.
LEMMA FlushCases ==
  ASSUME config \in AllConfigs, NEW st \in States, NEW s \in AllSources
  PROVE  LET new == flushSource(st, s) IN
         /\ new \in States
         /\ \/ new = st /\ (st.batch[s] = <<>> \/ ~config.canSet)
            \/ /\ config.canSet /\ st.batch[s] # <<>> /\ new.batch[s] = <<>>
               /\ \E w \in Written : /\ w.from = st.batch[s] /\ Keeps(w, Texts')
                                    /\ new.out[s] = Append(st.out[s], w)
               /\ \A t \in AllSources \ {s} :
                    new.batch[t] = st.batch[t] /\ new.out[t] = st.out[t]
<1>1. st.batch \in [AllSources -> Seq(Nat)] /\ st.out \in [AllSources -> Seq(Written)]
  BY DEF States
<1>2. CASE st.batch[s] = <<>> \/ FlushFails(st, s)
  BY <1>2 DEF flushSource, FlushFails
<1>3. CASE ~(st.batch[s] = <<>> \/ FlushFails(st, s))
  <2> DEFINE w == Combined(st.batch[s])
  <2>1. config.canSet /\ st.batch[s] # <<>> /\ st.batch[s] \in Seq(Nat) /\ st.out[s] \in Seq(Written)
    BY <1>1, <1>3 DEF FlushFails, AllConfigs
  <2>2. Head(st.batch[s]) \in Nat /\ Last(st.batch[s]) \in Nat
    BY <2>1 DEF Last
  <2>3. w \in Written /\ w.from = st.batch[s] /\ Keeps(w, Texts')
    <3>1. DOMAIN st.batch[s] = 1..Len(st.batch[s]) /\ 1..Len(st.batch[s]) \subseteq Nat
      BY <2>1
    <3>2. w \in Written /\ w.from = st.batch[s]
      BY <2>1, <2>2, <3>1 DEF Combined, Written
    <3>3. w.text = {i \in 1..Len(st.batch[s]) : kind'[st.batch[s][i]].text}
      BY <3>1 DEF Combined
    <3>4. Keeps(w, Texts')
      BY <3>2, <3>3 DEF Keeps, Texts
    <3> QED
      BY <3>2, <3>4
  <2> HIDE DEF w
  <2>4. flushSource(st, s) = [batch |-> [st.batch EXCEPT ![s] = <<>>],
                              out   |-> [st.out EXCEPT ![s] = Append(st.out[s], w)]]
    BY <1>3 DEF flushSource, w
  <2>5. Append(st.out[s], w) \in Seq(Written)
    BY <2>1, <2>3
  <2>6. flushSource(st, s) \in States
    BY <1>1, <2>4, <2>5 DEF States
  <2>7. /\ flushSource(st, s).batch[s] = <<>>
        /\ flushSource(st, s).out[s] = Append(st.out[s], w)
        /\ \A t \in AllSources \ {s} : /\ flushSource(st, s).batch[t] = st.batch[t]
                                       /\ flushSource(st, s).out[t] = st.out[t]
    BY <1>1, <2>4
  <2> QED
    BY <2>1, <2>3, <2>6, <2>7
<1> QED
  BY <1>2, <1>3

\* flushSource loses nothing, writes only what is complete, and keeps limits.
LEMMA FlushSound ==
  ASSUME config \in AllConfigs, NEW st \in States, NEW s \in AllSources,
         NEW new, new = flushSource(st, s)
  PROVE  /\ new \in States
         /\ ~FlushFails(st, s) => new.batch[s] = <<>>
         /\ \A own, accepted : AllOrderly(st, own, accepted) => AllOrderly(new, own, accepted)
         /\ \A yes, no : Complete(config, st, s, yes, no) => AllWaiting(config, new, yes, no)
         /\ Kept(st, Texts') => Kept(new, Texts')
         /\ Limited(config, st) => Limited(config, new)
<1>0. /\ new \in States
      /\ \/ new = st /\ (st.batch[s] = <<>> \/ ~config.canSet)
         \/ /\ config.canSet /\ st.batch[s] # <<>> /\ new.batch[s] = <<>>
            /\ \E w \in Written : /\ w.from = st.batch[s] /\ Keeps(w, Texts')
                                 /\ new.out[s] = Append(st.out[s], w)
            /\ \A t \in AllSources \ {s} :
                 new.batch[t] = st.batch[t] /\ new.out[t] = st.out[t]
  BY FlushCases
<1>1. /\ st.batch \in [AllSources -> Seq(Nat)] /\ st.out \in [AllSources -> Seq(Written)]
      /\ st.batch[s] \in Seq(Nat) /\ st.out[s] \in Seq(Written)
  BY DEF States
<1>2. CASE new = st /\ (st.batch[s] = <<>> \/ ~config.canSet)
  <2>1. ASSUME NEW yes, NEW no, Complete(config, st, s, yes, no)
        PROVE  AllWaiting(config, st, yes, no)
    <3>1. Waiting(config, st.batch[s], yes, no)
      BY <1>2 DEF Waiting
    <3> QED
      BY <2>1, <3>1 DEF Complete, AllWaiting
  <2>2. ~FlushFails(st, s) => new.batch[s] = <<>>
    BY <1>2 DEF FlushFails
  <2> QED
    BY <1>0, <1>2, <2>1, <2>2
<1>3. CASE /\ config.canSet /\ st.batch[s] # <<>> /\ new.batch[s] = <<>>
           /\ \E w \in Written : /\ w.from = st.batch[s] /\ Keeps(w, Texts')
                                /\ new.out[s] = Append(st.out[s], w)
           /\ \A t \in AllSources \ {s} :
                new.batch[t] = st.batch[t] /\ new.out[t] = st.out[t]
  <2>1. PICK w \in Written : /\ w.from = st.batch[s] /\ Keeps(w, Texts')
                            /\ new.out[s] = Append(st.out[s], w)
    BY <1>3
  <2>2. ASSUME NEW own, NEW accepted, AllOrderly(st, own, accepted)
        PROVE  AllOrderly(new, own, accepted)
    <3>1. OrderlyAt(Append(st.out[s], w), <<>>, own[s], accepted[s])
      BY <1>1, <2>1, <2>2, FlushOrderly DEF AllOrderly
    <3> QED
      BY <1>3, <2>1, <2>2, <3>1 DEF AllOrderly
  <2>3. ASSUME NEW yes, NEW no, Complete(config, st, s, yes, no)
        PROVE  AllWaiting(config, new, yes, no)
    <3>1. Waiting(config, new.batch[s], yes, no)
      BY <1>3 DEF Waiting
    <3>2. \A t \in AllSources : Waiting(config, new.batch[t], yes, no)
      BY <1>3, <2>3, <3>1 DEF Complete
    <3>3. /\ Len(new.out[s]) = Len(st.out[s]) + 1 /\ Len(st.out[s]) \in Nat
          /\ \A g \in 1..Len(st.out[s]) : new.out[s][g] = st.out[s][g]
          /\ new.out[s][Len(st.out[s]) + 1] = w
      BY <1>1, <2>1, AppendProperties
    <3>4. ASSUME NEW g \in 1..Len(new.out[s])
          PROVE  Intact(config, new.out[s][g].from, yes, no)
      <4>1. g \in 1..Len(st.out[s]) \/ g = Len(st.out[s]) + 1
        BY <3>3
      <4> QED
        BY <1>3, <2>1, <2>3, <3>3, <4>1 DEF Complete, WrittenIntact
    <3>5. WrittenIntact(config, new, yes, no)
      <4>1. ASSUME NEW t \in AllSources \ {s}
            PROVE  \A g \in 1..Len(new.out[t]) : Intact(config, new.out[t][g].from, yes, no)
        BY <1>3, <2>3, <4>1, SMTT(30) DEF Complete, WrittenIntact
      <4> QED
        BY <3>4, <4>1, SMTT(30) DEF WrittenIntact
    <3> QED
      BY <3>2, <3>5 DEF AllWaiting
  <2>3a. ASSUME Kept(st, Texts') PROVE Kept(new, Texts')
    <3>1. /\ Len(new.out[s]) = Len(st.out[s]) + 1 /\ Len(st.out[s]) \in Nat
          /\ \A g \in 1..Len(st.out[s]) : new.out[s][g] = st.out[s][g]
          /\ new.out[s][Len(st.out[s]) + 1] = w
      BY <1>1, <2>1, AppendProperties
    <3>2. ASSUME NEW g \in 1..Len(new.out[s]) PROVE Keeps(new.out[s][g], Texts')
      <4>1. g \in 1..Len(st.out[s]) \/ g = Len(st.out[s]) + 1
        BY <3>1
      <4> QED
        BY <2>1, <2>3a, <3>1, <4>1 DEF Kept
    <3>3. ASSUME NEW t \in AllSources \ {s}
          PROVE  \A g \in 1..Len(new.out[t]) : Keeps(new.out[t][g], Texts')
      BY <1>3, <2>3a, <3>3, SMTT(30) DEF Kept
    <3> QED
      BY <3>2, <3>3, SMTT(30) DEF Kept
  <2>4. ASSUME Limited(config, st) PROVE Limited(config, new)
    <3>1. Batched(new) \subseteq Batched(st)
      BY <1>3 DEF Batched
    <3>2. /\ IsFiniteSet(Batched(new)) /\ Cardinality(Batched(new)) <= Cardinality(Batched(st))
          /\ Cardinality(Batched(new)) \in Nat /\ Cardinality(Batched(st)) \in Nat
      BY <2>4, <3>1, FS_Subset, FS_CardinalityType DEF Limited
    <3>3. Cardinality(Batched(new)) < MaxSources
      BY <2>4, <3>2, RecombineAssumption DEF Limited
    <3>4. ASSUME NEW t \in AllSources PROVE Len(new.batch[t]) < BatchLimit
      BY <1>3, <2>4, RecombineAssumption DEF Limited, BatchLimit
    <3> QED
      BY <3>2, <3>3, <3>4 DEF Limited
  <2> QED
    BY <1>0, <1>3, <2>2, <2>3, <2>3a, <2>4
<1> QED
  BY <1>0, <1>2, <1>3

\* An entry that is written on its own is written as it is.
LEMMA SingleKeeps ==
  ASSUME NEW e
  PROVE  \A texts : Keeps(Single(e), texts)
<1>1. Len(<<e>>) = 1 /\ 1..1 = {1}
  OBVIOUS
<1> QED
  BY <1>1 DEF Single, Keeps

\* flushUncombined writes every batched entry on its own and empties the map.
LEMMA UncombinedSound ==
  ASSUME NEW c, NEW st \in States, NEW new, new = flushUncombined(st)
  PROVE  /\ new \in States
         /\ \A s \in AllSources : new.batch[s] = <<>>
         /\ \A own, accepted : AllOrderly(st, own, accepted) => AllOrderly(new, own, accepted)
         /\ \A yes, no : WrittenIntact(c, st, yes, no) => AllWaiting(c, new, yes, no)
         /\ \A texts : Kept(st, texts) => Kept(new, texts)
         /\ Limited(c, new)
<1>1. /\ st.batch \in [AllSources -> Seq(Nat)] /\ st.out \in [AllSources -> Seq(Written)]
      /\ \A s \in AllSources : st.batch[s] \in Seq(Nat) /\ st.out[s] \in Seq(Written)
  BY DEF States
<1>2. new = [batch |-> [s \in AllSources |-> <<>>],
             out   |-> [s \in AllSources |-> st.out[s] \o Singles(st.batch[s])]]
  BY DEF flushUncombined, Singles
<1>3. ASSUME NEW s \in AllSources
      PROVE  new.batch[s] = <<>> /\ new.out[s] = st.out[s] \o Singles(st.batch[s])
  <2>1. /\ new.batch = [x \in AllSources |-> <<>>]
        /\ new.out = [x \in AllSources |-> st.out[x] \o Singles(st.batch[x])]
    BY <1>2
  <2> QED
    BY <2>1
<1>4. ASSUME NEW batch \in Seq(Nat)
      PROVE  /\ Singles(batch) \in Seq(Written) /\ Len(Singles(batch)) = Len(batch)
             /\ \A i \in 1..Len(batch) : Singles(batch)[i].from = <<batch[i]>>
  <2>1. ASSUME NEW i \in 1..Len(batch)
        PROVE  Single(batch[i]) \in Written /\ Single(batch[i]).from = <<batch[i]>>
    BY DEF Single, Written
  <2>2. Singles(batch) \in [1..Len(batch) -> Written] /\ Len(batch) \in Nat
    BY <2>1 DEF Singles
  <2>3. \A i \in 1..Len(batch) : Singles(batch)[i] = Single(batch[i])
    BY DEF Singles
  <2>4. Singles(batch) \in Seq(Written) /\ Len(Singles(batch)) = Len(batch)
    BY <2>2
  <2> QED
    BY <2>1, <2>3, <2>4
<1>5. ASSUME NEW s \in AllSources PROVE st.out[s] \o Singles(st.batch[s]) \in Seq(Written)
  <2>1. st.out[s] \in Seq(Written) /\ Singles(st.batch[s]) \in Seq(Written)
    BY <1>1, <1>4
  <2> QED
    BY <2>1, ConcatProperties
<1>6. new \in States
  BY <1>2, <1>5 DEF States
<1>7. ASSUME NEW own, NEW accepted, AllOrderly(st, own, accepted)
      PROVE  AllOrderly(new, own, accepted)
  <2>1. ASSUME NEW s \in AllSources
        PROVE  OrderlyAt(st.out[s] \o Singles(st.batch[s]), <<>>, own[s], accepted[s])
    BY <1>1, <1>7, UncombinedOrderly DEF AllOrderly
  <2> QED
    BY <1>3, <2>1 DEF AllOrderly
<1>7a. ASSUME NEW s \in AllSources, NEW g \in 1..Len(new.out[s])
       PROVE  \/ g \in 1..Len(st.out[s]) /\ new.out[s][g] = st.out[s][g]
              \/ \E e \in Nat : new.out[s][g] = Single(e)
  <2> DEFINE out == st.out[s]
             add == Singles(st.batch[s])
  <2>1. /\ out \in Seq(Written) /\ add \in Seq(Written)
        /\ new.out[s] = out \o add
    BY <1>1, <1>3, <1>4
  <2>2. \A i \in 1..Len(add) : \E e \in Nat : add[i] = Single(e)
    <3>1. ASSUME NEW i \in 1..Len(add)
          PROVE  st.batch[s][i] \in Nat /\ add[i] = Single(st.batch[s][i])
      <4>1. i \in 1..Len(st.batch[s]) /\ st.batch[s] \in Seq(Nat)
        BY <1>1, <1>4
      <4> QED
        BY <4>1 DEF Singles
    <3> QED
      BY <3>1
  <2> HIDE DEF out, add
  <2>3. /\ Len(out \o add) = Len(out) + Len(add)
        /\ \A i \in 1..(Len(out) + Len(add)) :
             (out \o add)[i] = IF i <= Len(out) THEN out[i] ELSE add[i - Len(out)]
    BY <2>1, ConcatProperties
  <2>4. Len(out) \in Nat /\ Len(add) \in Nat /\ g \in 1..(Len(out) + Len(add))
    BY <2>1, <2>3
  <2>5. CASE g <= Len(out)
    BY <2>1, <2>3, <2>4, <2>5 DEF out
  <2>6. CASE ~(g <= Len(out))
    <3>1. g - Len(out) \in 1..Len(add)
      BY <2>4, <2>6
    <3>2. new.out[s][g] = add[g - Len(out)]
      BY <2>1, <2>3, <2>4, <2>6
    <3> QED
      BY <2>2, <3>1, <3>2
  <2> QED
    BY <2>5, <2>6
<1>8. ASSUME NEW yes, NEW no, WrittenIntact(c, st, yes, no)
      PROVE  AllWaiting(c, new, yes, no)
  <2>1. ASSUME NEW s \in AllSources, NEW g \in 1..Len(new.out[s])
        PROVE  Intact(c, new.out[s][g].from, yes, no)
    <3>1. CASE g \in 1..Len(st.out[s]) /\ new.out[s][g] = st.out[s][g]
      BY <1>8, <3>1 DEF WrittenIntact
    <3>2. CASE \E e \in Nat : new.out[s][g] = Single(e)
      <4>1. Len(new.out[s][g].from) = 1
        BY <3>2 DEF Single
      <4> QED
        BY <4>1 DEF Intact
    <3> QED
      BY <1>7a, <3>1, <3>2
  <2>2. ASSUME NEW s \in AllSources PROVE Waiting(c, new.batch[s], yes, no)
    <3>1. new.batch[s] = <<>> /\ Len(<<>>) = 0
      BY <1>3
    <3> QED
      BY <3>1 DEF Waiting
  <2> QED
    BY <2>1, <2>2 DEF AllWaiting, WrittenIntact
<1>8a. ASSUME NEW texts, Kept(st, texts) PROVE Kept(new, texts)
  <2>1. ASSUME NEW s \in AllSources, NEW g \in 1..Len(new.out[s])
        PROVE  Keeps(new.out[s][g], texts)
    <3>1. CASE g \in 1..Len(st.out[s]) /\ new.out[s][g] = st.out[s][g]
      BY <1>8a, <3>1 DEF Kept
    <3>2. CASE \E e \in Nat : new.out[s][g] = Single(e)
      BY <3>2, SingleKeeps
    <3> QED
      BY <1>7a, <3>1, <3>2
  <2> QED
    BY <2>1 DEF Kept
<1>9. Limited(c, new)
  <2>1. Batched(new) = {}
    BY <1>3 DEF Batched
  <2>2. ASSUME NEW s \in AllSources PROVE Len(new.batch[s]) < BatchLimit
    <3>1. new.batch[s] = <<>> /\ Len(<<>>) = 0
      BY <1>3
    <3> QED
      BY <3>1, RecombineAssumption DEF BatchLimit
  <2> QED
    BY <2>1, <2>2, FS_EmptySet, RecombineAssumption DEF Limited
<1> QED
  BY <1>3, <1>6, <1>7, <1>8, <1>8a, <1>9

\* A batch with one more entry at its end.
Appended(st, e, s) ==
  [batch |-> [st.batch EXCEPT ![s] = Append(st.batch[s], e)], out |-> st.out]

\* addToBatch adds the entry and may then flush.
LEMMA AddCases ==
  ASSUME NEW st \in States, NEW s \in AllSources, NEW e \in Nat, NEW mid, mid = Appended(st, e, s)
  PROVE  /\ mid \in States
         /\ mid.batch[s] = Append(st.batch[s], e) /\ mid.out = st.out
         /\ \A t \in AllSources \ {s} : mid.batch[t] = st.batch[t]
         /\ addToBatch(st, e, s)
              = IF st.batch[s] = <<>>
                THEN IF TooManySources(mid) THEN flushUncombined(mid) ELSE mid
                ELSE IF BatchFull(mid.batch[s]) THEN flushSource(mid, s) ELSE mid
<1>1. /\ st.batch \in [AllSources -> Seq(Nat)] /\ st.out \in [AllSources -> Seq(Written)]
      /\ st.batch[s] \in Seq(Nat)
  BY DEF States
<1>2. Append(st.batch[s], e) \in Seq(Nat)
  BY <1>1
<1>3. mid \in States
  BY <1>1, <1>2 DEF Appended, States
<1> QED
  BY <1>1, <1>3 DEF addToBatch, Appended

\* addToBatch loses nothing and keeps the limits.
LEMMA AddSound ==
  ASSUME config \in AllConfigs, NEW st \in States, NEW s \in AllSources, NEW e \in Nat,
         NEW mid, mid = Appended(st, e, s), NEW new, new = addToBatch(st, e, s)
  PROVE  /\ new \in States
         /\ \A own, accepted : AllOrderly(mid, own, accepted) => AllOrderly(new, own, accepted)
         /\ \A yes, no : Complete(config, mid, s, yes, no) => Complete(config, new, s, yes, no)
         /\ \A yes, no : AllWaiting(config, mid, yes, no) => AllWaiting(config, new, yes, no)
         /\ Kept(st, Texts') => Kept(new, Texts')
         /\ Limited(config, st) => Limited(config, new)
<1>1. /\ mid \in States
      /\ mid.batch[s] = Append(st.batch[s], e) /\ mid.out = st.out
      /\ \A t \in AllSources \ {s} : mid.batch[t] = st.batch[t]
      /\ new = IF st.batch[s] = <<>>
               THEN IF TooManySources(mid) THEN flushUncombined(mid) ELSE mid
               ELSE IF BatchFull(mid.batch[s]) THEN flushSource(mid, s) ELSE mid
  <2>1. /\ mid \in States
        /\ mid.batch[s] = Append(st.batch[s], e) /\ mid.out = st.out
        /\ \A t \in AllSources \ {s} : mid.batch[t] = st.batch[t]
    <3>1. mid \in States
      BY AddCases
    <3>2. mid.batch[s] = Append(st.batch[s], e) /\ mid.out = st.out
      BY DEF Appended, States
    <3>3. \A t \in AllSources \ {s} : mid.batch[t] = st.batch[t]
      BY DEF Appended, States
    <3> QED
      BY <3>1, <3>2, <3>3
  <2>2. addToBatch(st, e, s)
          = IF st.batch[s] = <<>>
            THEN IF TooManySources(mid) THEN flushUncombined(mid) ELSE mid
            ELSE IF BatchFull(mid.batch[s]) THEN flushSource(mid, s) ELSE mid
    BY AddCases
  <2> QED
    BY <2>1, <2>2
<1>1a. Kept(st, Texts') => Kept(mid, Texts')
  BY <1>1 DEF Kept
<1>2. CASE st.batch[s] = <<>> /\ TooManySources(mid)
  <2>1. new = flushUncombined(mid)
    BY <1>1, <1>2
  <2>2. /\ new \in States /\ Limited(config, new)
        /\ \A own, accepted : AllOrderly(mid, own, accepted) => AllOrderly(new, own, accepted)
        /\ \A yes, no : WrittenIntact(config, mid, yes, no) => AllWaiting(config, new, yes, no)
        /\ \A texts : Kept(mid, texts) => Kept(new, texts)
    BY <1>1, <2>1, UncombinedSound
  <2>3. \A yes, no : AllWaiting(config, new, yes, no) => Complete(config, new, s, yes, no)
    BY <2>2, WaitingComplete
  <2> QED
    BY <1>1a, <2>2, <2>3 DEF Complete, AllWaiting
<1>3. ASSUME Limited(config, st),
             st.batch[s] = <<>> => ~TooManySources(mid),
             config.canSet => Len(Append(st.batch[s], e)) < BatchLimit
      PROVE  Limited(config, mid)
  <2>1. Batched(mid) \subseteq Batched(st) \cup {s}
    BY <1>1 DEF Batched
  <2>2. IsFiniteSet(Batched(st) \cup {s})
    BY <1>3, FS_AddElement DEF Limited
  <2>3. IsFiniteSet(Batched(mid)) /\ Cardinality(Batched(mid)) \in Nat
    BY <2>1, <2>2, FS_Subset, FS_CardinalityType
  <2>4. Cardinality(Batched(mid)) < MaxSources
    <3>1. CASE st.batch[s] = <<>>
      BY <1>3, <2>3, <3>1, RecombineAssumption DEF TooManySources
    <3>2. CASE st.batch[s] # <<>>
      <4>1. Batched(mid) \subseteq Batched(st)
        BY <2>1, <3>2 DEF Batched
      <4>2. /\ Cardinality(Batched(mid)) <= Cardinality(Batched(st))
            /\ Cardinality(Batched(st)) \in Nat
        BY <1>3, <4>1, FS_Subset, FS_CardinalityType DEF Limited
      <4> QED
        BY <1>3, <2>3, <4>2, RecombineAssumption DEF Limited
    <3> QED
      BY <3>1, <3>2
  <2>5. ASSUME config.canSet, NEW t \in AllSources PROVE Len(mid.batch[t]) < BatchLimit
    BY <1>1, <1>3, <2>5 DEF Limited
  <2> QED
    BY <2>3, <2>4, <2>5 DEF Limited
<1>4. st.batch[s] \in Seq(Nat) /\ Len(Append(st.batch[s], e)) = Len(st.batch[s]) + 1
  BY DEF States
<1>5. CASE st.batch[s] = <<>> /\ ~TooManySources(mid)
  <2>1. new = mid
    BY <1>1, <1>5
  <2>2. Len(Append(st.batch[s], e)) < BatchLimit
    BY <1>4, <1>5, RecombineAssumption DEF BatchLimit
  <2> QED
    BY <1>1, <1>1a, <1>3, <1>5, <2>1, <2>2
<1>6. CASE st.batch[s] # <<>> /\ ~BatchFull(mid.batch[s])
  <2>1. new = mid
    BY <1>1, <1>6
  <2>2. Len(Append(st.batch[s], e)) < BatchLimit
    BY <1>1, <1>4, <1>6, RecombineAssumption DEF BatchFull, BatchLimit
  <2> QED
    BY <1>1, <1>1a, <1>3, <1>6, <2>1, <2>2
<1>7. CASE st.batch[s] # <<>> /\ BatchFull(mid.batch[s])
  <2>1. new = flushSource(mid, s)
    BY <1>1, <1>7
  <2>2. /\ new \in States
        /\ ~FlushFails(mid, s) => new.batch[s] = <<>>
        /\ \A own, accepted : AllOrderly(mid, own, accepted) => AllOrderly(new, own, accepted)
        /\ \A yes, no : Complete(config, mid, s, yes, no) => AllWaiting(config, new, yes, no)
        /\ Kept(mid, Texts') => Kept(new, Texts')
    BY <1>1, <2>1, FlushSound
  <2>3. \A yes, no : AllWaiting(config, new, yes, no) => Complete(config, new, s, yes, no)
    BY <2>2, WaitingComplete
  <2>4. \A yes, no : AllWaiting(config, mid, yes, no) => Complete(config, mid, s, yes, no)
    BY <1>1, WaitingComplete
  <2>5. ASSUME Limited(config, st) PROVE Limited(config, new)
    <3>1. Batched(new) \subseteq Batched(st)
      <4>1. \A t \in AllSources \ {s} : new.batch[t] = mid.batch[t]
        BY <1>1, <2>1, FlushCases
      <4> QED
        BY <1>1, <1>7, <4>1 DEF Batched
    <3>2. /\ IsFiniteSet(Batched(new)) /\ Cardinality(Batched(new)) <= Cardinality(Batched(st))
          /\ Cardinality(Batched(new)) \in Nat /\ Cardinality(Batched(st)) \in Nat
      BY <2>5, <3>1, FS_Subset, FS_CardinalityType DEF Limited
    <3>3. Cardinality(Batched(new)) < MaxSources
      BY <2>5, <3>2, RecombineAssumption DEF Limited
    <3>4. ASSUME config.canSet, NEW t \in AllSources PROVE Len(new.batch[t]) < BatchLimit
      <4>1. CASE t = s
        BY <2>2, <3>4, <4>1, RecombineAssumption DEF FlushFails, BatchLimit
      <4>2. CASE t # s
        <5>1. new.batch[t] = st.batch[t]
          BY <1>1, <2>1, <4>2, FlushCases
        <5> QED
          BY <2>5, <3>4, <5>1 DEF Limited
      <4> QED
        BY <4>1, <4>2
    <3> QED
      BY <3>2, <3>3, <3>4 DEF Limited
  <2> QED
    BY <1>1a, <2>2, <2>3, <2>4, <2>5
<1> QED
  BY <1>2, <1>5, <1>6, <1>7

-----------------------------------------------------------------------------
(* The inductive invariant *)

OwnOf      == [s \in AllSources |-> Own(s)]
AcceptedOf == [s \in AllSources |-> Own(s) \ refused]
Yes        == {e \in Entries : kind[e].match = "yes"}
No         == {e \in Entries : kind[e].match = "no"}

Typed ==
  /\ config \in AllConfigs
  /\ kind \in Seq(AllKinds)
  /\ State \in States
  /\ refused \subseteq Entries

RecombineInv ==
  /\ Typed
  /\ AllOrderly(State, OwnOf, AcceptedOf)
  /\ AllWaiting(config, State, Yes, No)
  /\ Kept(State, Texts)
  /\ Limited(config, State)

\* The expression is evaluated on more entries.
LEMMA WaitingMore ==
  ASSUME NEW c, NEW st, NEW yes, NEW no, AllWaiting(c, st, yes, no),
         NEW yes2, yes \subseteq yes2, NEW no2, no \subseteq no2
  PROVE  AllWaiting(c, st, yes2, no2)
  BY DEF AllWaiting, WrittenIntact, Waiting, Intact

\* What a step that leaves the configuration alone has to show.
LEMMA InvFrom ==
  ASSUME Typed, NEW new \in States, Becomes(new), config' = config,
         kind' \in Seq(AllKinds), refused' \subseteq Entries',
         AllOrderly(new, OwnOf', AcceptedOf'), AllWaiting(config, new, Yes', No'),
         Kept(new, Texts'), Limited(config, new)
  PROVE  RecombineInv'
<1>1. new = [batch |-> new.batch, out |-> new.out]
  BY DEF States
<1>2. State' = new
  BY <1>1 DEF State, Becomes
<1>3. Typed'
  BY <1>2 DEF Typed
<1> QED
  BY <1>2, <1>3 DEF RecombineInv

\* An entry is taken.
LEMMA TakeEntry ==
  ASSUME Typed, NEW k \in Kinds, Take(k)
  PROVE  /\ config' = config /\ kind' \in Seq(AllKinds) /\ k.source \in AllSources
         /\ This \in Nat /\ This \notin refused /\ This \in Entries' /\ Entries \subseteq Entries'
         /\ OwnOf'[k.source] = OwnOf[k.source] \cup {This}
         /\ \A s \in AllSources \ {k.source} : OwnOf'[s] = OwnOf[s]
         /\ \A s \in AllSources : /\ OwnOf[s] \in SUBSET Nat
                                  /\ \A x \in OwnOf[s] : x < This
                                  /\ AcceptedOf[s] = OwnOf[s] \ refused
                                  /\ AcceptedOf'[s] = OwnOf'[s] \ refused'
         /\ Yes \subseteq Yes' /\ (k.match = "yes" => This \in Yes')
         /\ No \subseteq No' /\ (k.match = "no" => This \in No')
         /\ Texts' \cap Entries \subseteq Texts
<1>1. kind \in Seq(AllKinds) /\ Len(kind) \in Nat /\ k \in AllKinds
      /\ kind' = Append(kind, k) /\ config' = config
  BY RecombineAssumption DEF Typed, Take
<1>2. /\ kind' \in Seq(AllKinds) /\ Len(kind') = Len(kind) + 1
      /\ \A e \in 1..Len(kind) : kind'[e] = kind[e]
      /\ kind'[Len(kind) + 1] = k
  BY <1>1, AppendProperties
<1>3. /\ This = Len(kind) + 1 /\ This \in Nat /\ Entries = 1..Len(kind)
      /\ Entries' = 1..Len(kind') /\ Entries' = Entries \cup {This} /\ This \notin Entries
  BY <1>1, <1>2 DEF This, Entries
<1>4. This \notin refused /\ k.source \in AllSources
  BY <1>1, <1>3 DEF Typed, AllKinds
<1>5. \A e \in Entries : kind'[e] = kind[e]
  BY <1>2, <1>3
<1>6. kind'[This] = k
  BY <1>2, <1>3
<1>7. \A s \in AllSources : OwnOf[s] = {e \in Entries : kind[e].source = s}
  BY DEF OwnOf, Own
<1>8. \A s \in AllSources : OwnOf'[s] = {e \in Entries' : kind'[e].source = s}
  BY DEF OwnOf, Own
<1>9. OwnOf'[k.source] = OwnOf[k.source] \cup {This}
  BY <1>3, <1>4, <1>5, <1>6, <1>7, <1>8
<1>10. ASSUME NEW s \in AllSources, s # k.source PROVE OwnOf'[s] = OwnOf[s]
  <2>1. OwnOf'[s] = {e \in Entries \cup {This} : kind'[e].source = s}
    BY <1>3, <1>8
  <2>2. kind'[This].source # s
    BY <1>6, <1>10
  <2>3. OwnOf'[s] = {e \in Entries : kind'[e].source = s}
    BY <2>1, <2>2
  <2> QED
    BY <1>5, <1>7, <2>3
<1>11. ASSUME NEW s \in AllSources
       PROVE  /\ OwnOf[s] \in SUBSET Nat
              /\ \A x \in OwnOf[s] : x < This
              /\ AcceptedOf[s] = OwnOf[s] \ refused
              /\ AcceptedOf'[s] = OwnOf'[s] \ refused'
  <2>1. OwnOf[s] \subseteq 1..Len(kind)
    BY <1>3, <1>7
  <2>2. AcceptedOf[s] = OwnOf[s] \ refused /\ AcceptedOf'[s] = OwnOf'[s] \ refused'
    BY DEF AcceptedOf, OwnOf
  <2> QED
    BY <1>1, <1>3, <2>1, <2>2
<1>12. Yes \subseteq Yes' /\ (k.match = "yes" => This \in Yes')
  BY <1>3, <1>5, <1>6 DEF Yes
<1>13. No \subseteq No' /\ (k.match = "no" => This \in No')
  BY <1>3, <1>5, <1>6 DEF No
<1>14. Texts' \cap Entries \subseteq Texts
  BY <1>5 DEF Texts
<1> QED
  BY <1>1, <1>2, <1>3, <1>4, <1>9, <1>10, <1>11, <1>12, <1>13, <1>14

\* The entry that was taken has not been written.
LEMMA KeptMore ==
  ASSUME RecombineInv, NEW k \in Kinds, Take(k)
  PROVE  Kept(State, Texts')
<1>1. Texts' \cap Entries \subseteq Texts
  BY TakeEntry DEF RecombineInv
<1>2. ASSUME NEW s \in AllSources, NEW g \in 1..Len(written[s])
      PROVE  Keeps(written[s][g], Texts')
  <2>1. Keeps(written[s][g], Texts)
    BY DEF RecombineInv, Kept, State
  <2>2. ASSUME NEW i \in 1..Len(written[s][g].from)
        PROVE  written[s][g].from[i] \in Entries
    <3>1. OrderlyAt(written[s], batchMap[s], Own(s), AcceptedOf[s])
      BY DEF RecombineInv, AllOrderly, State, OwnOf
    <3>2. written[s] \in Seq(Written)
      BY DEF RecombineInv, Typed, State, States
    <3>3. g \in 1..(Len(written[s]) + 1) /\ g <= Len(written[s])
      BY <3>2
    <3>4. /\ Place(written[s], batchMap[s], g, i)
          /\ Group(written[s], batchMap[s], g)[i] = written[s][g].from[i]
      BY <3>3 DEF Place, Group
    <3>5. written[s][g].from[i] \in Own(s)
      BY <3>1, <3>4 DEF OrderlyAt
    <3> QED
      BY <3>5 DEF Own
  <2> QED
    BY <1>1, <2>1, <2>2 DEF Keeps
<1> QED
  BY <1>2 DEF Kept, State

\* An entry that was taken and is in no batch.
LEMMA TakenOrderly ==
  ASSUME Typed, NEW k \in Kinds, Take(k), refused' = refused \cup {This},
         NEW st, AllOrderly(st, OwnOf, AcceptedOf)
  PROVE  AllOrderly(st, OwnOf', AcceptedOf')
<1>1. ASSUME NEW s \in AllSources
      PROVE  OwnOf[s] \subseteq OwnOf'[s] /\ AcceptedOf'[s] \subseteq AcceptedOf[s]
  BY TakeEntry
<1> QED
  BY <1>1, OrderlyWeaker DEF AllOrderly

\* An entry that was taken and added to the batch of its source, whether or not
\* it is refused then.
LEMMA AppendedOrderly ==
  ASSUME Typed, NEW k \in Kinds, Take(k), refused' \in {refused, refused \cup {This}},
         NEW st \in States, AllOrderly(st, OwnOf, AcceptedOf),
         NEW mid, mid = Appended(st, This, k.source)
  PROVE  AllOrderly(mid, OwnOf', AcceptedOf')
<1> DEFINE s == k.source
<1>1. /\ s \in AllSources /\ This \in Nat /\ This \notin refused
      /\ OwnOf'[s] = OwnOf[s] \cup {This}
      /\ \A t \in AllSources \ {s} : OwnOf'[t] = OwnOf[t]
      /\ \A t \in AllSources : /\ OwnOf[t] \in SUBSET Nat
                               /\ \A x \in OwnOf[t] : x < This
                               /\ AcceptedOf[t] = OwnOf[t] \ refused
                               /\ AcceptedOf'[t] = OwnOf'[t] \ refused'
  BY TakeEntry
<1> HIDE DEF s
<1>2. st.batch[s] \in Seq(Nat) /\ st.out[s] \in Seq(Written)
  BY <1>1 DEF States
<1>3. /\ mid.batch[s] = Append(st.batch[s], This) /\ mid.out = st.out
      /\ \A t \in AllSources \ {s} : mid.batch[t] = st.batch[t]
  BY <1>1 DEF Appended, States, s
<1>4. OrderlyAt(st.out[s], Append(st.batch[s], This), OwnOf[s] \cup {This}, AcceptedOf[s] \cup {This})
  BY <1>1, <1>2, AddOrderly DEF AllOrderly
<1>5. AcceptedOf'[s] \subseteq AcceptedOf[s] \cup {This}
  BY <1>1
<1>6. OrderlyAt(mid.out[s], mid.batch[s], OwnOf'[s], AcceptedOf'[s])
  BY <1>1, <1>3, <1>4, <1>5, OrderlyWeaker
<1>7. ASSUME NEW t \in AllSources \ {s}
      PROVE  OrderlyAt(mid.out[t], mid.batch[t], OwnOf'[t], AcceptedOf'[t])
  <2>1. OwnOf[t] \subseteq OwnOf'[t] /\ AcceptedOf'[t] \subseteq AcceptedOf[t]
    BY <1>1
  <2>2. OrderlyAt(st.out[t], st.batch[t], OwnOf[t], AcceptedOf[t])
    BY DEF AllOrderly
  <2> QED
    BY <1>3, <2>1, <2>2, OrderlyWeaker
<1> QED
  BY <1>6, <1>7 DEF AllOrderly

\* A batch with one more entry still waits, or may be complete, whatever the
\* others do.
LEMMA AppendedSound ==
  ASSUME NEW c, NEW st \in States, NEW s \in AllSources, NEW e \in Nat,
         NEW mid, mid = Appended(st, e, s), NEW yes, NEW no, AllWaiting(c, st, yes, no)
  PROVE  /\ Waiting(c, Append(st.batch[s], e), yes, no) => AllWaiting(c, mid, yes, no)
         /\ (c.canSet => Intact(c, Append(st.batch[s], e), yes, no))
              => Complete(c, mid, s, yes, no)
<1>1. /\ mid.batch[s] = Append(st.batch[s], e) /\ mid.out = st.out
      /\ \A t \in AllSources \ {s} : mid.batch[t] = st.batch[t]
  <2>1. mid.batch[s] = Append(st.batch[s], e) /\ mid.out = st.out
    BY DEF Appended, States
  <2>2. \A t \in AllSources \ {s} : mid.batch[t] = st.batch[t]
    BY DEF Appended, States
  <2> QED
    BY <2>1, <2>2
<1>2. WrittenIntact(c, mid, yes, no)
  BY <1>1 DEF AllWaiting, WrittenIntact
<1>3. ASSUME NEW t \in AllSources, t # s PROVE Waiting(c, mid.batch[t], yes, no)
  BY <1>1, <1>3 DEF AllWaiting
<1>4. ASSUME Waiting(c, Append(st.batch[s], e), yes, no) PROVE AllWaiting(c, mid, yes, no)
  BY <1>1, <1>2, <1>3, <1>4 DEF AllWaiting
<1>5. ASSUME c.canSet => Intact(c, Append(st.batch[s], e), yes, no)
      PROVE  Complete(c, mid, s, yes, no)
  BY <1>1, <1>2, <1>3, <1>5 DEF Complete
<1> QED
  BY <1>4, <1>5

\* The expression fails.
LEMMA ErrorInv ==
  ASSUME RecombineInv, NEW k \in Kinds, ProcessError(k)
  PROVE  RecombineInv'
<1> DEFINE s == k.source
<1>1. /\ config' = config /\ kind' \in Seq(AllKinds) /\ s \in AllSources
      /\ This \in Nat /\ This \notin refused /\ This \in Entries' /\ Entries \subseteq Entries'
      /\ OwnOf'[s] = OwnOf[s] \cup {This}
      /\ \A t \in AllSources \ {s} : OwnOf'[t] = OwnOf[t]
      /\ \A t \in AllSources : /\ \A x \in OwnOf[t] : x < This
                               /\ AcceptedOf[t] = OwnOf[t] \ refused
                               /\ AcceptedOf'[t] = OwnOf'[t] \ refused'
      /\ Yes \subseteq Yes' /\ No \subseteq No'
  BY TakeEntry DEF RecombineInv, ProcessError
<1>2. /\ refused' = refused \cup {This} /\ refused' \subseteq Entries' /\ Take(k)
      /\ batchMap' = batchMap
      /\ written' = IF config.send THEN [written EXCEPT ![s] = Append(written[s], Single(This))]
                                   ELSE written
  BY <1>1 DEF ProcessError, RecombineInv, Typed
<1> HIDE DEF s
<1>3. AllWaiting(config, State, Yes', No')
  BY <1>1, WaitingMore DEF RecombineInv
<1>3a. Kept(State, Texts')
  BY KeptMore DEF ProcessError
<1>4. /\ State \in States /\ State.batch = batchMap /\ State.out = written
      /\ batchMap \in [AllSources -> Seq(Nat)] /\ written \in [AllSources -> Seq(Written)]
  BY DEF RecombineInv, Typed, State, States
<1>5. CASE ~config.send
  <2>1. Becomes(State)
    BY <1>2, <1>4, <1>5 DEF Becomes
  <2>2. AllOrderly(State, OwnOf', AcceptedOf')
    BY <1>2, TakenOrderly DEF RecombineInv
  <2> QED
    BY <1>1, <1>2, <1>3, <1>3a, <1>4, <2>1, <2>2, InvFrom DEF RecombineInv
<1>6. CASE config.send
  <2> DEFINE out == [written EXCEPT ![s] = Append(written[s], Single(This))]
             new == [batch |-> batchMap, out |-> out]
  <2>1. Single(This) \in Written /\ Single(This).from = <<This>>
    BY <1>1 DEF Single, Written
  <2>2. written[s] \in Seq(Written) /\ batchMap[s] \in Seq(Nat)
    BY <1>1, <1>4
  <2>3. Append(written[s], Single(This)) \in Seq(Written)
    BY <2>1, <2>2
  <2>4. out \in [AllSources -> Seq(Written)]
    BY <1>4, <2>3
  <2>5. /\ out[s] = Append(written[s], Single(This))
        /\ \A t \in AllSources \ {s} : out[t] = written[t]
    BY <1>1, <1>4
  <2> HIDE DEF out
  <2>6. new \in States /\ new.batch = batchMap /\ new.out = out
    BY <1>4, <2>4 DEF States
  <2>7. Becomes(new)
    BY <1>2, <1>6, <2>6 DEF Becomes, out
  <2> HIDE DEF new
  <2>8. AllOrderly(new, OwnOf', AcceptedOf')
    <3>1. OrderlyAt(written[s], batchMap[s], OwnOf[s], AcceptedOf[s])
      BY <1>1, <1>4 DEF RecombineInv, AllOrderly
    <3>2. This \notin AcceptedOf[s]
      <4>1. This \notin OwnOf[s]
        BY <1>1
      <4> QED
        BY <1>1, <4>1
    <3>3. OrderlyAt(out[s], batchMap[s], OwnOf'[s], AcceptedOf[s])
      <4>1. OrderlyAt(Append(written[s], Single(This)), batchMap[s], OwnOf[s] \cup {This},
                      AcceptedOf[s])
        BY <1>1, <2>2, <3>1, <3>2, ErrorOrderly
      <4> QED
        BY <1>1, <2>5, <4>1
    <3>4. AcceptedOf'[s] \subseteq AcceptedOf[s]
      BY <1>1, <1>2
    <3>5. OrderlyAt(out[s], batchMap[s], OwnOf'[s], AcceptedOf'[s])
      BY <3>3, <3>4, OrderlyWeaker
    <3>6. ASSUME NEW t \in AllSources, t # s
          PROVE  OrderlyAt(out[t], batchMap[t], OwnOf'[t], AcceptedOf'[t])
      <4>1. OrderlyAt(written[t], batchMap[t], OwnOf[t], AcceptedOf[t])
        BY <1>4 DEF RecombineInv, AllOrderly
      <4>2. OwnOf[t] \subseteq OwnOf'[t] /\ AcceptedOf'[t] \subseteq AcceptedOf[t]
        BY <1>1, <1>2, <3>6
      <4> QED
        BY <2>5, <3>6, <4>1, <4>2, OrderlyWeaker
    <3> QED
      BY <2>6, <3>5, <3>6 DEF AllOrderly
  <2>9. AllWaiting(config, new, Yes', No')
    <3>1. ASSUME NEW t \in AllSources, NEW g \in 1..Len(out[t])
          PROVE  Intact(config, out[t][g].from, Yes', No')
      <4>1. \A i \in 1..Len(written[t]) : Intact(config, written[t][i].from, Yes', No')
        BY <1>3, <1>4 DEF AllWaiting, WrittenIntact
      <4>2. CASE t # s
        BY <2>5, <3>1, <4>1, <4>2
      <4>3. CASE t = s
        <5>1. /\ Len(out[s]) = Len(written[s]) + 1 /\ Len(written[s]) \in Nat
              /\ \A i \in 1..Len(written[s]) : out[s][i] = written[s][i]
              /\ out[s][Len(written[s]) + 1] = Single(This)
          BY <2>1, <2>2, <2>5, AppendProperties
        <5>2. CASE g = Len(written[s]) + 1
          <6>1. out[t][g].from = <<This>> /\ Len(<<This>>) = 1
            BY <2>1, <4>3, <5>1, <5>2
          <6> QED
            BY <6>1 DEF Intact
        <5>3. CASE g # Len(written[s]) + 1
          <6>1. g \in 1..Len(written[s])
            BY <3>1, <4>3, <5>1, <5>3
          <6> QED
            BY <4>1, <4>3, <5>1, <6>1
        <5> QED
          BY <5>2, <5>3
      <4> QED
        BY <4>2, <4>3
    <3> QED
      BY <1>3, <1>4, <2>6, <3>1 DEF AllWaiting, WrittenIntact
  <2>10. Limited(config, new)
    BY <1>4, <2>6 DEF RecombineInv, Limited, Batched
  <2>11. Kept(new, Texts')
    <3>1. ASSUME NEW g \in 1..Len(out[s]) PROVE Keeps(out[s][g], Texts')
      <4>1. /\ Len(out[s]) = Len(written[s]) + 1 /\ Len(written[s]) \in Nat
            /\ \A i \in 1..Len(written[s]) : out[s][i] = written[s][i]
            /\ out[s][Len(written[s]) + 1] = Single(This)
        BY <2>1, <2>2, <2>5, AppendProperties
      <4>2. g \in 1..Len(written[s]) \/ g = Len(written[s]) + 1
        BY <4>1
      <4>3. \A i \in 1..Len(written[s]) : Keeps(written[s][i], Texts')
        BY <1>1, <1>3a, <1>4 DEF Kept
      <4>4. Keeps(Single(This), Texts')
        BY SingleKeeps
      <4> QED
        BY <4>1, <4>2, <4>3, <4>4
    <3>2. ASSUME NEW t \in AllSources, t # s
          PROVE  \A g \in 1..Len(out[t]) : Keeps(out[t][g], Texts')
      BY <1>3a, <1>4, <2>5, <3>2 DEF Kept
    <3> QED
      BY <2>6, <3>1, <3>2 DEF Kept
  <2> QED
    BY <1>1, <1>2, <2>6, <2>7, <2>8, <2>9, <2>10, <2>11, InvFrom DEF RecombineInv
<1> QED
  BY <1>5, <1>6

\* An entry that starts a record.
LEMMA FirstInv ==
  ASSUME RecombineInv, NEW k \in Kinds, ProcessFirst(k)
  PROVE  RecombineInv'
<1> DEFINE s == k.source
<1>1. /\ config' = config /\ kind' \in Seq(AllKinds) /\ s \in AllSources /\ This \in Nat
      /\ This \in Entries' /\ Entries \subseteq Entries'
      /\ Yes \subseteq Yes' /\ This \in Yes' /\ No \subseteq No'
  BY TakeEntry DEF RecombineInv, ProcessFirst
<1>2. /\ Take(k) /\ config.matchFirst /\ config \in AllConfigs /\ State \in States
      /\ refused \subseteq Entries
  BY DEF ProcessFirst, RecombineInv, Typed
<1>3. AllWaiting(config, State, Yes', No')
  BY <1>1, WaitingMore DEF RecombineInv
<1>3a. Kept(State, Texts')
  BY KeptMore DEF ProcessFirst
<1>4. CASE FlushFails(State, k.source)
  <2>1. refused' = refused \cup {This} /\ Becomes(State)
    BY <1>4 DEF ProcessFirst, Becomes, State
  <2>2. AllOrderly(State, OwnOf', AcceptedOf')
    BY <1>2, <2>1, TakenOrderly DEF RecombineInv
  <2> QED
    BY <1>1, <1>2, <1>3, <1>3a, <2>1, <2>2, InvFrom DEF RecombineInv
<1>5. CASE ~FlushFails(State, k.source)
  <2> DEFINE st  == flushSource(State, s)
             mid == Appended(st, This, s)
             new == addToBatch(st, This, s)
  <2>1. Becomes(new) /\ refused' = refused
    BY <1>5 DEF ProcessFirst
  <2>2. Complete(config, State, s, Yes', No')
    BY <1>1, <1>2, <1>3, WaitingComplete
  <2>3. /\ st \in States /\ st.batch[s] = <<>>
        /\ AllOrderly(st, OwnOf, AcceptedOf)
        /\ AllWaiting(config, st, Yes', No')
        /\ Kept(st, Texts')
        /\ Limited(config, st)
    <3>1. /\ st \in States
          /\ ~FlushFails(State, s) => st.batch[s] = <<>>
          /\ \A own, accepted : AllOrderly(State, own, accepted) => AllOrderly(st, own, accepted)
          /\ \A yes, no : Complete(config, State, s, yes, no) => AllWaiting(config, st, yes, no)
          /\ Kept(State, Texts') => Kept(st, Texts')
          /\ Limited(config, State) => Limited(config, st)
      <4> HIDE DEF s
      <4> QED
        BY <1>1, <1>2, FlushSound
    <3> QED
      BY <1>3a, <1>5, <2>2, <3>1 DEF RecombineInv
  <2> HIDE DEF st
  <2>4. AllOrderly(mid, OwnOf', AcceptedOf')
    BY <1>2, <2>1, <2>3, AppendedOrderly DEF RecombineInv
  <2> HIDE DEF s
  <2>5. Waiting(config, Append(st.batch[s], This), Yes', No')
    <3>1. Append(st.batch[s], This) = <<This>> /\ Len(<<This>>) = 1 /\ <<This>>[1] = This
      BY <2>3
    <3> QED
      BY <1>1, <1>2, <3>1 DEF Waiting
  <2>6. AllWaiting(config, mid, Yes', No')
    BY <1>1, <2>3, <2>5, AppendedSound
  <2>7. /\ new \in States
        /\ \A own, accepted : AllOrderly(mid, own, accepted) => AllOrderly(new, own, accepted)
        /\ \A yes, no : AllWaiting(config, mid, yes, no) => AllWaiting(config, new, yes, no)
        /\ Kept(st, Texts') => Kept(new, Texts')
        /\ Limited(config, st) => Limited(config, new)
    BY <1>1, <1>2, <2>3, AddSound
  <2> HIDE DEF mid, new
  <2>8. /\ AllOrderly(new, OwnOf', AcceptedOf') /\ AllWaiting(config, new, Yes', No')
        /\ Kept(new, Texts') /\ Limited(config, new)
    BY <2>3, <2>4, <2>6, <2>7
  <2> QED
    BY <1>1, <1>2, <2>1, <2>7, <2>8, InvFrom DEF RecombineInv
<1> QED
  BY <1>4, <1>5

\* An entry that completes a batch.
LEMMA LastInv ==
  ASSUME RecombineInv, NEW k \in Kinds, ProcessLast(k)
  PROVE  RecombineInv'
<1> DEFINE s   == k.source
           mid == Appended(State, This, s)
           st  == addToBatch(State, This, s)
           new == flushSource(st, s)
<1>1. /\ config' = config /\ kind' \in Seq(AllKinds) /\ s \in AllSources /\ This \in Nat
      /\ This \in Entries' /\ Entries \subseteq Entries'
      /\ Yes \subseteq Yes' /\ No \subseteq No'
  BY TakeEntry DEF RecombineInv, ProcessLast
<1>2. /\ Take(k) /\ config \in AllConfigs /\ State \in States /\ refused \subseteq Entries
      /\ refused' \in {refused, refused \cup {This}} /\ Becomes(new)
  BY DEF ProcessLast, RecombineInv, Typed
<1>3. AllWaiting(config, State, Yes', No')
  BY <1>1, WaitingMore DEF RecombineInv
<1>3a. Kept(State, Texts')
  BY KeptMore DEF ProcessLast
<1>4. AllOrderly(mid, OwnOf', AcceptedOf')
  BY <1>2, AppendedOrderly DEF RecombineInv
<1>5. ~config.matchFirst \/ State.batch[s] = <<>>
  BY DEF ProcessLast, Completes, State
<1> HIDE DEF s
<1>6. State.batch[s] \in Seq(Nat) /\ Len(State.batch[s]) \in Nat
  BY <1>1, <1>2 DEF States
<1>7. ASSUME config.canSet PROVE Intact(config, Append(State.batch[s], This), Yes', No')
  <2> DEFINE b == State.batch[s]
             a == Append(b, This)
  <2>1. /\ Len(a) = Len(b) + 1
        /\ \A i \in 1..Len(b) : a[i] = b[i]
    BY <1>1, <1>6, AppendProperties
  <2>2. Waiting(config, b, Yes', No')
    BY <1>1, <1>3 DEF AllWaiting
  <2> HIDE DEF a, b
  <2>3. Len(b) \in Nat /\ (~config.matchFirst \/ Len(b) = 0)
    BY <1>5, <1>6 DEF b
  <2>4. Intact(config, a, Yes', No')
    BY <1>7, <2>1, <2>2, <2>3 DEF Waiting, Intact
  <2> QED
    BY <2>4 DEF a, b
<1>8. Complete(config, mid, s, Yes', No')
  BY <1>1, <1>2, <1>3, <1>7, AppendedSound
<1>9. /\ st \in States
      /\ \A own, accepted : AllOrderly(mid, own, accepted) => AllOrderly(st, own, accepted)
      /\ \A yes, no : Complete(config, mid, s, yes, no) => Complete(config, st, s, yes, no)
      /\ Kept(State, Texts') => Kept(st, Texts')
      /\ Limited(config, State) => Limited(config, st)
  BY <1>1, <1>2, AddSound
<1> HIDE DEF mid, st
<1>10. /\ AllOrderly(st, OwnOf', AcceptedOf') /\ Complete(config, st, s, Yes', No')
       /\ Kept(st, Texts') /\ Limited(config, st)
  BY <1>3a, <1>4, <1>8, <1>9 DEF RecombineInv
<1>11. /\ new \in States
       /\ \A own, accepted : AllOrderly(st, own, accepted) => AllOrderly(new, own, accepted)
       /\ \A yes, no : Complete(config, st, s, yes, no) => AllWaiting(config, new, yes, no)
       /\ Kept(st, Texts') => Kept(new, Texts')
       /\ Limited(config, st) => Limited(config, new)
  BY <1>1, <1>2, <1>9, FlushSound
<1> HIDE DEF new
<1>12. /\ AllOrderly(new, OwnOf', AcceptedOf') /\ AllWaiting(config, new, Yes', No')
       /\ Kept(new, Texts') /\ Limited(config, new)
  BY <1>10, <1>11
<1>13. refused' \subseteq Entries'
  BY <1>1, <1>2
<1> QED
  BY <1>1, <1>2, <1>11, <1>12, <1>13, InvFrom DEF RecombineInv

\* An entry that continues a record.
LEMMA MiddleInv ==
  ASSUME RecombineInv, NEW k \in Kinds, ProcessMiddle(k)
  PROVE  RecombineInv'
<1> DEFINE s   == k.source
           mid == Appended(State, This, s)
           new == addToBatch(State, This, s)
<1>1. /\ config' = config /\ kind' \in Seq(AllKinds) /\ s \in AllSources /\ This \in Nat
      /\ This \in Entries' /\ Entries \subseteq Entries'
      /\ Yes \subseteq Yes' /\ No \subseteq No' /\ This \in No'
  BY TakeEntry DEF RecombineInv, ProcessMiddle
<1>2. /\ Take(k) /\ config \in AllConfigs /\ State \in States /\ refused \subseteq Entries
      /\ refused' = refused /\ Becomes(new)
  BY DEF ProcessMiddle, RecombineInv, Typed
<1>3. AllWaiting(config, State, Yes', No')
  BY <1>1, WaitingMore DEF RecombineInv
<1>3a. Kept(State, Texts')
  BY KeptMore DEF ProcessMiddle
<1>4. AllOrderly(mid, OwnOf', AcceptedOf')
  BY <1>2, AppendedOrderly DEF RecombineInv
<1>5. ~config.matchFirst \/ State.batch[s] # <<>>
  BY DEF ProcessMiddle, Completes, State
<1> HIDE DEF s
<1>6. State.batch[s] \in Seq(Nat) /\ Len(State.batch[s]) \in Nat
  BY <1>1, <1>2 DEF States
<1>7. Waiting(config, Append(State.batch[s], This), Yes', No')
  <2> DEFINE b == State.batch[s]
             a == Append(b, This)
  <2>1. /\ Len(a) = Len(b) + 1 /\ a[Len(b) + 1] = This
        /\ \A i \in 1..Len(b) : a[i] = b[i]
    BY <1>1, <1>6, AppendProperties
  <2>2. Waiting(config, b, Yes', No')
    BY <1>1, <1>3 DEF AllWaiting
  <2>3. Len(b) \in Nat /\ (~config.matchFirst \/ Len(b) > 0)
    BY <1>5, <1>6
  <2> HIDE DEF a, b
  <2>4. Waiting(config, a, Yes', No')
    BY <1>1, <2>1, <2>2, <2>3 DEF Waiting
  <2> QED
    BY <2>4 DEF a, b
<1>8. AllWaiting(config, mid, Yes', No')
  BY <1>1, <1>2, <1>3, <1>7, AppendedSound
<1>9. /\ new \in States
      /\ \A own, accepted : AllOrderly(mid, own, accepted) => AllOrderly(new, own, accepted)
      /\ \A yes, no : AllWaiting(config, mid, yes, no) => AllWaiting(config, new, yes, no)
      /\ Kept(State, Texts') => Kept(new, Texts')
      /\ Limited(config, State) => Limited(config, new)
  BY <1>1, <1>2, AddSound
<1> HIDE DEF mid, new
<1>10. /\ AllOrderly(new, OwnOf', AcceptedOf') /\ AllWaiting(config, new, Yes', No')
       /\ Kept(new, Texts') /\ Limited(config, new)
  BY <1>3a, <1>4, <1>8, <1>9 DEF RecombineInv
<1>11. refused' \subseteq Entries'
  BY <1>1, <1>2
<1> QED
  BY <1>1, <1>2, <1>9, <1>10, <1>11, InvFrom DEF RecombineInv

\* Nobody takes an entry.
LEMMA NoneTaken ==
  ASSUME kind' = kind, refused' = refused
  PROVE  /\ OwnOf' = OwnOf /\ AcceptedOf' = AcceptedOf /\ Yes' = Yes /\ No' = No
         /\ Entries' = Entries /\ Texts' = Texts
  BY DEF OwnOf, AcceptedOf, Own, Yes, No, Entries, Texts

\* A tick of the flush loop.
LEMMA FlushLoopInv ==
  ASSUME RecombineInv, FlushLoop
  PROVE  RecombineInv'
<1> DEFINE fl(s) == flushSource(State, s)
           new == [batch |-> [s \in AllSources |-> IF Overdue(s) THEN fl(s).batch[s] ELSE batchMap[s]],
                   out |-> [s \in AllSources |-> IF Overdue(s) THEN fl(s).out[s] ELSE written[s]]]
<1>1. /\ config' = config /\ kind' = kind /\ refused' = refused
      /\ config \in AllConfigs /\ kind \in Seq(AllKinds) /\ refused \subseteq Entries
      /\ State \in States /\ State.batch = batchMap /\ State.out = written
      /\ batchMap \in [AllSources -> Seq(Nat)] /\ written \in [AllSources -> Seq(Written)]
  BY DEF FlushLoop, RecombineInv, Typed, State, States
<1>2. /\ OwnOf' = OwnOf /\ AcceptedOf' = AcceptedOf /\ Yes' = Yes /\ No' = No
      /\ Entries' = Entries /\ Texts' = Texts
  BY <1>1, NoneTaken
<1>3. Becomes(new)
  BY DEF FlushLoop, Becomes
<1>4. ASSUME NEW s \in AllSources
      PROVE  /\ fl(s) \in States /\ AllOrderly(fl(s), OwnOf, AcceptedOf)
             /\ AllWaiting(config, fl(s), Yes, No) /\ Kept(fl(s), Texts) /\ Limited(config, fl(s))
  <2>1. Complete(config, State, s, Yes, No)
    BY <1>1, WaitingComplete DEF RecombineInv
  <2>2. /\ fl(s) \in States
        /\ \A own, accepted : AllOrderly(State, own, accepted) => AllOrderly(fl(s), own, accepted)
        /\ \A yes, no : Complete(config, State, s, yes, no) => AllWaiting(config, fl(s), yes, no)
        /\ Kept(State, Texts') => Kept(fl(s), Texts')
        /\ Limited(config, State) => Limited(config, fl(s))
    BY <1>1, FlushSound
  <2> QED
    BY <1>2, <2>1, <2>2 DEF RecombineInv
<1> HIDE DEF fl
<1>5. ASSUME NEW s \in AllSources
      PROVE  \E st \in {State, fl(s)} : new.batch[s] = st.batch[s] /\ new.out[s] = st.out[s]
  <2>1. CASE Overdue(s)
    <3>1. new.batch[s] = fl(s).batch[s] /\ new.out[s] = fl(s).out[s]
      BY <2>1
    <3> QED
      BY <3>1
  <2>2. CASE ~Overdue(s)
    <3>1. new.batch[s] = State.batch[s] /\ new.out[s] = State.out[s]
      BY <1>1, <2>2
    <3> QED
      BY <3>1
  <2> QED
    BY <2>1, <2>2
<1>6. new \in States
  <2>1. ASSUME NEW s \in AllSources
        PROVE  /\ fl(s).batch[s] \in Seq(Nat) /\ fl(s).out[s] \in Seq(Written)
               /\ batchMap[s] \in Seq(Nat) /\ written[s] \in Seq(Written)
    BY <1>1, <1>4 DEF States
  <2>2. [s \in AllSources |-> IF Overdue(s) THEN fl(s).batch[s] ELSE batchMap[s]]
          \in [AllSources -> Seq(Nat)]
    BY <2>1
  <2>3. [s \in AllSources |-> IF Overdue(s) THEN fl(s).out[s] ELSE written[s]]
          \in [AllSources -> Seq(Written)]
    BY <2>1
  <2> QED
    BY <2>2, <2>3 DEF States
<1>7. \A s \in AllSources : new.batch[s] # <<>> => State.batch[s] # <<>>
  <2> SUFFICES ASSUME NEW s \in AllSources, new.batch[s] # <<>>, State.batch[s] = <<>>
               PROVE  FALSE
    OBVIOUS
  <2>1. ~Overdue(s)
    BY <1>1 DEF Overdue
  <2> QED
    BY <1>1, <2>1
<1> HIDE DEF new
<1>8. AllOrderly(new, OwnOf, AcceptedOf)
  <2> SUFFICES ASSUME NEW s \in AllSources
               PROVE  OrderlyAt(new.out[s], new.batch[s], OwnOf[s], AcceptedOf[s])
    BY DEF AllOrderly
  <2>1. AllOrderly(State, OwnOf, AcceptedOf) /\ AllOrderly(fl(s), OwnOf, AcceptedOf)
    BY <1>4 DEF RecombineInv
  <2> QED
    BY <1>5, <2>1 DEF AllOrderly
<1>9. AllWaiting(config, new, Yes, No)
  <2>1. ASSUME NEW s \in AllSources
        PROVE  /\ Waiting(config, new.batch[s], Yes, No)
               /\ \A g \in 1..Len(new.out[s]) : Intact(config, new.out[s][g].from, Yes, No)
    <3>1. AllWaiting(config, State, Yes, No) /\ AllWaiting(config, fl(s), Yes, No)
      BY <1>4 DEF RecombineInv
    <3> QED
      BY <1>5, <3>1 DEF AllWaiting, WrittenIntact
  <2> QED
    BY <2>1 DEF AllWaiting, WrittenIntact
<1>10. Limited(config, new)
  <2>1. Limited(config, State)
    BY DEF RecombineInv
  <2>2. Batched(new) \subseteq Batched(State)
    BY <1>7 DEF Batched
  <2>3. /\ IsFiniteSet(Batched(new)) /\ Cardinality(Batched(new)) <= Cardinality(Batched(State))
        /\ Cardinality(Batched(new)) \in Nat /\ Cardinality(Batched(State)) \in Nat
    BY <2>1, <2>2, FS_Subset, FS_CardinalityType DEF Limited
  <2>4. Cardinality(Batched(new)) < MaxSources
    BY <2>1, <2>3, RecombineAssumption DEF Limited
  <2>5. ASSUME config.canSet, NEW s \in AllSources PROVE Len(new.batch[s]) < BatchLimit
    BY <1>4, <1>5, <2>1, <2>5 DEF Limited
  <2> QED
    BY <2>3, <2>4, <2>5 DEF Limited
<1>11. Kept(new, Texts)
  <2>1. ASSUME NEW s \in AllSources
        PROVE  \A g \in 1..Len(new.out[s]) : Keeps(new.out[s][g], Texts)
    <3>1. Kept(State, Texts) /\ Kept(fl(s), Texts)
      BY <1>4 DEF RecombineInv
    <3> QED
      BY <1>5, <3>1 DEF Kept
  <2> QED
    BY <2>1 DEF Kept
<1> QED
  BY <1>1, <1>2, <1>3, <1>6, <1>8, <1>9, <1>10, <1>11, InvFrom DEF RecombineInv

\* Stop writes every batch.
LEMMA StopInv ==
  ASSUME RecombineInv, Stop
  PROVE  RecombineInv'
<1> DEFINE new == flushUncombined(State)
<1>1. /\ config' = config /\ kind' = kind /\ refused' = refused
      /\ kind \in Seq(AllKinds) /\ refused \subseteq Entries /\ State \in States
      /\ Becomes(new) /\ AllOrderly(State, OwnOf, AcceptedOf)
      /\ WrittenIntact(config, State, Yes, No) /\ Kept(State, Texts)
  BY DEF Stop, RecombineInv, Typed, AllWaiting
<1>2. /\ OwnOf' = OwnOf /\ AcceptedOf' = AcceptedOf /\ Yes' = Yes /\ No' = No
      /\ Entries' = Entries /\ Texts' = Texts
  BY <1>1, NoneTaken
<1>3. /\ new \in States
      /\ \A own, accepted : AllOrderly(State, own, accepted) => AllOrderly(new, own, accepted)
      /\ \A yes, no : WrittenIntact(config, State, yes, no) => AllWaiting(config, new, yes, no)
      /\ \A texts : Kept(State, texts) => Kept(new, texts)
      /\ Limited(config, new)
  BY <1>1, UncombinedSound
<1> HIDE DEF new
<1>4. /\ AllOrderly(new, OwnOf, AcceptedOf) /\ AllWaiting(config, new, Yes, No)
      /\ Kept(new, Texts)
  BY <1>1, <1>3
<1> QED
  BY <1>1, <1>2, <1>3, <1>4, InvFrom DEF RecombineInv

\* Nothing changes but the age of entries.
LEMMA SameInv ==
  ASSUME RecombineInv, UNCHANGED <<config, kind, batchMap, written, refused>>
  PROVE  RecombineInv'
<1>1. State' = State /\ config' = config /\ kind' = kind /\ refused' = refused
  BY DEF State
<1>2. /\ OwnOf' = OwnOf /\ AcceptedOf' = AcceptedOf /\ Yes' = Yes /\ No' = No
      /\ Entries' = Entries /\ Texts' = Texts
  BY <1>1, NoneTaken
<1> QED
  BY <1>1, <1>2 DEF RecombineInv, Typed

\* Nothing has been taken when the operator starts.
LEMMA InitInv ==
  ASSUME Init
  PROVE  RecombineInv
<1>1. /\ config \in AllConfigs /\ kind = <<>> /\ refused = {} /\ Len(kind) = 0
      /\ batchMap = [s \in AllSources |-> <<>>] /\ written = [s \in AllSources |-> <<>>]
  BY RecombineAssumption DEF Init
<1>2. Typed
  <2>1. kind \in Seq(AllKinds) /\ refused \subseteq Entries
    BY <1>1
  <2>2. batchMap \in [AllSources -> Seq(Nat)] /\ written \in [AllSources -> Seq(Written)]
    BY <1>1
  <2> QED
    BY <1>1, <2>1, <2>2 DEF Typed, State, States
<1>3. ASSUME NEW s \in AllSources
      PROVE  /\ State.batch[s] = <<>> /\ State.out[s] = <<>> /\ Len(State.batch[s]) = 0
             /\ Len(State.out[s]) = 0 /\ OwnOf[s] = {} /\ AcceptedOf[s] = {}
  <2>1. State.batch[s] = <<>> /\ State.out[s] = <<>> /\ Len(<<>>) = 0
    BY <1>1 DEF State
  <2>2. OwnOf[s] = {} /\ AcceptedOf[s] = {}
    BY <1>1 DEF OwnOf, AcceptedOf, Own, Entries
  <2> QED
    BY <2>1, <2>2
<1>4. AllOrderly(State, OwnOf, AcceptedOf)
  <2> SUFFICES ASSUME NEW s \in AllSources
               PROVE  OrderlyAt(State.out[s], State.batch[s], OwnOf[s], AcceptedOf[s])
    BY DEF AllOrderly
  <2>1. ASSUME NEW g, NEW i PROVE ~Place(State.out[s], State.batch[s], g, i)
    BY <1>3 DEF Place, Group
  <2> QED
    BY <1>3, <2>1 DEF OrderlyAt
<1>5. AllWaiting(config, State, Yes, No)
  BY <1>3 DEF AllWaiting, WrittenIntact, Waiting
<1>6. Limited(config, State)
  <2>1. Batched(State) = {}
    BY <1>3 DEF Batched
  <2>2. \A s \in AllSources : Len(State.batch[s]) < BatchLimit
    BY <1>3, RecombineAssumption DEF BatchLimit
  <2> QED
    BY <2>1, <2>2, FS_EmptySet, RecombineAssumption DEF Limited
<1>7. Kept(State, Texts)
  BY <1>3 DEF Kept
<1> QED
  BY <1>2, <1>4, <1>5, <1>6, <1>7 DEF RecombineInv

-----------------------------------------------------------------------------
(* The theorems *)

\* Every step preserves the inductive invariant.
LEMMA StepInv ==
  ASSUME RecombineInv, [Next]_vars
  PROVE  RecombineInv'
<1>1. ASSUME NEW k \in Kinds, Process(k) PROVE RecombineInv'
  BY <1>1, ErrorInv, FirstInv, LastInv, MiddleInv DEF Process
<1>2. ASSUME NEW e \in Entries, Expire(e) PROVE RecombineInv'
  BY <1>2, SameInv DEF Expire
<1>3. CASE FlushLoop
  BY <1>3, FlushLoopInv
<1>4. CASE Stop
  BY <1>4, StopInv
<1>5. CASE UNCHANGED vars
  BY <1>5, SameInv DEF vars
<1> QED
  BY <1>1, <1>2, <1>3, <1>4, <1>5 DEF Next

\* The inductive invariant holds in every state of every behaviour of the
\* operator.
THEOREM RecombineInvCorrect == Spec => []RecombineInv
<1>1. Init => RecombineInv
  BY InitInv
<1>2. RecombineInv /\ [Next]_vars => RecombineInv'
  BY StepInv
<1> QED
  BY <1>1, <1>2, PTL DEF Spec

\* The text of no entry that Process accepted is lost, written twice or overtaken
\* by that of a later entry of its source, unless the entry has no combine_field
\* and was combined, for every number of entries and sources, every max_batch_size
\* and max_sources and every configuration: whichever of a matching entry, the
\* size, the number of sources, the flush loop and Stop flushes the batch.
THEOREM NothingLostCorrect == Spec => []NothingLost
<1>1. ASSUME RecombineInv, NEW s \in AllSources
      PROVE  /\ Orderly(written[s], batchMap[s], Own(s),
                        Own(s) \ (refused \cup Dropped(written[s])))
             /\ \A e \in Dropped(written[s]) : ~kind[e].text
  <2>1. OwnOf[s] = Own(s) /\ AcceptedOf[s] = Own(s) \ refused
    BY DEF OwnOf, AcceptedOf
  <2>2. OrderlyAt(written[s], batchMap[s], Own(s), Own(s) \ refused)
    BY <1>1, <2>1 DEF RecombineInv, AllOrderly, State
  <2>3. written[s] \in Seq(Written) /\ batchMap[s] \in Seq(Nat)
    BY <1>1 DEF RecombineInv, Typed, State, States
  <2>4. \A g \in 1..Len(written[s]) : Keeps(written[s][g], Texts)
    BY <1>1 DEF RecombineInv, Kept, State
  <2>5. Orderly(written[s], batchMap[s], Own(s), (Own(s) \ refused) \ Dropped(written[s]))
    BY <2>2, <2>3, <2>4, OrderlyTexts DEF Keeps
  <2>6. (Own(s) \ refused) \ Dropped(written[s]) = Own(s) \ (refused \cup Dropped(written[s]))
    OBVIOUS
  <2>7. ASSUME NEW e \in Dropped(written[s]) PROVE ~kind[e].text
    <3>1. PICK w \in Range(written[s]) : e \in {w.from[i] : i \in DOMAIN w.from \ w.text}
      BY DEF Dropped
    <3>2. PICK i \in DOMAIN w.from \ w.text : e = w.from[i]
      BY <3>1
    <3>3. PICK g \in 1..Len(written[s]) : w = written[s][g]
      BY <2>3 DEF Range
    <3>4. w.from \in Seq(Nat) /\ i \in 1..Len(w.from)
      <4>1. w \in Written
        BY <2>3, <3>3
      <4>2. w.from \in Seq(Nat)
        BY <4>1 DEF Written
      <4>3. DOMAIN w.from = 1..Len(w.from)
        BY <4>2
      <4> QED
        BY <4>2, <4>3
    <3>5. e \notin Texts
      BY <2>4, <3>2, <3>3, <3>4 DEF Keeps
    <3>6. g \in 1..(Len(written[s]) + 1) /\ g <= Len(written[s])
      BY <2>3
    <3>7. /\ Place(written[s], batchMap[s], g, i)
          /\ Group(written[s], batchMap[s], g)[i] = e
      BY <3>2, <3>3, <3>4, <3>6 DEF Place, Group
    <3>8. e \in Own(s)
      BY <2>2, <3>7 DEF OrderlyAt
    <3> QED
      BY <3>5, <3>8 DEF Own, Texts
  <2> QED
    BY <2>5, <2>6, <2>7
<1>2. RecombineInv => NothingLost
  BY <1>1 DEF NothingLost
<1> QED
  BY <1>2, RecombineInvCorrect, PTL

\* What is written is made of entries of one record, and batches stay within
\* max_batch_size and max_sources, unless combine_field cannot be set.
THEOREM BatchesSoundCorrect == Spec => []BatchesSound
<1>1. RecombineInv => RecordsIntact
  <2> SUFFICES ASSUME RecombineInv, NEW s \in AllSources, NEW w \in Range(written[s])
               PROVE  LET inside == IF config.matchFirst THEN 2..Len(w.from)
                                                         ELSE 1..(Len(w.from) - 1)
                      IN  /\ \A i \in inside : kind[w.from[i]].match = "no"
                          /\ config.matchFirst /\ Len(w.from) > 1
                               => kind[w.from[1]].match = "yes"
    BY DEF RecordsIntact
  <2>1. written[s] \in Seq(Written)
    BY DEF RecombineInv, Typed, State, States
  <2>2. PICK g \in 1..Len(written[s]) : w = written[s][g]
    BY <2>1 DEF Range
  <2>3. Intact(config, w.from, Yes, No)
    BY <2>2 DEF RecombineInv, AllWaiting, WrittenIntact, State
  <2> QED
    BY <2>3 DEF Intact, Yes, No
<1>2. RecombineInv => Bounded
  BY DEF RecombineInv, Limited, Bounded, BatchLimit, State
<1>3. RecombineInv => BatchesSound
  BY <1>1, <1>2 DEF BatchesSound
<1> QED
  BY <1>3, RecombineInvCorrect, PTL

=============================================================================
