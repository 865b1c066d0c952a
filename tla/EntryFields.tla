----------------------------- MODULE EntryFields -----------------------------
(***************************************************************************)
(* An entry's body, attributes and resource, the fields that address them, *)
(* and the transformers move, copy, add, remove, retain and flatten.       *)
(*                                                                         *)
(* Go maps are references, so the entry is modelled as a heap of maps: a   *)
(* value is a leaf or a reference, and what one transformer leaves shared  *)
(* another one changes in two places.  Beside it runs the reference, in    *)
(* which an entry is the set of its paths and nothing can be shared.       *)
(*                                                                         *)
(* Abstraction.  Timestamps, severity, lists and expressions are left out; *)
(* add with an expression that names a field is copy.                      *)
(***************************************************************************)
EXTENDS Integers, Sequences, FiniteSets, SequencesExt

CONSTANTS
  Keys,         \* keys of maps
  Fields,       \* fields of the configuration: <<group, key, ...>>
  Bodies,       \* bodies of new entries, as sets of paths
  AddValues,    \* values add is configured with, as sets of paths
  MaxSteps      \* bound: transformers an entry passes

VARIABLES
  heap,      \* the maps: a function from addresses to functions from keys
  entry,     \* the value of each group
  tree,      \* the same entry, as the set of its paths
  shared,    \* a map has been reachable in two ways
  steps

vars == <<heap, entry, tree, shared, steps>>

Groups == {"body", "attributes", "resource"}

Leaf(x) == [leaf |-> x]
Ref(a) == [ref |-> a]
Nil == Leaf("nil")
IsMap(v) == "ref" \in DOMAIN v
NoKeys == [k \in {} |-> Nil]

-----------------------------------------------------------------------------
(* Fields: operations on a record [heap, entry] *)

Fresh(h) == CHOOSE a \in 1..(Cardinality(DOMAIN h) + 1) : a \notin DOMAIN h

Put(h, a, m) == [b \in DOMAIN h \cup {a} |-> IF b = a THEN m ELSE h[b]]

PutKey(m, k, v) == [j \in DOMAIN m \cup {k} |-> IF j = k THEN v ELSE m[j]]

\* Mutant: a value that is not a map is kept, and what follows hangs off a map
\* nothing refers to.
MutGetNestedMap(s, k) ==
  LET m == s.heap[s.at] IN
  IF k \in DOMAIN m /\ IsMap(m[k])
  THEN [s EXCEPT !.at = m[k].ref]
  ELSE LET a == Fresh(s.heap) IN
       [heap |-> IF k \in DOMAIN m THEN Put(s.heap, a, NoKeys)
                 ELSE Put(Put(s.heap, a, NoKeys), s.at, PutKey(m, k, Ref(a))),
        at |-> a]

\* The map under key k of the map at s.at; any other value makes way for one.
getNestedMap(s, k) ==
  LET m == s.heap[s.at] IN
  IF k \in DOMAIN m /\ IsMap(m[k])
  THEN [s EXCEPT !.at = m[k].ref]
  ELSE LET a == Fresh(s.heap)
       IN  [heap |-> Put(Put(s.heap, a, NoKeys), s.at, PutKey(m, k, Ref(a))), at |-> a]

\* The map of a group, made if there is none.
RootMap(e, g) ==
  IF IsMap(e.entry[g]) THEN e
  ELSE LET a == Fresh(e.heap)
       IN  [heap |-> Put(e.heap, a, NoKeys), entry |-> [e.entry EXCEPT ![g] = Ref(a)]]

Descend(e, f) ==
  FoldLeft(getNestedMap, [heap |-> e.heap, at |-> e.entry[f[1]].ref], Tail(f))

\* Mutant: the map itself takes the place of a map that was not there.
MutMerge(e, f, a) ==
  IF Len(f) = 1 THEN [e EXCEPT !.entry[f[1]] = Ref(a)]
  ELSE LET s == Descend(RootMap(e, f[1]), Front(f)) IN
       [heap |-> Put(s.heap, s.at, PutKey(s.heap[s.at], Last(f), Ref(a))),
        entry |-> RootMap(e, f[1]).entry]

\* The keys of the map at a are written over those of the map at f.
Merge(e, f, a) ==
  LET r == RootMap(e, f[1])
      s == Descend(r, f)
      m == s.heap[a]
      n == s.heap[s.at]
  IN  [heap |-> Put(s.heap, s.at,
                    [k \in DOMAIN m \cup DOMAIN n |-> IF k \in DOMAIN m THEN m[k] ELSE n[k]]),
       entry |-> r.entry]

Set(e, f, v) ==
  IF IsMap(v) THEN Merge(e, f, v.ref)
  ELSE IF Len(f) = 1 THEN [e EXCEPT !.entry[f[1]] = v]
  ELSE LET r == RootMap(e, f[1])
           s == Descend(r, Front(f))
       IN  [heap |-> Put(s.heap, s.at, PutKey(s.heap[s.at], Last(f), v)), entry |-> r.entry]

\* The values at f: one, or none.
Get(e, f) ==
  FoldLeft(LAMBDA vs, k :
             {e.heap[v.ref][k] : v \in {w \in vs : IsMap(w) /\ k \in DOMAIN e.heap[w.ref]}},
           {e.entry[f[1]]}, Tail(f))

Exists(e, f) == Get(e, f) # {}
Value(e, f) == CHOOSE v \in Get(e, f) : TRUE

Delete(e, f) ==
  IF Len(f) = 1 THEN [e EXCEPT !.entry[f[1]] = Nil]
  ELSE LET a == Value(e, Front(f)).ref
           m == e.heap[a]
       IN  [e EXCEPT !.heap = Put(@, a, [k \in DOMAIN m \ {Last(f)} |-> m[k]])]

-----------------------------------------------------------------------------
(* Paths: the reference *)

\* An entry, or a value, is a set of pairs of a path and a leaf; an empty map
\* is a leaf of its own.
Empty == Leaf("{}")

Below(T, p) == {x \in T : IsPrefix(p, x[1])}

\* The value at p, with paths relative to p.
At(T, p) == {<<SubSeq(x[1], Len(p) + 1, Len(x[1])), x[2]>> : x \in Below(T, p)}

IsMapValue(V) == \A x \in V : x[1] # <<>> \/ x[2] = Empty

\* Maps on the way to p take the place of anything else.
Cleared(T, p) == T \ {x \in T : IsPrefix(x[1], p) \/ IsPrefix(p, x[1])}

Placed(T, p, V) == Cleared(T, p) \cup {<<p \o x[1], x[2]>> : x \in V}

Children(V) == {x[1][1] : x \in {y \in V : y[1] # <<>>}}

\* A map is written key by key, any other value as it is.
Written(T, p, V) ==
  LET map == {x \in T : IsPrefix(p, x[1]) /\ x[1] # p}
  IN  IF ~IsMapValue(V) THEN Placed(T, p, V)
      ELSE IF Children(V) = {} /\ map # {} THEN T
      ELSE IF Children(V) = {} THEN Placed(T, p, V)
      ELSE FoldLeft(LAMBDA U, k : Placed(U, Append(p, k), At(V, <<k>>)), T,
                    SetToSeq(Children(V)))

Removed(T, p) ==
  LET U == T \ Below(T, p)
      parent == Front(p)
  IN  IF Len(p) = 1 THEN U \cup {<<p, Nil>>}
      ELSE IF Below(U, parent) = {} THEN U \cup {<<parent, Empty>>} ELSE U

Has(T, p) == Below(T, p) # {}

-----------------------------------------------------------------------------
(* The entry's paths, and what is shared *)

RECURSIVE Paths(_, _)
Paths(h, v) ==
  IF ~IsMap(v) THEN {<<<<>>, v>>}
  ELSE IF DOMAIN h[v.ref] = {} THEN {<<<<>>, Empty>>}
  ELSE UNION {{<<<<k>> \o x[1], x[2]>> : x \in Paths(h, h[v.ref][k])} : k \in DOMAIN h[v.ref]}

EntryPaths(e) ==
  UNION {{<<<<g>> \o x[1], x[2]>> : x \in Paths(e.heap, e.entry[g])} : g \in Groups}

Refs(m) == {m[k].ref : k \in {j \in DOMAIN m : IsMap(m[j])}}

RECURSIVE Reach(_, _)
Reach(h, A) ==
  LET B == A \cup UNION {Refs(h[a]) : a \in A} IN IF B = A THEN A ELSE Reach(h, B)

\* A value of the configuration or of an input, from its paths.
RECURSIVE Build(_, _)
Build(h, V) ==
  IF ~IsMapValue(V) THEN [heap |-> h, value |-> (CHOOSE x \in V : TRUE)[2]]
  ELSE LET a == Fresh(h)
           add(s, k) ==
             LET t == Build(s, At(V, <<k>>))
             IN  Put(t.heap, a, PutKey(t.heap[a], k, t.value))
       IN  [heap |-> FoldLeft(add, Put(h, a, NoKeys), SetToSeq(Children(V))),
            value |-> Ref(a)]

\* The values add was configured with: every entry is given the same ones.
Configured ==
  LET build(c, V) ==
        LET b == Build(c.heap, V) IN [heap |-> b.heap, value |-> Put(c.value, V, b.value)]
  IN  FoldLeft(build, [heap |-> NoKeys, value |-> NoKeys], SetToSeq(AddValues))

\* The maps of the entry and of the configuration.
Live(e) == Reach(e.heap, Refs(e.entry) \cup Refs(Configured.value))

\* Two keys, or two values of the entry or of the configuration, lead to one
\* map.
Sharing(e) ==
  LET held == {<<a, k>> \in Live(e) \X Keys :
                 k \in DOMAIN e.heap[a] /\ IsMap(e.heap[a][k])}
      roots == {g \in Groups : IsMap(e.entry[g])}
      values == {V \in AddValues : IsMap(Configured.value[V])}
  IN  Cardinality(held) + Cardinality(roots) + Cardinality(values) > Cardinality(Live(e))

\* What nothing refers to is collected.
Collected(e) == [a \in Live(e) |-> e.heap[a]]

-----------------------------------------------------------------------------
Init ==
  \E V \in Bodies :
    LET b == Build(Configured.heap, V) IN
    /\ heap = b.heap
    /\ entry = [g \in Groups |-> IF g = "body" THEN b.value ELSE Nil]
    /\ tree = {<<<<"body">> \o x[1], x[2]>> : x \in V}
              \cup {<<<<"attributes">>, Nil>>, <<<<"resource">>, Nil>>}
    /\ shared = FALSE /\ steps = 0

-----------------------------------------------------------------------------
(* Transformers *)

This == [heap |-> heap, entry |-> entry]

\* The transformer has made e of the entry; the reference says T.
Transformed(e, T) ==
  /\ steps < MaxSteps /\ steps' = steps + 1
  /\ heap' = Collected(e) /\ entry' = e.entry
  /\ shared' = (shared \/ Sharing(e))
  /\ tree' = IF shared' THEN {} ELSE T

\* An error: HandleEntryError passes the entry on.
Failed(e) == Transformed(e, tree)

Move(from, to) ==
  IF Exists(This, from)
  THEN Transformed(Set(Delete(This, from), to, Value(This, from)),
                   Written(Removed(tree, from), to, At(tree, from)))
  ELSE Failed(This)

Copy(from, to) ==
  IF Exists(This, from)
  THEN Transformed(Set(This, to, Value(This, from)), Written(tree, to, At(tree, from)))
  ELSE Failed(This)

Add(f, V) == Transformed(Set(This, f, Configured.value[V]), Written(tree, f, V))

RemoveField(f) ==
  IF Exists(This, f) THEN Transformed(Delete(This, f), Removed(tree, f)) ELSE Failed(This)

RemoveAll(g) == Transformed([This EXCEPT !.entry[g] = Nil], Removed(tree, <<g>>))

\* The groups none of whose fields retain names are kept whole.
Kept(fs) == {g \in Groups : \A i \in DOMAIN fs : fs[i][1] # g}

Retain(fs) ==
  LET new == [heap |-> heap, entry |-> [g \in Groups |-> IF g \in Kept(fs) THEN entry[g] ELSE Nil]]
      set(e, f) ==
        LET old == [heap |-> e.heap, entry |-> entry]
        IN  IF Exists(old, f) THEN Set(e, f, Value(old, f)) ELSE e
      T == {x \in tree : x[1][1] \in Kept(fs)} \cup {<<<<g>>, Nil>> : g \in Groups \ Kept(fs)}
      write(U, f) == IF Has(tree, f) THEN Written(U, f, At(tree, f)) ELSE U
  IN  Transformed(FoldLeft(set, new, fs), FoldLeft(write, T, fs))

Parent(f) == IF Len(f) = 1 THEN f ELSE Front(f)

\* Every key of the map at f is written beside f, in the parent.
Flatten(f) ==
  LET v == Value(This, f)
      e == Delete(This, f)
      lift(d, k) == Set(d, Append(Parent(f), k), d.heap[v.ref][k])
      write(U, k) == Written(U, Append(Parent(f), k), At(tree, Append(f, k)))
      ks == SetToSeq(DOMAIN heap[v.ref])
  IN  /\ f[1] = "body"
      /\ IF ~Exists(This, f) THEN Failed(This)
         ELSE IF ~IsMap(v) THEN Failed(Set(e, f, v))
         ELSE Transformed(FoldLeft(lift, e, ks), FoldLeft(write, Removed(tree, f), ks))

Next ==
  \/ \E f, g \in Fields : Move(f, g) \/ Copy(f, g) \/ Retain(<<f, g>>)
  \/ \E f \in Fields : RemoveField(f) \/ Flatten(f) \/ \E V \in AddValues : Add(f, V)
  \/ \E g \in Groups \ {"body"} : RemoveAll(g)

Spec == Init /\ [][Next]_vars

-----------------------------------------------------------------------------
\* Until a map is shared, an entry that has passed any transformers in any
\* order is what the reference says: a value is replaced whole, everything
\* else is kept, a transformer that fails changes nothing (flatten puts back
\* what it took), and the values add is configured with stay what they were.
MatchesReference ==
  \/ shared
  \/ /\ EntryPaths(This) = tree
     /\ \A V \in AddValues : Paths(heap, Configured.value[V]) = V

HoldsMap(v) == IsMap(v) /\ Refs(heap[v.ref]) # {}

\* Two paths come to lead to one map, so that a later change of one shows at
\* the other, only if copy or add writes a map that holds maps, or if copy
\* writes a map into one of its own keys, which makes the entry cyclic.  No
\* other transformer, and no copy of a map of plain values, shares anything.
SharedByCopy ==
  [][~shared /\ shared' =>
       \/ \E f, g \in Fields :
            Copy(f, g) /\ (IsStrictPrefix(f, g) \/ \E v \in Get(This, f) : HoldsMap(v))
       \/ \E f \in Fields, V \in AddValues : Add(f, V) /\ HoldsMap(Configured.value[V])]_vars

=============================================================================
