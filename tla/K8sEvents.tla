------------------------------ MODULE K8sEvents ------------------------------
(***************************************************************************)
(* The k8s_event_input operator: one goroutine for each namespace watches  *)
(* its events, another looks for new namespaces at an interval.  A watch   *)
(* that cannot be opened ends its goroutine and removes the namespace from *)
(* the list, so that it may be found again.                                *)
(*                                                                         *)
(* Abstraction.  Goroutines that watch a namespace are counted.  What is   *)
(* written of an event is left out: a watch that is open delivers.         *)
(***************************************************************************)
EXTENDS Integers, Sequences, SequencesExt

CONSTANTS
  Namespaces,     \* names, as numbers
  Configs,        \* the operator's fields and the cluster it starts in
  MaxChanges      \* bound: changes of the cluster

VARIABLES
  discover,      \* discoverNamespaces
  namespaces,    \* k.namespaces
  ranged,        \* the array behind the slice Start ranges over
  turn,          \* Start's next index in it
  life,          \* "stopped", "starting", "running", "stopping", "ended"
  opening,       \* for each namespace, goroutines about to call Watch
  watching,      \* for each namespace, goroutines in consumeWatchEvents
  finder,        \* where the goroutine of startFindingNamespaces is
  found,         \* namespaces it has listed and not looked at
  cluster,       \* namespaces that exist
  refused,       \* namespaces whose events may not be watched now
  changes,
  shifted        \* a namespace was removed while Start ranged over the list

world == <<cluster, refused, changes>>
list == <<namespaces, ranged, shifted>>
finding == <<finder, found>>
vars == <<discover, list, turn, life, opening, watching, finding, world>>

NoGoroutine == [ns \in Namespaces |-> 0]

Init ==
  /\ \E c \in Configs :
       discover = c.discover /\ namespaces = c.namespaces /\ cluster = c.cluster
  /\ ranged = <<>> /\ turn = 1 /\ life = "stopped"
  /\ opening = NoGoroutine /\ watching = NoGoroutine
  /\ finder = "none" /\ found = <<>>
  /\ refused = {} /\ changes = 0 /\ shifted = FALSE

-----------------------------------------------------------------------------
(* The cluster *)

Change(ns) ==
  /\ changes < MaxChanges /\ changes' = changes + 1
  /\ \/ cluster' = SymDiff(cluster, {ns}) /\ UNCHANGED refused
     \/ refused' = SymDiff(refused, {ns}) /\ UNCHANGED cluster
  /\ UNCHANGED <<discover, list, turn, life, opening, watching, finding>>

-----------------------------------------------------------------------------
(* Start *)

\* How the API lists some namespaces: in order, each once.
Listings(some) ==
  {s \in SetToSeqs(some) : \A i, j \in DOMAIN s : i < j => s[i] < s[j]}

listNamespaces == Listings(cluster)

\* Mutant: a namespace is taken for new whenever it is found.
MutHasNamespace(ns) == FALSE

hasNamespace(ns) == \E i \in DOMAIN namespaces : namespaces[i] = ns

\* What is listed and not known yet, in the order of the list.
addNamespaces ==
  \E new \in Listings({ns \in cluster : ~hasNamespace(ns)}) :
    namespaces' = namespaces \o new

Listed ==
  IF discover THEN addNamespaces ELSE UNCHANGED namespaces

TestFails == namespaces' # <<>> /\ Head(namespaces') \in refused

\* Up to the test of the connection no goroutine runs.
Start ==
  /\ life = "stopped"
  /\ Listed /\ ~TestFails
  /\ ranged' = namespaces' /\ turn' = 1
  /\ life' = "starting"
  /\ UNCHANGED <<discover, shifted, opening, watching, finding, world>>

StartFails ==
  /\ life = "stopped"
  /\ Listed /\ TestFails
  /\ life' = "ended"
  /\ UNCHANGED <<discover, ranged, shifted, turn, opening, watching, finding, world>>

startWatchingNamespace(ns) == opening' = [opening EXCEPT ![ns] = @ + 1]

\* One turn of the loop, which reads the array without the lock.
StartWatching ==
  /\ life = "starting" /\ turn <= Len(ranged)
  /\ startWatchingNamespace(ranged[turn])
  /\ turn' = turn + 1
  /\ UNCHANGED <<discover, list, life, watching, finding, world>>

startFindingNamespaces == finder' = IF discover THEN "waiting" ELSE "none"

Started ==
  /\ life = "starting" /\ turn > Len(ranged)
  /\ startFindingNamespaces
  /\ life' = "running"
  /\ UNCHANGED <<discover, list, turn, opening, watching, found, world>>

-----------------------------------------------------------------------------
(* The goroutine of a namespace *)

\* Mutant: the namespace stays in the list.
MutRemoveNamespace(ns) == UNCHANGED <<namespaces, ranged>>

\* The elements after ns move up in the array; its last one stays.
removeNamespace(ns) ==
  LET at == CHOOSE i \in DOMAIN namespaces :
              namespaces[i] = ns /\ \A j \in 1..(i - 1) : namespaces[j] # ns
  IN  IF hasNamespace(ns)
      THEN /\ namespaces' = RemoveAt(namespaces, at)
           /\ ranged' = [i \in DOMAIN ranged |->
                IF i <= Len(namespaces') THEN namespaces'[i] ELSE ranged[i]]
      ELSE UNCHANGED <<namespaces, ranged>>

WatchOpens(ns) ==
  /\ opening[ns] > 0 /\ ns \notin refused /\ life # "stopping"
  /\ opening' = [opening EXCEPT ![ns] = @ - 1]
  /\ watching' = [watching EXCEPT ![ns] = @ + 1]
  /\ UNCHANGED <<discover, list, turn, life, finding, world>>

\* A cancelled context fails the call, too.
WatchFails(ns) ==
  /\ opening[ns] > 0 /\ (ns \in refused \/ life = "stopping")
  /\ opening' = [opening EXCEPT ![ns] = @ - 1]
  /\ removeNamespace(ns)
  /\ shifted' = (shifted \/ life = "starting")
  /\ UNCHANGED <<discover, turn, life, watching, finding, world>>

\* The API server closes the channel of a watch now and then.  An error event before
\* that, whose object is no Event, is left out: the type assertion panics, and the
\* process ends.
ChannelClosed(ns) ==
  /\ watching[ns] > 0
  /\ watching' = [watching EXCEPT ![ns] = @ - 1]
  /\ opening' = [opening EXCEPT ![ns] = @ + 1]
  /\ UNCHANGED <<discover, list, turn, life, finding, world>>

WatchDone(ns) ==
  /\ life = "stopping"
  /\ \/ /\ opening[ns] > 0
        /\ opening' = [opening EXCEPT ![ns] = @ - 1]
        /\ UNCHANGED watching
     \/ /\ watching[ns] > 0
        /\ watching' = [watching EXCEPT ![ns] = @ - 1]
        /\ UNCHANGED opening
  /\ UNCHANGED <<discover, list, turn, life, finding, world>>

-----------------------------------------------------------------------------
(* The goroutine of startFindingNamespaces *)

\* The interval has passed; with a cancelled context the call fails.
Find ==
  /\ finder = "waiting" /\ life = "running"
  /\ found' \in listNamespaces
  /\ finder' = "looking"
  /\ UNCHANGED <<discover, list, turn, life, opening, watching, world>>

FindKnown ==
  /\ finder = "looking" /\ found # <<>> /\ hasNamespace(Head(found))
  /\ found' = Tail(found)
  /\ UNCHANGED <<discover, list, turn, life, opening, watching, finder, world>>

FindNew ==
  /\ finder = "looking" /\ found # <<>> /\ ~hasNamespace(Head(found))
  /\ namespaces' = Append(namespaces, Head(found))
  /\ finder' = "starting"
  /\ UNCHANGED <<discover, ranged, shifted, turn, life, opening, watching, found, world>>

FindStart ==
  /\ finder = "starting"
  /\ startWatchingNamespace(Head(found))
  /\ found' = Tail(found) /\ finder' = "looking"
  /\ UNCHANGED <<discover, list, turn, life, watching, world>>

FindEnd ==
  /\ finder = "looking" /\ found = <<>>
  /\ finder' = "waiting"
  /\ UNCHANGED <<discover, list, turn, life, opening, watching, found, world>>

FindDone ==
  /\ finder = "waiting" /\ life = "stopping"
  /\ finder' = "none"
  /\ UNCHANGED <<discover, list, turn, life, opening, watching, found, world>>

-----------------------------------------------------------------------------
(* Stop *)

Cancel ==
  /\ life = "running"
  /\ life' = "stopping"
  /\ UNCHANGED <<discover, list, turn, opening, watching, finding, world>>

\* wg.Wait returns.
Stop ==
  /\ life = "stopping"
  /\ opening = NoGoroutine /\ watching = NoGoroutine /\ finder = "none"
  /\ life' = "ended"
  /\ UNCHANGED <<discover, list, turn, opening, watching, finding, world>>

-----------------------------------------------------------------------------
Watcher(ns) == WatchOpens(ns) \/ WatchFails(ns) \/ WatchDone(ns)

Finder == Find \/ FindKnown \/ FindNew \/ FindStart \/ FindEnd \/ FindDone

Starter == StartWatching \/ Started

Next ==
  \/ Start \/ StartFails \/ Starter \/ Finder \/ Cancel \/ Stop
  \/ \E ns \in Namespaces : Watcher(ns) \/ ChannelClosed(ns) \/ Change(ns)

\* Goroutines run; the interval passes.  The cluster owes nothing.
Fairness ==
  /\ WF_vars(Starter) /\ WF_vars(Finder) /\ WF_vars(Stop)
  /\ \A ns \in Namespaces : WF_vars(Watcher(ns))

Spec == Init /\ [][Next]_vars /\ Fairness

-----------------------------------------------------------------------------
Goroutines(ns) == opening[ns] + watching[ns]

BeingStarted(ns) == finder = "starting" /\ ns = Head(found)

\* While the input runs, a namespace is watched exactly if it is in the list,
\* and never twice ("hasNamespace returns a boolean indicating if the
\* namespace is being watched"), however watches fail and namespaces are
\* found again; unless one was removed while Start ranged over the list.
WatchedOnce ==
  life = "running" /\ ~shifted =>
    \A ns \in Namespaces :
      Goroutines(ns) = IF hasNamespace(ns) /\ ~BeingStarted(ns) THEN 1 ELSE 0

\* With discovery, a namespace that exists and may be watched gets watched,
\* even if an earlier watch of it failed.
Rewatched ==
  \A ns \in Namespaces :
    (life = "running" /\ discover /\ ns \in cluster \ refused)
      ~> (Goroutines(ns) > 0 \/ ns \notin cluster \ refused \/ life # "running" \/ shifted)

\* Stop returns: no watch outlives the context.
StopReturns == life = "stopping" ~> life = "ended"

=============================================================================
