------------------------------ MODULE MCInputs ------------------------------
(***************************************************************************)
(* Model checking of the other inputs.  A behaviour has one input of one   *)
(* kind, `which'; the others stay as they were built.  The Windows input   *)
(* is WindowsEvents itself, the others are instances.                      *)
(***************************************************************************)
EXTENDS WindowsEvents

CONSTANTS
  MaxFailures,
  Namespaces, Configs, MaxChanges,
  Peers, MaxLines,
  Lifetime, Interval, MaxLookup, MaxClock

VARIABLES
  which,
  jStartAt, jLogged, jStored, jLife, jPc, jStarts, jOut,
  after, child, sent, taken, failed, first, crashes,
  discover, namespaces, ranged, turn, kLife, opening, watching, finder, found,
  cluster, refused, changes, shifted,
  proto, nLife, socket, loop, peer, lines, conn, subctx, reader, closer, resolver,
  clock, tick, cache, call, age, stopped

Journald == INSTANCE Journald WITH
  Unparsable <- Unreadable, MaxEntries <- MaxEvents, startAt <- jStartAt,
  logged <- jLogged, stored <- jStored, life <- jLife, pc <- jPc,
  starts <- jStarts, out <- jOut

K8s == INSTANCE K8sEvents WITH life <- kLife

\* Discovery beside a configured namespace that does not exist, and a list
\* without discovery.
K8sConfigs ==
  { [namespaces |-> <<3>>, discover |-> TRUE, cluster |-> {1}],
    [namespaces |-> <<2, 1>>, discover |-> FALSE, cluster |-> {1, 2}] }

Net == INSTANCE NetInputs WITH life <- nLife

Resolver == INSTANCE IPResolver WITH Callers <- Peers, Ips <- {1}

journaldVars ==
  <<jStartAt, jLogged, jStored, jLife, jPc, jStarts, jOut,
    after, child, sent, taken, failed, first, crashes>>
windowsVars ==
  <<startAt, logged, starts, stored, life, pc, at, batch, from, done, out>>
k8sVars ==
  <<discover, namespaces, ranged, turn, kLife, opening, watching, finder, found,
    cluster, refused, changes, shifted>>
netVars ==
  <<proto, nLife, socket, loop, peer, lines, conn, subctx, reader, closer, resolver>>
resolverVars == <<clock, tick, cache, call, age, stopped>>
mcVars == <<which, journaldVars, windowsVars, k8sVars, netVars, resolverVars>>

\* The inputs that are not chosen have one initial state each.
MCInit ==
  /\ which \in {"journald", "windows", "k8s", "net", "resolver"}
  /\ Journald!Init /\ Init /\ K8s!Init /\ Net!Init /\ Resolver!Init
  /\ which # "journald" => jStartAt = "end" /\ jLogged = 0
  /\ which # "windows" => startAt = "end" /\ logged = 0
  /\ which # "k8s" => ~discover
  /\ which # "net" => proto = "tcp" /\ resolver = "none"

MCNext ==
  /\ UNCHANGED which
  /\ \/ /\ which = "journald" /\ Journald!Next
        /\ UNCHANGED <<windowsVars, k8sVars, netVars, resolverVars>>
     \/ /\ which = "windows" /\ Next
        /\ UNCHANGED <<journaldVars, k8sVars, netVars, resolverVars>>
     \/ /\ which = "k8s" /\ K8s!Next
        /\ UNCHANGED <<journaldVars, windowsVars, netVars, resolverVars>>
     \/ /\ which = "net" /\ Net!Next
        /\ UNCHANGED <<journaldVars, windowsVars, k8sVars, resolverVars>>
     \/ /\ which = "resolver" /\ Resolver!Next
        /\ UNCHANGED <<journaldVars, windowsVars, k8sVars, netVars>>

MCSpec ==
  /\ MCInit /\ [][MCNext]_mcVars
  /\ Journald!Fairness /\ Fairness /\ K8s!Fairness /\ Net!Fairness

-----------------------------------------------------------------------------
\* journald_input repeats an entry only if its cursor could not be stored, and
\* loses at most one for each crash, none in a stop.
CursorSound == Journald!CursorSound

\* k8s_event_input watches each namespace of its list once, and no other.
WatchedOnce == K8s!WatchedOnce

\* k8s_event_input watches again what it could not watch for a while.
Rewatched == K8s!Rewatched

\* tcp_input and udp_input leave nothing behind when they stop.
NothingLeft == Net!NothingLeft

\* tcp_input and udp_input serve their clients while they run.
ClientsServed == Net!ClientsServed

\* No name the resolver gives is older than a lifetime, an interval and a lookup.
HostNotStale == Resolver!HostNotStale

\* Stop of every input returns.
AllStopsReturn ==
  /\ Journald!StopReturns /\ StopReturns
  /\ K8s!StopReturns /\ Net!StopReturns

=============================================================================
