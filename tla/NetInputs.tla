------------------------------ MODULE NetInputs ------------------------------
(***************************************************************************)
(* The tcp_input and udp_input operators, and how they end.  A TCP input   *)
(* has a goroutine that accepts connections and two for each connection:   *)
(* one reads it, the other waits for a context and closes it.  A UDP input *)
(* has one goroutine and one socket.  Both may have an IPResolver, with a  *)
(* goroutine of its own that Build starts.                                 *)
(*                                                                         *)
(* Abstraction.  Lines are counted; splitting, decoding, attributes, TLS   *)
(* are left out, and the resolver's cache is IPResolver.  Start that fails *)
(* changes nothing that is modelled.                                       *)
(***************************************************************************)
EXTENDS Integers

CONSTANTS
  Peers,       \* clients, each of which connects at most once
  MaxLines     \* bound: lines a client sends

VARIABLES
  proto,       \* "tcp" or "udp"
  life,        \* "stopped", "running", then the steps of Stop: "cancelled",
               \* "closed", "waited", "ended"
  socket,      \* the listener or the UDP connection is open
  loop,        \* the goroutine of goListen, or of UDP's goHandleMessages
  peer,        \* each client: "away", "pending", "connected" or "gone"
  lines,       \* lines sent and not read yet
  conn,        \* the accepted connection: "none", "open" or "closed"
  subctx,      \* the connection's context has been cancelled
  reader,      \* the goroutine of goHandleMessages of each connection
  closer,      \* the goroutine of goHandleClose of each connection
  resolver     \* the goroutine of the IPResolver: "none", "running", "ended"

clients == <<peer, lines>>
conns == <<conn, subctx, reader, closer>>
vars == <<proto, life, socket, loop, clients, conns, resolver>>

Init ==
  /\ proto \in {"tcp", "udp"}
  /\ life = "stopped" /\ socket = FALSE /\ loop = "none"
  /\ peer = [p \in Peers |-> "away"] /\ lines = [p \in Peers |-> 0]
  /\ conn = [p \in Peers |-> "none"] /\ subctx = [p \in Peers |-> FALSE]
  /\ reader = [p \in Peers |-> "none"] /\ closer = [p \in Peers |-> "none"]
  /\ resolver \in {"none", "running"}

\* ctx.Done, of the context Stop cancels
ctxDone == life \notin {"stopped", "running"}

-----------------------------------------------------------------------------
(* Clients *)

\* The kernel completes the connection before Accept returns it.
Connect(p) ==
  /\ proto = "tcp" /\ socket /\ peer[p] = "away"
  /\ peer' = [peer EXCEPT ![p] = "pending"]
  /\ UNCHANGED <<proto, life, socket, loop, lines, conns, resolver>>

Send(p) ==
  /\ lines[p] < MaxLines
  /\ IF proto = "tcp" THEN peer[p] \in {"pending", "connected"} ELSE socket
  /\ lines' = [lines EXCEPT ![p] = @ + 1]
  /\ UNCHANGED <<proto, life, socket, loop, peer, conns, resolver>>

HangUp(p) ==
  /\ peer[p] = "connected"
  /\ peer' = [peer EXCEPT ![p] = "gone"]
  /\ UNCHANGED <<proto, life, socket, loop, lines, conns, resolver>>

-----------------------------------------------------------------------------
(* Start *)

Start ==
  /\ life = "stopped"
  /\ life' = "running" /\ socket' = TRUE /\ loop' = "running"
  /\ UNCHANGED <<proto, clients, conns, resolver>>

-----------------------------------------------------------------------------
(* TCPInput.goListen *)

\* Accept, goHandleClose and goHandleMessages, also when the context has been
\* cancelled in the meantime.
Accept(p) ==
  /\ proto = "tcp" /\ loop = "running" /\ socket /\ peer[p] = "pending"
  /\ peer' = [peer EXCEPT ![p] = "connected"]
  /\ conn' = [conn EXCEPT ![p] = "open"]
  /\ closer' = [closer EXCEPT ![p] = "running"]
  /\ reader' = [reader EXCEPT ![p] = "running"]
  /\ UNCHANGED <<proto, life, socket, loop, lines, subctx, resolver>>

\* Mutant: any error ends the loop.
MutLoopAfterError == "ended"

\* The loop ends if the context is done, and backs off if not.
LoopAfterError == IF ctxDone THEN "ended" ELSE "sleeping"

\* Accept fails.
AcceptFails ==
  /\ proto = "tcp" /\ loop = "running"
  /\ loop' = LoopAfterError
  /\ UNCHANGED <<proto, life, socket, clients, conns, resolver>>

BackedOff ==
  /\ loop = "sleeping"
  /\ loop' = "running"
  /\ UNCHANGED <<proto, life, socket, clients, conns, resolver>>

-----------------------------------------------------------------------------
(* TCPInput.goHandleMessages and goHandleClose *)

\* The scanner has a line, perhaps from its buffer, and it is written.
ReadLine(p) ==
  /\ reader[p] = "running" /\ lines[p] > 0
  /\ lines' = [lines EXCEPT ![p] = @ - 1]
  /\ UNCHANGED <<proto, life, socket, loop, peer, conns, resolver>>

SubctxAfter(p) == [subctx EXCEPT ![p] = TRUE]

\* The client hung up, the connection was closed, or a line is too long.
ReadEnds(p) ==
  /\ reader[p] = "running"
  /\ reader' = [reader EXCEPT ![p] = "ended"]
  /\ subctx' = SubctxAfter(p)
  /\ UNCHANGED <<proto, life, socket, loop, clients, conn, closer, resolver>>

CloseConn(p) ==
  /\ closer[p] = "running" /\ (subctx[p] \/ ctxDone)
  /\ conn' = [conn EXCEPT ![p] = "closed"]
  /\ closer' = [closer EXCEPT ![p] = "ended"]
  /\ UNCHANGED <<proto, life, socket, loop, clients, subctx, reader, resolver>>

-----------------------------------------------------------------------------
(* UDPInput.goHandleMessages *)

ReadMessage(p) ==
  /\ proto = "udp" /\ loop = "running" /\ socket /\ lines[p] > 0
  /\ lines' = [lines EXCEPT ![p] = @ - 1]
  /\ UNCHANGED <<proto, life, socket, loop, peer, conns, resolver>>

\* Any error ends the loop: its break leaves the for, not the select.
ReadMessageFails ==
  /\ proto = "udp" /\ loop = "running"
  /\ loop' = "ended"
  /\ UNCHANGED <<proto, life, socket, clients, conns, resolver>>

-----------------------------------------------------------------------------
(* Stop *)

Cancel ==
  /\ life = "running"
  /\ life' = "cancelled"
  /\ UNCHANGED <<proto, socket, loop, clients, conns, resolver>>

\* Mutant: the socket stays open.
MutSocketClosed == UNCHANGED socket

SocketClosed == socket' = FALSE

Close ==
  /\ life = "cancelled"
  /\ life' = "closed" /\ SocketClosed
  /\ UNCHANGED <<proto, loop, clients, conns, resolver>>

\* Mutant: the goroutine of goHandleClose is not counted.
MutCounted(p) == reader[p] = "running"

Counted(p) == reader[p] = "running" \/ closer[p] = "running"

\* wg.Wait
Wait ==
  /\ life = "closed"
  /\ loop = "ended" /\ \A p \in Peers : ~Counted(p)
  /\ life' = "waited"
  /\ UNCHANGED <<proto, socket, loop, clients, conns, resolver>>

\* resolver.Stop, whose send the resolver's goroutine receives.
Stop ==
  /\ life = "waited"
  /\ resolver' = IF resolver = "running" THEN "ended" ELSE resolver
  /\ life' = "ended"
  /\ UNCHANGED <<proto, socket, loop, clients, conns>>

-----------------------------------------------------------------------------
Stopping == Close \/ Wait \/ Stop

\* Errors are what a closed socket or connection causes; the others need not
\* happen.
LoopEnds == ~socket /\ (AcceptFails \/ ReadMessageFails)
ReaderEnds(p) == (conn[p] = "closed" \/ peer[p] = "gone") /\ ReadEnds(p)

Next ==
  \/ Start \/ AcceptFails \/ BackedOff \/ ReadMessageFails \/ Cancel \/ Stopping
  \/ \E p \in Peers :
       \/ Connect(p) \/ Send(p) \/ HangUp(p) \/ Accept(p)
       \/ ReadLine(p) \/ ReadEnds(p) \/ CloseConn(p) \/ ReadMessage(p)

\* The errors of Accept pass: of the calls for a client that waits not all fail.
Fairness ==
  /\ WF_vars(Stopping) /\ WF_vars(LoopEnds) /\ WF_vars(BackedOff)
  /\ \A p \in Peers :
       /\ WF_vars(ReaderEnds(p)) /\ WF_vars(CloseConn(p)) /\ SF_vars(Accept(p))
       /\ WF_vars(ReadLine(p)) /\ WF_vars(ReadMessage(p))

Spec == Init /\ [][Next]_vars /\ Fairness

-----------------------------------------------------------------------------
\* When Stop returns nothing is left of the input, whoever connected when:
\* no goroutine, no open connection, no socket, no resolver.
NothingLeft ==
  life = "ended" =>
    /\ ~socket /\ loop = "ended" /\ resolver # "running"
    /\ \A p \in Peers :
         conn[p] # "open" /\ reader[p] # "running" /\ closer[p] # "running"

\* Stop returns although clients keep their connections open and send on.
StopReturns == life = "cancelled" ~> life = "ended"

\* While the input runs a client that connects is accepted, although Accept may
\* fail before; what it sends is read unless its reader has ended; and a
\* connection that is not read any more is closed, not kept until Stop.  For
\* UDP the reader is the one loop: once a read has failed nothing is read again.
ClientsServed ==
  \A p \in Peers :
    /\ peer[p] = "pending" ~> peer[p] # "pending" \/ ctxDone
    /\ lines[p] > 0 ~> lines[p] = 0 \/ ctxDone
                       \/ (IF proto = "tcp" THEN reader[p] ELSE loop) = "ended"
    /\ reader[p] = "ended" ~> conn[p] = "closed"

=============================================================================
