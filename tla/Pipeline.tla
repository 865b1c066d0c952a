------------------------------ MODULE Pipeline ------------------------------
(***************************************************************************)
(* A pipeline: the operators of a configuration are named, connected and   *)
(* sorted, started from the outputs to the inputs and stopped the other    *)
(* way round, while the goroutines of the inputs carry entries through     *)
(* them.  Process of an operator calls Process of the operators it writes  *)
(* to, so a goroutine is a stack of calls, and a call passes a pointer to  *)
(* an entry: who copies it, and who does not, is part of the model.        *)
(*                                                                         *)
(* Abstraction.  An id is a string, split before the number at its end: a  *)
(* pair of a name and a number, 0 for none.  The types that operators are  *)
(* registered under do not end in a digit, so that the id that is printed  *)
(* for a type and a number is the pair of the two.  An entry is the list   *)
(* of input entries it was made of and the list of operators that changed  *)
(* it; whether an operator fails on an entry, or an expression holds of    *)
(* it, is left open.  The recombine operator, which module Recombine has   *)
(* in detail, keeps one batch, and all entries have its combine_field.     *)
(***************************************************************************)
EXTENDS Integers, FiniteSets, Sequences, SequencesExt

CONSTANTS
  OperatorTypes, \* the types operators are registered under
  Names,         \* what ids consist of, before the number at their end
  Configs,       \* configurations, each a sequence of Operator records
  DefaultOutput, \* Config.DefaultOutput: whether there is one
  MaxEntries,    \* bound: entries that all inputs write together
  StartFails     \* whether Start of an operator may return an error

Kinds == {"input", "syslog", "parser", "filter", "router", "recombine", "output"}

Ids == Names \X Nat

\* ID() of a configuration without an id: its type.
Bare(type) == <<type, 0>>

\* The output fields: one list of ids for each route of a router, a single one
\* for any other operator.  callback: the parser runs a callback after parsing.
Operator ==
  [kind : Kinds, type : OperatorTypes, id : Ids, outputs : Seq(Seq(Ids)),
   onError : {"send", "drop"}, callback : BOOLEAN]

\* Build rejects an empty configuration.  No operator has the type of the default
\* output, which the program that uses the pipeline brings along.
ASSUME PipelineAssumption ==
  /\ "default" \in OperatorTypes /\ OperatorTypes \subseteq Names
  /\ Configs \subseteq Seq(Operator) /\ <<>> \notin Configs
  /\ \A config \in Configs : \A i \in 1..Len(config) : config[i].type # "default"

VARIABLES
  ops,      \* the operators, as configured and then as built
  given,    \* the operators as configured
  stage,    \* what the caller of Build, Start and Stop is doing
  outs,     \* OutputOperators of each operator, by route
  current,  \* the operator the loop of stop is at; NoOne between two
  life,     \* of each operator
  exiting,  \* the inputs whose context is cancelled
  stacks,   \* the calls in progress of each goroutine
  heap,     \* the copies of each input entry
  batch,    \* batchMap of each recombine operator: pointers
  lock,     \* the goroutine that holds the mutex of a recombine operator
  source,   \* the input each entry came from
  arrived   \* how often each entry reached each output

buildVars == <<ops, given, outs>>
loopVars  == <<stage, current, life, exiting>>
flowVars  == <<stacks, heap, batch, lock, source, arrived>>
vars == <<buildVars, loopVars, flowVars>>

Positions == 1..Len(ops)
Main      == 0                     \* the goroutine that calls Start and Stop
NoOne     == -1
Goroutines == {Main} \cup Positions

Is(i, kinds) == ops[i].kind \in kinds
IsInput(i)   == Is(i, {"input", "syslog"})
CanProcess(i) == ~IsInput(i)
CanOutput(i)  == ~Is(i, {"output"})

-----------------------------------------------------------------------------
(* Build *)

\* The operator has no id, or was given its type as its id.
Unnamed(op) == op.id = Bare(op.type)

\* Mutant: an id that is taken is not looked for.
MutFreeNum(operators, type, n) == n

\* The number of the new id.  The search for an operator that has the id goes
\* on at the second operator (j is reset to 0 and then incremented).
FreeNum(operators, type, n) ==
  LET Taken(from, k) ==
        \E j \in from..Len(operators) : operators[j].id = <<type, k>>
  IN  IF ~Taken(1, n)
      THEN n
      ELSE CHOOSE k \in (n + 1)..(n + Len(operators)) :
             ~Taken(2, k) /\ \A m \in (n + 1)..(k - 1) : Taken(2, m)

\* The loop of dedeplucateIDs: d is the operators and, for each type, the number
\* typeMap holds.
NoTurn(config) ==
  [ops |-> config, typeMap |-> [t \in {config[i].type : i \in DOMAIN config} |-> 0]]

\* The first operator of a type that has no id keeps the bare type, whatever ids
\* the others were given.
Turn(d, i) ==
  LET t == d.ops[i].type
      n == FreeNum(d.ops, t, d.typeMap[t])
  IN  CASE ~Unnamed(d.ops[i]) -> d
        [] Unnamed(d.ops[i]) /\ d.typeMap[t] = 0 ->
             [d EXCEPT !.typeMap = [@ EXCEPT ![t] = 1]]
        [] Unnamed(d.ops[i]) /\ d.typeMap[t] # 0 ->
             [ops     |-> [d.ops EXCEPT ![i] = [@ EXCEPT !.id = <<t, n>>]],
              typeMap |-> [d.typeMap EXCEPT ![t] = n + 1]]

Deduplicated(config) ==
  LET after[i \in 0..Len(config)] ==
        IF i = 0 THEN NoTurn(config) ELSE Turn(after[i - 1], i)
  IN  after[Len(config)].ops

GetOutputIDs(op) == FlattenSeq(op.outputs)

\* SetOutputIDs: does nothing in a router or an output.
SetOutputIDs(op, id) ==
  IF op.kind \in {"router", "output"} THEN op ELSE [op EXCEPT !.outputs = <<<<id>>>>]

TheDefaultOutput ==
  [kind |-> "output", type |-> "default", id |-> Bare("default"), outputs |-> <<>>,
   onError |-> "send", callback |-> FALSE]

\* The operators with their default outputs, and the default output if the last
\* operator needs it.
Defaulted(operators) ==
  LET n == Len(operators)
      needed == /\ DefaultOutput /\ operators[n].kind # "output"
                /\ GetOutputIDs(operators[n]) = <<>>
      all == IF needed THEN Append(operators, TheDefaultOutput) ELSE operators
  IN  [i \in 1..Len(all) |->
         IF GetOutputIDs(all[i]) # <<>> \/ i = Len(all)
         THEN all[i]
         ELSE SetOutputIDs(all[i], all[i + 1].id)]

\* The positions of the operators with this id; findOperator takes the first.
Named(operators, id) == {i \in 1..Len(operators) : operators[i].id = id}
FindOperator(operators, id) ==
  CHOOSE i \in Named(operators, id) : \A j \in Named(operators, id) : i <= j

\* SetOutputs
Connected(operators) ==
  [i \in 1..Len(operators) |->
     [r \in 1..Len(operators[i].outputs) |->
        [k \in 1..Len(operators[i].outputs[r]) |->
           FindOperator(operators, operators[i].outputs[r][k])]]]

\* The operators that position i of outs calls.
CalledBy(connected, i) == UNION {Range(connected[i][r]) : r \in DOMAIN connected[i]}

\* Outputs(), from which the graph is made.  SetOutputs of a syslog input sets
\* the outputs of its parser, and Outputs() returns its own, which are not set.
Outputs(operators, connected, i) ==
  IF operators[i].kind = "syslog" THEN {} ELSE CalledBy(connected, i)

\* A set of positions each of which has an output in the set: a cycle.
Cyclic(operators, connected) ==
  \E S \in SUBSET (1..Len(operators)) :
    /\ S # {}
    /\ \A i \in S : Outputs(operators, connected, i) \cap S # {}

\* An output that does not exist, or a writer's that is an input.
Unconnectable(operators) ==
  \E i \in 1..Len(operators) : \E route \in Range(operators[i].outputs) : \E id \in Range(route) :
    \/ Named(operators, id) = {}
    \/ operators[FindOperator(operators, id)].kind \in {"input", "syslog"}

\* addNodes: "operator with id already exists in pipeline".
Duplicate(operators) ==
  \E i, j \in 1..Len(operators) : i # j /\ operators[i].id = operators[j].id

\* The graph library panics on an edge from a node to itself.
SelfLoop(operators, connected) ==
  \E i \in 1..Len(operators) : i \in Outputs(operators, connected, i)

Idle(operators) ==
  /\ life'   = [i \in 1..Len(operators) |-> "built"]
  /\ stacks' = [g \in {Main} \cup (1..Len(operators)) |-> <<>>]
  /\ batch'  = [i \in 1..Len(operators) |-> <<>>]
  /\ lock'   = [i \in 1..Len(operators) |-> NoOne]

Build ==
  /\ stage = "configured"
  /\ LET built == Defaulted(Deduplicated(given)) IN
       /\ ops' = built
       /\ Idle(built)
       /\ IF Unconnectable(built) \/ Duplicate(built)
          THEN stage' = "rejected" /\ UNCHANGED outs
          ELSE /\ outs' = Connected(built)
               /\ stage' = IF SelfLoop(built, outs') THEN "panicked"
                           ELSE IF Cyclic(built, outs') THEN "rejected"
                           ELSE "built"
  /\ UNCHANGED <<given, current, exiting, heap, source, arrived>>

-----------------------------------------------------------------------------
(* Start and Stop *)

\* The loops of start and stop go through the operators as topo.Sort returns
\* them, each before its outputs: start takes the last one that is left, stop
\* the first.  The choice is made as they go.
OutputsIn(i) == Outputs(ops, outs, i)

Start ==
  /\ stage = "built"
  /\ stage' = "starting"
  /\ UNCHANGED <<buildVars, flowVars, current, life, exiting>>

\* Mutant: operators are started in topological order.
MutLastLeft(i) ==
  life[i] = "built" /\ \A j \in Positions : i \in OutputsIn(j) => life[j] = "started"

LastLeft(i) ==
  life[i] = "built" /\ \A o \in OutputsIn(i) : life[o] = "started"

StartOperator ==
  /\ stage = "starting"
  /\ \E i \in Positions : LastLeft(i) /\ life' = [life EXCEPT ![i] = "started"]
  /\ stage' = IF \A i \in Positions : life'[i] = "started" THEN "started" ELSE stage
  /\ UNCHANGED <<buildVars, flowVars, current, exiting>>

\* Start of an operator returns an error: so does Start of the pipeline.  The
\* operators that were started go on.
StartError ==
  /\ stage = "starting" /\ StartFails
  /\ stage' = "start_error"
  /\ UNCHANGED <<buildVars, flowVars, current, life, exiting>>

Stop ==
  /\ stage \in {"started", "start_error"}
  /\ stage' = "stopping"
  /\ UNCHANGED <<buildVars, flowVars, current, life, exiting>>

\* Mutant: operators are stopped in the order in which they were started.
MutFirstLeft(i) ==
  life[i] # "stopped" /\ \A o \in OutputsIn(i) : life[o] = "stopped"

FirstLeft(i) ==
  /\ life[i] # "stopped"
  /\ \A j \in Positions : i \in OutputsIn(j) => life[j] = "stopped"

StopOperator(i) ==
  /\ stage = "stopping" /\ current = NoOne /\ FirstLeft(i)
  /\ current' = i
  /\ UNCHANGED <<buildVars, flowVars, stage, life, exiting>>

\* The loop of stop is done with the operator.
Stopped(i) ==
  /\ current' = NoOne
  /\ life' = [life EXCEPT ![i] = "stopped"]
  /\ stage' = IF \A j \in Positions : life'[j] = "stopped" THEN "stopped" ELSE stage

\* Stop of an operator that keeps no goroutine, or of a recombine operator that
\* holds nothing.
StopBasic(i) ==
  /\ current = i /\ stacks[Main] = <<>> /\ CanProcess(i)
  /\ Is(i, {"recombine"}) => lock[i] = NoOne /\ batch[i] = <<>>
  /\ Stopped(i)
  /\ UNCHANGED <<buildVars, flowVars, exiting>>

\* Stop of an input cancels its context and waits for its goroutine.
CancelInput(i) ==
  /\ current = i /\ IsInput(i) /\ life[i] = "started" /\ i \notin exiting
  /\ exiting' = exiting \cup {i}
  /\ UNCHANGED <<buildVars, flowVars, stage, current, life>>

\* Mutant: Stop of an input does not wait.
MutHasExited(i) == i \in exiting

\* The goroutine of the input notices between two entries.
HasExited(i) == i \in exiting /\ stacks[i] = <<>>

WaitForInput(i) ==
  /\ current = i /\ IsInput(i) /\ HasExited(i)
  /\ Stopped(i)
  /\ UNCHANGED <<buildVars, flowVars, exiting>>

\* The cancel function of an input that was not started is nil: Stop panics, and
\* the operators that come after it go on.
StopUnstarted(i) ==
  /\ current = i /\ IsInput(i) /\ life[i] = "built"
  /\ stage' = "panicked"
  /\ UNCHANGED <<buildVars, flowVars, current, life, exiting>>

-----------------------------------------------------------------------------
(* Entries on their way *)

\* A goroutine that writes the entries in pending, one after the other: todo is
\* what is left of the outputs for the first of them.
OutputsOf(i, route) == IF route \in DOMAIN outs[i] THEN outs[i][route] ELSE <<>>

Writing(i, pending, route) ==
  [op |-> i, pending |-> pending, route |-> route,
   todo |-> IF pending = <<>> THEN <<>> ELSE OutputsOf(i, route)]

Top(g) == Last(stacks[g])

\* A pointer: the number of an input entry, and which of its copies.
Entry(p) == heap[p[1]][p[2]]

ChangedBy(h, p, i) == [h EXCEPT ![p[1]][p[2]].by = Append(@, i)]

\* What an operator that may fail makes of an entry: the if expression does not
\* hold, all goes well, it fails before or after it has changed the entry, or
\* its callback fails.
Results(i) ==
  {"skipped", "done", "failed", "failed_late"}
    \cup (IF ops[i].callback THEN {"callback_failed"} ELSE {})

\* Mutant: an entry that failed is sent and then written all the same.
MutWritten(i, result, p) ==
  CASE result \in {"skipped", "done"} -> <<p>>
    [] result \in {"failed", "failed_late"} ->
         IF ops[i].onError = "send" THEN <<p, p>> ELSE <<p>>
    [] result = "callback_failed" -> <<>>

\* ProcessWithCallback: what is written, HandleEntryError's share included.
Written(i, result, p) ==
  CASE result \in {"skipped", "done"} -> <<p>>
    [] result \in {"failed", "failed_late"} ->
         IF ops[i].onError = "send" THEN <<p>> ELSE <<>>
    [] result = "callback_failed" -> <<>>

AfterResult(h, i, result, p) ==
  IF result \in {"skipped", "failed"} THEN h ELSE ChangedBy(h, p, i)

\* An input makes an entry and writes it.  It may do so after its context was
\* cancelled, until it notices.  A syslog input passes it to its own parser.
NewEntry(i) ==
  /\ IsInput(i) /\ life[i] = "started" /\ stacks[i] = <<>>
  /\ Len(heap) < MaxEntries
  /\ LET n == Len(heap) + 1
         p == <<n, 1>>
         h == Append(heap, <<[of |-> <<n>>, by |-> <<>>]>>)
     IN  \E result \in IF Is(i, {"syslog"}) THEN Results(i) ELSE {"skipped"} :
           /\ heap' = AfterResult(h, i, result, p)
           /\ stacks' = [stacks EXCEPT ![i] =
                           <<Writing(i, Written(i, result, p), 1)>>]
  /\ source' = Append(source, i)
  /\ arrived' = Append(arrived, [o \in Positions |-> 0])
  /\ UNCHANGED <<buildVars, loopVars, batch, lock>>

\* Mutant: every output is given the same entry.
MutIsShared(f) == TRUE

\* Whether the next output gets the entry itself: the last output of a writer
\* does, and every output of a router.
IsShared(f) == Is(f.op, {"router"}) \/ Len(f.todo) = 1

\* The next output of goroutine g is o.
Calls(g, o) == stacks[g] # <<>> /\ Top(g).todo # <<>> /\ o = Head(Top(g).todo)

\* The entry it gets, and the heap that has it.
Argument(g) ==
  LET f == Top(g)
      n == f.pending[1][1]
  IN  IF IsShared(f)
      THEN [p |-> f.pending[1], h |-> heap]
      ELSE [p |-> <<n, Len(heap[n]) + 1>>,
            h |-> [heap EXCEPT ![n] = Append(@, Entry(f.pending[1]))]]

\* The call returns at once, or writes something first.
Returned(g)      == [stacks[g] EXCEPT ![Len(stacks[g])].todo = Tail(@)]
Entered(g, call) == [stacks EXCEPT ![g] = Append(Returned(g), call)]
Skipped(g)       == [stacks EXCEPT ![g] = Returned(g)]

ProcessOutput(g, o) ==
  /\ Calls(g, o) /\ Is(o, {"output"})
  /\ LET of == Entry(Top(g).pending[1]).of IN
       arrived' = [n \in 1..Len(arrived) |->
         [arrived[n] EXCEPT ![o] =
            @ + Cardinality({k \in 1..Len(of) : of[k] = n})]]
  /\ heap' = Argument(g).h
  /\ stacks' = Skipped(g)
  /\ UNCHANGED <<buildVars, loopVars, batch, lock, source>>

ProcessParser(g, o) ==
  /\ Calls(g, o) /\ Is(o, {"parser"})
  /\ LET arg == Argument(g) IN
     \E result \in Results(o) :
       /\ heap' = AfterResult(arg.h, o, result, arg.p)
       /\ stacks' = Entered(g, Writing(o, Written(o, result, arg.p), 1))
  /\ UNCHANGED <<buildVars, loopVars, batch, lock, source, arrived>>

\* The filter writes the entry or does not, whatever on_error is.
ProcessFilter(g, o) ==
  /\ Calls(g, o) /\ Is(o, {"filter"})
  /\ heap' = Argument(g).h
  /\ \/ stacks' = Entered(g, Writing(o, <<Argument(g).p>>, 1))
     \/ stacks' = Skipped(g)
  /\ UNCHANGED <<buildVars, loopVars, batch, lock, source, arrived>>

\* The first route that matches gets the entry, labelled; there may be none, or
\* labelling may fail.
ProcessRouter(g, o) ==
  /\ Calls(g, o) /\ Is(o, {"router"})
  /\ LET arg == Argument(g) IN
       \/ heap' = arg.h /\ stacks' = Skipped(g)
       \/ heap' = ChangedBy(arg.h, arg.p, o) /\ stacks' = Skipped(g)
       \/ \E r \in DOMAIN outs[o] :
            /\ heap' = ChangedBy(arg.h, arg.p, o)
            /\ stacks' = Entered(g, Writing(o, <<arg.p>>, r))
  /\ UNCHANGED <<buildVars, loopVars, batch, lock, source, arrived>>

\* flushSource: the oldest or the newest entry of the batch gets the text of all.
Combined(h, ps, base, i) ==
  LET h2 == ChangedBy(h, base, i)
  IN  [h2 EXCEPT ![base[1]][base[2]].of =
         FlattenSeq([k \in 1..Len(ps) |-> h[ps[k][1]][ps[k][2]].of])]

\* Process of a recombine operator, under its lock: the expression fails, the
\* entry is put into the batch, ...
RecombineError(g, o) ==
  /\ Calls(g, o) /\ Is(o, {"recombine"}) /\ lock[o] = NoOne
  /\ heap' = Argument(g).h
  /\ stacks' = Entered(g, Writing(o, Written(o, "failed", Argument(g).p), 1))
  /\ lock' = [lock EXCEPT ![o] = g]
  /\ UNCHANGED <<buildVars, loopVars, batch, source, arrived>>

RecombineAdd(g, o) ==
  /\ Calls(g, o) /\ Is(o, {"recombine"}) /\ lock[o] = NoOne
  /\ heap' = Argument(g).h
  /\ stacks' = Skipped(g)
  /\ batch' = [batch EXCEPT ![o] = Append(@, Argument(g).p)]
  /\ UNCHANGED <<buildVars, loopVars, lock, source, arrived>>

\* ... it completes the batch, or it is the first of the next one.
RecombineFlush(g, o) ==
  /\ Calls(g, o) /\ Is(o, {"recombine"}) /\ lock[o] = NoOne
  /\ LET arg == Argument(g) IN
     \E last \in BOOLEAN :
       LET ps == IF last THEN Append(batch[o], arg.p) ELSE batch[o] IN
       /\ ps # <<>>
       /\ \E base \in {Head(ps), Last(ps)} :
            /\ heap' = Combined(arg.h, ps, base, o)
            /\ stacks' = Entered(g, Writing(o, <<base>>, 1))
       /\ batch' = [batch EXCEPT ![o] = IF last THEN <<>> ELSE <<arg.p>>]
  /\ lock' = [lock EXCEPT ![o] = g]
  /\ UNCHANGED <<buildVars, loopVars, source, arrived>>

Process(g, o) ==
  \/ ProcessOutput(g, o) \/ ProcessParser(g, o) \/ ProcessFilter(g, o)
  \/ ProcessRouter(g, o)
  \/ RecombineError(g, o) \/ RecombineAdd(g, o) \/ RecombineFlush(g, o)

\* flushLoop: the batch has waited long enough.
Tick(i) ==
  /\ Is(i, {"recombine"}) /\ life[i] = "started" /\ stacks[i] = <<>>
  /\ lock[i] = NoOne /\ batch[i] # <<>>
  /\ \E base \in {Head(batch[i]), Last(batch[i])} :
       /\ heap' = Combined(heap, batch[i], base, i)
       /\ stacks' = [stacks EXCEPT ![i] = <<Writing(i, <<base>>, 1)>>]
  /\ batch' = [batch EXCEPT ![i] = <<>>]
  /\ lock' = [lock EXCEPT ![i] = i]
  /\ UNCHANGED <<buildVars, loopVars, source, arrived>>

\* Mutant: what a recombine operator holds when it is stopped is forgotten.
MutFlushUncombined(i) == <<>>

flushUncombined(i) == batch[i]

\* Stop of a recombine operator writes what it holds, entry by entry.
StopRecombine(i) ==
  /\ current = i /\ Is(i, {"recombine"}) /\ lock[i] = NoOne /\ batch[i] # <<>>
  /\ stacks' = [stacks EXCEPT ![Main] = <<Writing(i, flushUncombined(i), 1)>>]
  /\ batch' = [batch EXCEPT ![i] = <<>>]
  /\ lock' = [lock EXCEPT ![i] = Main]
  /\ UNCHANGED <<buildVars, loopVars, heap, source, arrived>>

\* Mutant: the lock is kept.
MutReleased(g, i) == lock

\* A call that holds the lock of its operator gives it back.
Released(g, i) ==
  IF Is(i, {"recombine"}) /\ lock[i] = g THEN [lock EXCEPT ![i] = NoOne] ELSE lock

\* The first of the entries has been written to every output: the next one, or
\* the call returns.
Return(g) ==
  /\ stacks[g] # <<>> /\ Top(g).todo = <<>>
  /\ LET f == Top(g) IN
     IF Len(f.pending) > 1
     THEN /\ stacks' = [stacks EXCEPT ![g] =
                          Append(Front(@), Writing(f.op, Tail(f.pending), f.route))]
          /\ UNCHANGED lock
     ELSE /\ stacks' = [stacks EXCEPT ![g] = Front(@)]
          /\ lock' = Released(g, f.op)
  /\ UNCHANGED <<buildVars, loopVars, heap, batch, source, arrived>>

-----------------------------------------------------------------------------
Init ==
  /\ given \in Configs /\ ops = given
  /\ stage = "configured"
  /\ outs = <<>> /\ current = NoOne /\ life = <<>> /\ exiting = {}
  /\ stacks = <<>> /\ batch = <<>> /\ lock = <<>>
  /\ heap = <<>> /\ source = <<>> /\ arrived = <<>>

Running == stage \notin {"configured", "rejected", "panicked"}

\* The steps of a goroutine, once it has something to do.
Step(g) == Running /\ (Return(g) \/ \E o \in Positions : Process(g, o))

StopNext ==
  \E i \in Positions :
    \/ StopOperator(i) \/ StopBasic(i) \/ CancelInput(i) \/ WaitForInput(i) \/ StopUnstarted(i)
    \/ StopRecombine(i)

Next ==
  \/ Build \/ Start \/ StartOperator \/ StartError \/ Stop
  \/ Running /\ StopNext
  \/ Running /\ \E i \in Positions : NewEntry(i) \/ Tick(i)
  \/ \E g \in DOMAIN stacks : Step(g)

\* Calls return, and the loops of start and stop go on.
Spec ==
  /\ Init /\ [][Next]_vars
  /\ WF_vars(StartOperator) /\ WF_vars(Running /\ StopNext)
  /\ WF_vars(\E g \in DOMAIN stacks : Step(g))

-----------------------------------------------------------------------------
(* Properties *)

Frames == UNION {Range(stacks[g]) : g \in DOMAIN stacks}

\* An operator that is about to write is running, and so is every operator it
\* may call: whatever the graph, in whatever order it was sorted, and however
\* starting and stopping interleave with the entries on their way.
CallsRunning ==
  Running => \A f \in Frames :
    /\ life[f.op] = "started"
    /\ \A o \in CalledBy(outs, f.op) : life[o] = "started"

\* Operator i calls operator j, directly or not, or is j.
Reaches(i, j) ==
  LET down[k \in Positions] == {k} \cup UNION {down[o] : o \in CalledBy(outs, k)}
  IN  j \in down[i]

\* Operator i is behind an output of a route, and j is the router, or behind
\* another output of that route: they have the same entry.
SameRoute(i, j) ==
  \E k \in Positions : Is(k, {"router"}) /\ \E r \in DOMAIN outs[k] :
    \E a, b \in DOMAIN outs[k][r] :
      a # b /\ Reaches(outs[k][r][a], i) /\ (k = j \/ Reaches(outs[k][r][b], j))

\* The branches of a pipeline do not see each other's changes: what was done to
\* an entry that an operator writes or keeps was done upstream of it, or behind
\* another output of the same route of a router, which copies nothing.
BranchesIsolated ==
  Running =>
    /\ \A f \in Frames : f.todo # <<>> =>
         \A i \in Range(Entry(f.pending[1]).by) : Reaches(i, f.op) \/ SameRoute(i, f.op)
    /\ \A j \in Positions : \A k \in 1..Len(batch[j]) :
         \A i \in Range(Entry(batch[j][k]).by) : Reaches(i, j) \/ SameRoute(i, j)

\* The number of ways from each operator to o.
Ways(o) ==
  LET ways[i \in Positions] ==
        IF i = o THEN 1
        ELSE LET next == FlattenSeq(outs[i])
             IN  FoldSeq(LAMBDA j, n : ways[j] + n, 0, next)
  IN  ways

\* No operator may drop an entry.
Lossless ==
  \A i \in Positions : /\ ~Is(i, {"filter", "router"})
                       /\ ops[i].onError = "send" /\ ~ops[i].callback

\* An entry reaches an output at most once for every way there is to it and,
\* once the pipeline is stopped, exactly once if no operator may drop entries:
\* nothing is left in an operator or on its way, and on_error sends what failed.
EveryWayOnce ==
  Running => \A n \in 1..Len(heap) : \A o \in Positions : Is(o, {"output"}) =>
    /\ arrived[n][o] <= Ways(o)[source[n]]
    /\ stage = "stopped" /\ Lossless => arrived[n][o] = Ways(o)[source[n]]

\* The id that an operator without one gets is not the id of any other, and of the
\* operators of a type without an id only one keeps the bare type: two operators
\* have the same id only if neither id was made up and one of them was given.  It
\* may be given as the type of another operator: Build rejects it then.  The
\* first operator, at which the search for an id does not look again, has none.
IdsDistinct ==
  stage # "configured" /\ Unnamed(given[1]) =>
    \A i, j \in Positions : i # j /\ ops[i].id = ops[j].id =>
      /\ \A k \in {i, j} \cap DOMAIN given : ops[k].id = given[k].id
      /\ \E k \in {i, j} \cap DOMAIN given : ~Unnamed(given[k])

\* Stop stops all operators, if the inputs were started: their goroutines end,
\* whatever they are doing, and no lock is waited for forever.  At an input that
\* Start did not get to it panics (StopUnstarted), and those after it run on.
StopReturns ==
  (stage = "stopping" /\ \A i \in Positions : IsInput(i) => life[i] # "built")
    ~> stage = "stopped"

=============================================================================
