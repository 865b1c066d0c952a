----------------------------- MODULE MCPipeline -----------------------------
(* Instances of Pipeline: small pipelines of every shape. *)
EXTENDS Pipeline

TypeNames == Kinds \cup {"default"}

MCNames == TypeNames \cup {"nobody"}

\* An operator without a given id, with these outputs.
Op(kind, outputs) ==
  [kind |-> kind, type |-> kind, id |-> Bare(kind), outputs |-> outputs,
   onError |-> "send", callback |-> FALSE]

Called(op, name, n) == [op EXCEPT !.id = <<name, n>>]
Plain(kind) == Op(kind, <<>>)
To(kind, ids) == Op(kind, <<ids>>)

Dropping(op) == [op EXCEPT !.onError = "drop"]

\* An input with two branches that meet again.
Diamond == <<To("input", <<<<"parser", 0>>, <<"parser", 1>>>>),
             To("parser", <<<<"output", 0>>>>), Plain("parser"), Plain("output")>>

\* Two inputs into a recombine operator.
Joined == <<To("input", <<<<"recombine", 0>>>>), Plain("input"),
            Plain("recombine"), Plain("output")>>

\* Recombine in one branch only, and a second one behind it.
Batches == <<To("input", <<<<"recombine", 0>>, <<"recombine", 1>>>>),
             Plain("recombine"), Plain("recombine")>>

\* A router with two outputs of one route, a parser with a callback and a filter;
\* the default output is used.
Routed == <<Plain("input"),
            Op("router", <<<<<<"parser", 0>>, <<"filter", 0>>>>, <<<<"output", 0>>>>>>),
            To("filter", <<<<"output", 0>>>>), Plain("output"),
            [Dropping(Plain("parser")) EXCEPT !.callback = TRUE]>>

\* Given ids that collide with the ones that are made up.
Renamed == <<Plain("input"), Called(Plain("parser"), "parser", 1), Plain("parser"),
             Called(Plain("parser"), "parser", 2), Plain("parser"), Plain("parser")>>

\* Configurations that are not accepted: the same id twice, an id that is the type
\* of another operator, an output that does not exist, a cycle, an operator that
\* writes to itself.
Twice   == <<Plain("input"), Called(Plain("parser"), "parser", 1), Called(Plain("parser"), "parser", 1)>>
Clash   == <<Plain("input"), Called(Plain("parser"), "output", 0), Plain("output"),
             Plain("output")>>
Missing == <<To("input", <<<<"nobody", 0>>>>), Plain("output")>>
Cycle   == <<Plain("input"), Plain("parser"), To("filter", <<<<"parser", 0>>>>)>>
Loop    == <<Plain("input"), To("parser", <<<<"parser", 0>>>>)>>

Pipelines == {Diamond, Joined, Batches, Routed, Renamed, Twice, Clash, Missing, Cycle, Loop}

\* A syslog input and an output.
Syslog == {<<Plain("syslog"), Plain("output")>>}

=============================================================================
