--------------------------- MODULE MCTransformers ---------------------------
(***************************************************************************)
(* Model checking of the transformers.  A behaviour is one recombine       *)
(* operator, one entry on its way through field transformers, or the text  *)
(* of a field's name: `which'.                                             *)
(***************************************************************************)
EXTENDS Recombine

CONSTANTS MaxSteps, MaxLength

VARIABLES which, heap, entry, tree, shared, steps, text

MCKinds ==
  [source : Sources, match : {"yes", "no"}, text : {TRUE}]
  \cup {[source |-> "a", match |-> "error", text |-> TRUE],
        [source |-> "a", match |-> "no", text |-> FALSE],
        [source |-> DefaultSourceIdentifier, match |-> "no", text |-> TRUE]}

\* overwrite_with and on_error do not interact: they vary together.
MCConfigs == {c \in AllConfigs : c.send = c.oldest /\ c.oldest = c.canSet}

Keys == {"a", "b"}

Fields ==
  {<<"body">>, <<"body", "a">>, <<"body", "b">>, <<"body", "a", "b">>, <<"attributes", "a">>}

Plain(x) == {<<<<>>, [leaf |-> x]>>}

\* A text, an empty map, a map of plain values and a map of maps.
Bodies ==
  {Plain("x"), Plain("{}"),
   {<<<<"a">>, [leaf |-> "x"]>>, <<<<"b">>, [leaf |-> "y"]>>},
   {<<<<"a", "b">>, [leaf |-> "x"]>>, <<<<"b", "a">>, [leaf |-> "y"]>>}}

AddValues ==
  {Plain("z"), {<<<<"a">>, [leaf |-> "z"]>>}, {<<<<"b", "b">>, [leaf |-> "z"]>>}}

Chars == {"p", ".", "[", "]", "'", "\""}

EntryFields == INSTANCE EntryFields

FieldNames == INSTANCE FieldNames

MCInit ==
  /\ which \in {"recombine", "fields", "names"}
  /\ Init /\ EntryFields!Init /\ FieldNames!Init
  /\ which # "recombine" => config = CHOOSE c \in Configs : TRUE
  /\ which # "fields" => <<<<"body">>, [leaf |-> "x"]>> \in tree
  /\ which # "names" => text = <<"p">>

MCNext ==
  /\ UNCHANGED which
  /\ \/ /\ which = "recombine" /\ Next
        /\ UNCHANGED <<heap, entry, tree, shared, steps, text>>
     \/ /\ which = "fields" /\ EntryFields!Next
        /\ UNCHANGED <<config, kind, batchMap, expired, running, written, refused, text>>
     \/ /\ which = "names" /\ FieldNames!Next
        /\ UNCHANGED <<config, kind, batchMap, expired, running, written, refused,
                       heap, entry, tree, shared, steps>>

\* Recombine's own fairness; nothing makes an entry come.
MCSpec ==
  /\ MCInit
  /\ [][MCNext]_<<which, config, kind, batchMap, expired, running, written, refused,
                  heap, entry, tree, shared, steps, text>>
  /\ \A e \in 1..MaxEntries : WF_vars(Expire(e))
  /\ WF_vars(FlushLoop)

\* Until a map is shared, an entry that passed field transformers is what the
\* reference makes of it.
MatchesReference == EntryFields!MatchesReference

\* Maps are shared only by copy or add of a map that holds maps, or by copy of
\* a map into one of its own keys.
SharedByCopy == EntryFields!SharedByCopy

\* A field's name is read back as it was printed, but for quotes and brackets.
RoundTrip == FieldNames!RoundTrip

=============================================================================
