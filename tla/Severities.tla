----------------------------- MODULE Severities -----------------------------
(***************************************************************************)
(* The severity parser of the severity_parser operator and of every other  *)
(* parser: SeverityParserConfig.Build, which makes one map from texts to   *)
(* severities, and severityMap.find.  The configured mapping is a Go map:  *)
(* Build runs over it in any order.                                        *)
(*                                                                         *)
(* Abstraction.  A text is <<"alias", s>> (the name of severity s, from    *)
(* "trace" to "fatal4"), <<"long", s>> ("warning" to "err4"), <<"number",  *)
(* n>>, <<"class", k>> (the word "kxx") or <<"word", w>>, in lower case or *)
(* not.                                                                    *)
(***************************************************************************)
EXTENDS Integers, FiniteSets, Functions

CONSTANTS SeverityConfigs    \* [preset, mapping : severity -> set of values]

VARIABLES
  config,
  mapping,    \* operatorMapping, a function from texts to severities
  left,       \* the severities of the configured mapping still to be visited
  failed      \* Build returned an error

severityVars == <<config, mapping, left, failed>>

Default == 0
Warn == 13
Fatal == 21
Aliases == 1..24

-----------------------------------------------------------------------------
\* getBuiltinMapping
getBuiltinMapping(name) ==
  LET aliases == {<<"alias", s>> : s \in Aliases}
      texts == CASE name = "none" -> {}
                 [] name = "aliases" -> aliases
                 [] name = "otel" -> aliases \cup {<<"number", s>> : s \in Aliases}
                 [] OTHER -> aliases \cup {<<"long", s>> : s \in Warn..(Fatal - 1)}
  IN [t \in texts |-> t[2]]

\* Mutant: a text that has a severity keeps it.
MutAdd(m, sev, texts) == [t \in DOMAIN m \cup texts |-> IF t \in DOMAIN m THEN m[t] ELSE sev]

\* (severityMap).add: whatever the text meant before.
add(m, sev, texts) == [t \in DOMAIN m \cup texts |-> IF t \in texts THEN sev ELSE m[t]]

\* expandRange takes the limits in either order.
expandRange(min, max) ==
  {<<"number", n>> : n \in IF min > max THEN max..min ELSE min..max}

\* A value is not an integer, a text or a range: {} stands for the error.
parseableValues(value) ==
  CASE value.type = "int" -> {<<"number", value.n>>}
    [] value.type = "text" ->
         IF value.text[1] = "class" /\ ~value.upper
         THEN expandRange(100 * value.text[2], 100 * value.text[2] + 99)
         ELSE {value.text}
    [] value.type = "range" -> expandRange(value.min, value.max)
    [] OTHER -> {}

\* (severityMap).find: a severity, or the error.  The lower-case text is looked
\* up; a float must be whole.
find(m, value) ==
  LET text == IF value.type = "text" THEN value.text ELSE <<"number", value.n>>
  IN IF value.type \notin {"int", "float", "text"} \/ (value.type = "float" /\ ~value.whole)
     THEN {} ELSE IF text \in DOMAIN m THEN {m[text]} ELSE {Default}

\* validateSeverity: a name that is not an alias is taken for Default.
validateSeverity(severity) == find(getBuiltinMapping("aliases"), severity)

-----------------------------------------------------------------------------
Init ==
  /\ config \in SeverityConfigs
  /\ mapping = getBuiltinMapping(config.preset)
  /\ left = DOMAIN config.mapping
  /\ failed = FALSE

\* One turn of the loop over the configured mapping.
Build(severity) ==
  /\ severity \in left /\ ~failed
  /\ LET sevs == validateSeverity(severity)
         values == config.mapping[severity]
     IN IF sevs = {} \/ \E v \in values : parseableValues(v) = {}
        THEN failed' = TRUE /\ UNCHANGED mapping
        ELSE /\ \E sev \in sevs :
                  mapping' = add(mapping, sev, UNION {parseableValues(v) : v \in values})
             /\ UNCHANGED failed
  /\ left' = left \ {severity}
  /\ UNCHANGED config

Next == \E severity \in left : Build(severity)

-----------------------------------------------------------------------------
\* The severities that the configuration gives to a text.
Claims(text) ==
  UNION {validateSeverity(s) : s \in {s \in DOMAIN config.mapping :
           \E v \in config.mapping[s] : text \in parseableValues(v)}}

\* Whatever the order in which Build visits the configured severities: a text that
\* one of them claims has that severity, also if the preset gave it another;
\* a text that several claim has one of theirs; every other text is left to the
\* preset.  An entry that cannot be understood makes Build fail in every order.
MappingRight ==
  /\ failed => \E s \in DOMAIN config.mapping :
       validateSeverity(s) = {} \/ \E v \in config.mapping[s] : parseableValues(v) = {}
  /\ (left = {} /\ ~failed) =>
       LET preset == getBuiltinMapping(config.preset)
           claimed == UNION {UNION {parseableValues(v) : v \in config.mapping[s]} :
                               s \in DOMAIN config.mapping}
       IN /\ \A s \in DOMAIN config.mapping :
               validateSeverity(s) # {} /\ \A v \in config.mapping[s] : parseableValues(v) # {}
          /\ DOMAIN mapping = DOMAIN preset \cup claimed
          /\ \A t \in DOMAIN mapping :
               IF t \in claimed THEN mapping[t] \in Claims(t) ELSE mapping[t] = preset[t]

=============================================================================
