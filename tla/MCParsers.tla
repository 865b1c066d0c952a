----------------------------- MODULE MCParsers ------------------------------
(***************************************************************************)
(* Model checking of the parser operators.  A behaviour is about one of    *)
(* them, `which': the cache of regex_parser, an entry in a chain of        *)
(* parsers, a time stamp, a severity mapping that is built, or a text for  *)
(* csv_parser or key_value_parser.                                         *)
(***************************************************************************)
EXTENDS RegexCache, SequencesExt

CONSTANTS
  Chains, Arrivals,       \* of Parsers
  Years, Days, Epochs,    \* of Timestamps
  SeverityConfigs,        \* of Severities
  MaxText, MaxPairs       \* of TextFormats

VARIABLES
  which,
  chain, at, step, entry, before, errs, sent, result,
  stamp, clock,
  config, mapping, left, failed,
  doc

-----------------------------------------------------------------------------
(* Chains of parsers *)

Absent == [n \in {"timestamp", "severity", "scope", "trace_id", "span_id"} |-> "absent"]

Embedded == {"time", "severity", "trace", "scope"}

Plain ==
  [type |-> "parser", onError |-> "send", if |-> "true", parses |-> TRUE, parsed |-> Absent,
   to |-> "attributes", steps |-> Embedded, from |-> "attributes", header |-> TRUE]

\* A parser with every mixture of good, bad and missing values.
Mixtures ==
  {[Plain EXCEPT !.onError = o, !.parsed = v] :
     o \in {"send", "drop"}, v \in [DOMAIN Absent -> {"absent", "good", "bad"}]}

\* syslog_parser of a message with or without a time stamp, parsed to and
\* read from either place.
Syslogs ==
  {[Plain EXCEPT !.type = "syslog", !.onError = o, !.to = t, !.from = f, !.steps = {"time"},
                 !.parsed = [@ EXCEPT !["severity"] = "good", !["timestamp"] = v]] :
     o \in {"send", "drop"}, t \in {"attributes", "body"}, f \in {"attributes", "body"},
     v \in {"absent", "good"}}

\* The operators of one field, and every early return.
Others ==
  {[Plain EXCEPT !.type = y] : y \in Embedded}
  \cup {[Plain EXCEPT !.type = y, !.onError = o, !.if = i] :
          y \in {"parser", "time"}, o \in {"send", "drop"}, i \in {"false", "error"}}
  \cup {[Plain EXCEPT !.onError = o, !.parses = FALSE] : o \in {"send", "drop"}}
  \cup {[Plain EXCEPT !.type = "csv", !.onError = o, !.header = h] :
          o \in {"send", "drop"}, h \in BOOLEAN}

MCChains ==
  {<<p>> : p \in Mixtures \cup {Plain}}
  \cup {<<p, q>> : p \in Syslogs \cup Others, q \in Syslogs \cup Others}

MCArrivals ==
  {Absent, [Absent EXCEPT !["timestamp"] = "bad", !["severity"] = "good", !["trace_id"] = "good"]}

Parsers == INSTANCE Parsers WITH pc <- step

ASSUME ChainsAssumption ==
  /\ \A c \in Chains : c \in Seq(Parsers!Operator) /\ c # <<>>
  /\ Arrivals \subseteq Parsers!Outcomes

-----------------------------------------------------------------------------
(* Time stamps around New Year and the end of February, and small numbers *)

MCDays ==
  {<<1, 1>>, <<1, 6>>, <<2, 28>>, <<2, 29>>, <<3, 1>>, <<3, 7>>, <<3, 8>>, <<12, 25>>, <<12, 31>>}

MCEpochs == {-1500, -1, 0, 7, 50, 150, 999, 1000, 9950, 12345, 99999, 123456}

Timestamps == INSTANCE Timestamps

\* The days are those of a leap year.
ASSUME TimesAssumption ==
  /\ Years \subseteq Nat \ {0} /\ Epochs \subseteq Int
  /\ \A d \in Days :
       /\ d \in (1..12) \X (1..31)
       /\ d[1] \in {4, 6, 9, 11} => d[2] <= 30
       /\ d[1] = 2 => d[2] <= 29

-----------------------------------------------------------------------------
(* Severity mappings: an alias twice, a name that is none, values that overlap *)

Name(t) == [type |-> "text", text |-> t, upper |-> FALSE]
Number(n) == [type |-> "int", n |-> n]
Interval(a, b) == [type |-> "range", min |-> a, max |-> b]

MCSeverityConfigs ==
  [preset : {"none", "aliases", "otel", "default"},
   mapping : [{Name(<<"alias", 17>>), Name(<<"alias", 21>>), Name(<<"word", "eror">>)} ->
                { {Name(<<"class", 5>>), Name(<<"long", 17>>)}, {Number(503), Interval(12, 10)},
                  {Interval(502, 505), Name(<<"alias", 18>>)}, {[type |-> "bool"]} }]]

Severities == INSTANCE Severities

-----------------------------------------------------------------------------
(* Values of pairs: with blanks, apostrophes and delimiters *)

KVValues == SeqOf({"x", " ", "'"}, 2) \cup {<<"x", "=", "y">>, <<"x", ";">>}

TextFormats == INSTANCE TextFormats

-----------------------------------------------------------------------------
chainVars == <<chain, at, step, entry, before, errs, sent, result>>
timeVars == <<stamp, clock>>
severityVars == <<config, mapping, left, failed>>
mcVars == <<which, vars, chainVars, timeVars, severityVars, doc>>

\* The parts that are not chosen have one initial state each.
MCInit ==
  /\ which \in {"cache", "chain", "time", "severity", "format"}
  /\ value \in IF which = "cache" THEN [Callers -> Values]
               ELSE {CHOOSE v \in [Callers -> Values] : TRUE}
  /\ chain \in IF which = "chain" THEN Chains ELSE {<<Plain>>}
  /\ stamp \in IF which = "time" THEN Timestamps!Stamps
               ELSE {[kind |-> "zone", zone |-> "UTC", loc |-> "UTC"]}
  /\ config \in IF which = "severity" THEN SeverityConfigs ELSE {CHOOSE c \in SeverityConfigs : TRUE}
  /\ doc \in IF which = "format" THEN TextFormats!Docs
             ELSE {[format |-> "kv", pairs |-> <<>>, delimiter |-> ""]}
  /\ Init /\ Parsers!Init /\ Timestamps!Init /\ Severities!Init /\ TextFormats!Init
  /\ which # "chain" => entry.attributes = Absent

MCNext ==
  /\ UNCHANGED which
  /\ \/ /\ which = "cache" /\ Next
        /\ UNCHANGED <<chainVars, timeVars, severityVars, doc>>
     \/ /\ which = "chain" /\ Parsers!Next
        /\ UNCHANGED <<vars, timeVars, severityVars, doc>>
     \/ /\ which = "time" /\ Timestamps!Next
        /\ UNCHANGED <<vars, chainVars, severityVars, doc>>
     \/ /\ which = "severity" /\ Severities!Next
        /\ UNCHANGED <<vars, chainVars, timeVars, doc>>
     \/ /\ which = "format" /\ TextFormats!Next
        /\ UNCHANGED <<vars, chainVars, timeVars, severityVars>>
     \/ \* everything but the cache comes to an end
        which # "cache" /\ UNCHANGED mcVars

MCSpec ==
  /\ MCInit /\ [][MCNext]_mcVars
  /\ \A c \in Callers : SF_vars(add(c))
  /\ WF_vars(Limiter)

-----------------------------------------------------------------------------
\* A failing step of a parser does not touch what the others set.
StepsIndependent == Parsers!StepsIndependent

\* An operator sends an entry once or, as on_error says, not at all; two errors
\* that are not handled are left out.
SentOnce == Parsers!SentOnce

\* A time stamp is read as the moment it stands for.
TimesRight == Timestamps!TimesRight

\* A severity mapping is what was configured, in whatever order it is built.
MappingRight == Severities!MappingRight

\* csv_parser and key_value_parser read back what was written.
FormatsRight == TextFormats!FormatsRight

=============================================================================
