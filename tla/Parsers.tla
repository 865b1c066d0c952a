------------------------------ MODULE Parsers -------------------------------
(***************************************************************************)
(* One entry on its way through a chain of parser operators: those built   *)
(* on ParserOperator (json, regex, key_value, uri, csv and syslog) and the *)
(* ones that set one field of the entry (time, severity, trace and scope). *)
(*                                                                         *)
(* Abstraction.  What a parse function returns is known for each operator: *)
(* a map from names to values that are good or bad for the parser that     *)
(* reads them, or an error.  A field of the entry is the number of the     *)
(* operator that set it, 0 if it is as it came.                            *)
(***************************************************************************)
EXTENDS Integers, Sequences

CONSTANTS
  Chains,      \* sequences of operators, see Operator
  Arrivals     \* the attributes an entry may come with

VARIABLES
  chain,     \* the operators
  at,        \* the one that has the entry
  pc,        \* where its Process is
  entry,
  before,    \* the entry as Process got it
  errs,      \* the steps of ParseWith that failed
  sent,      \* how often this operator has written the entry
  result     \* what Process returned: "nil" or "error"

parserVars == <<chain, at, pc, entry, before, errs, sent, result>>

TraceParts == {"trace_id", "span_id"}
Names == {"timestamp", "severity", "scope"} \cup TraceParts
Outcomes == [Names -> {"absent", "good", "bad"}]
Steps == <<"time", "severity", "trace", "scope">>
None == -1

\* An operator: its type, on_error, the outcome of its `if', whether its parse
\* function fails, what it returns, parse_to, its embedded parsers and the
\* place they read; for csv_parser with a header_attribute, whether it is there.
Operator ==
  [type : {"parser", "syslog", "csv", "time", "severity", "trace", "scope"},
   onError : {"send", "drop"}, if : {"true", "false", "error"}, parses : BOOLEAN, parsed : Outcomes,
   to : {"attributes", "body"}, steps : SUBSET {"time", "severity", "trace", "scope"},
   from : {"attributes", "body"}, header : BOOLEAN]

op == chain[at]
IsParser == op.type \in {"parser", "syslog", "csv"}

Nothing == [n \in Names |-> "absent"]

Init ==
  /\ chain \in Chains
  /\ at = 1 /\ pc = "process" /\ errs = {} /\ sent = 0 /\ result = "nil"
  /\ \E a \in Arrivals :
       entry = [timestamp |-> 0, severity |-> 0, scope |-> 0, trace |-> [p \in TraceParts |-> 0],
                attributes |-> a, body |-> Nothing]
  /\ before = entry

-----------------------------------------------------------------------------
(* How Process ends *)

Return(write, err) ==
  /\ sent' = IF write THEN sent + 1 ELSE sent
  /\ result' = err
  /\ pc' = "returned"
  /\ UNCHANGED <<chain, at, before>>

WriteEntry == Return(TRUE, "nil")

\* Mutant: the entry is sent whatever on_error is.
MutSends == TRUE

Sends == op.onError = "send"

HandleEntryError == Return(Sends, "error")

Goto(next) == pc' = next /\ UNCHANGED <<chain, at, before, sent, result>>

-----------------------------------------------------------------------------
(* ProcessWith of both bases: the condition *)

\* CSVParser.Process returns by itself if the header is missing.
HeaderMissing ==
  /\ pc = "process" /\ op.type = "csv" /\ ~op.header
  /\ Return(FALSE, "error")
  /\ UNCHANGED <<entry, errs>>

Skip ==
  /\ pc = "process" /\ ~(op.type = "csv" /\ ~op.header)
  /\ \/ op.if = "error" /\ HandleEntryError
     \/ op.if = "false" /\ WriteEntry
     \/ op.if = "true" /\ Goto(IF IsParser THEN "parse" ELSE "transform")
  /\ UNCHANGED <<entry, errs>>

-----------------------------------------------------------------------------
(* The parsers of single fields; each gives the new entry and whether it failed *)

Source(e, name) == e[op.from][name]

Put(e, name, field) == IF Source(e, name) = "good" THEN [e EXCEPT ![field] = at] ELSE e

\* TraceParser.Parse: a part that is missing or bad is cleared, and only a bad
\* one is an error.
TraceParse(e) ==
  [e EXCEPT !.trace = [p \in TraceParts |-> IF Source(e, p) = "good" THEN at ELSE None]]

Parse(step, e) ==
  CASE step = "time" -> Put(e, "timestamp", "timestamp")
    [] step = "severity" -> Put(e, "severity", "severity")
    [] step = "scope" -> Put(e, "scope", "scope")
    [] step = "trace" -> TraceParse(e)

Fails(step, e) ==
  CASE step = "time" -> Source(e, "timestamp") # "good"
    [] step = "severity" -> Source(e, "severity") # "good"
    [] step = "scope" -> Source(e, "scope") # "good"
    [] step = "trace" -> \E p \in TraceParts : Source(e, p) = "bad"

-----------------------------------------------------------------------------
(* time_parser, severity_parser, trace_parser, scope_name_parser *)

Transform ==
  /\ pc = "transform"
  /\ entry' = Parse(op.type, entry)
  /\ IF Fails(op.type, entry) THEN HandleEntryError ELSE WriteEntry
  /\ UNCHANGED errs

-----------------------------------------------------------------------------
(* ParserOperator.ParseWith *)

\* The values that are there are merged into parse_to.
Merged(e) ==
  [e EXCEPT ![op.to] = [n \in Names |-> IF op.parsed[n] = "absent" THEN @[n] ELSE op.parsed[n]]]

ParseValue ==
  /\ pc = "parse"
  /\ IF op.parses THEN entry' = Merged(entry) /\ Goto("time")
     ELSE UNCHANGED entry /\ HandleEntryError
  /\ UNCHANGED errs

\* Mutant: the first error ends ParseWith's attempts.
MutAttempted(step) == step \in op.steps /\ errs = {}

Attempted(step) == step \in op.steps

\* Every embedded parser is tried, whatever the ones before it returned.
ParseStep(i) ==
  /\ pc = Steps[i]
  /\ entry' = IF Attempted(Steps[i]) THEN Parse(Steps[i], entry) ELSE entry
  /\ errs' = IF Attempted(Steps[i]) /\ Fails(Steps[i], entry) THEN errs \cup {Steps[i]} ELSE errs
  /\ Goto(IF i = Len(Steps) THEN "errors" ELSE Steps[i + 1])

\* The first error is handled; the callback runs only without one.
HandleErrors ==
  /\ pc = "errors"
  /\ IF errs # {} THEN HandleEntryError
     ELSE IF op.type = "syslog" THEN Goto("callback") ELSE WriteEntry
  /\ UNCHANGED <<entry, errs>>

\* postprocess of syslog_parser moves the severity from the attributes to the
\* entry and removes the timestamp; an error is returned and not handled.
Postprocess ==
  /\ pc = "callback"
  /\ LET sev == entry.attributes["severity"]
         e == IF sev = "good" THEN [entry EXCEPT !.severity = at] ELSE entry
         gone == IF sev = "good" THEN {"severity", "timestamp"} ELSE {"severity"}
         bad == sev # "good" \/ entry.attributes["timestamp"] = "absent"
     IN /\ entry' = [e EXCEPT !.attributes =
                       [n \in Names |-> IF n \in gone THEN "absent" ELSE @[n]]]
        /\ IF bad THEN Return(FALSE, "error") ELSE WriteEntry
  /\ UNCHANGED errs

\* An entry that was written is at the next operator.
Forward ==
  /\ pc = "returned" /\ sent > 0 /\ at < Len(chain)
  /\ at' = at + 1 /\ pc' = "process" /\ errs' = {} /\ sent' = 0 /\ result' = "nil"
  /\ before' = entry
  /\ UNCHANGED <<chain, entry>>

Next ==
  \/ HeaderMissing \/ Skip \/ Transform
  \/ ParseValue \/ \E i \in DOMAIN Steps : ParseStep(i)
  \/ HandleErrors \/ Postprocess \/ Forward

-----------------------------------------------------------------------------
Tried == op.if = "true" /\ (IsParser => op.parses /\ (op.type = "csv" => op.header))

Tries(step) == Tried /\ step \in (IF IsParser THEN op.steps ELSE {op.type})

\* What the steps read: the entry as it came, with what the operator parsed.
Read(name) == (IF IsParser THEN Merged(before) ELSE before)[op.from][name]

\* A step that fails neither keeps the others from setting their field nor
\* touches what its own field was before, except that trace clears the parts it
\* cannot read; an operator that was skipped or could not parse changes nothing.
\* A syslog message without errors leaves its severity on the entry, and neither
\* severity nor timestamp among the attributes.
StepsIndependent ==
  LET Set(step, name, field) ==
        entry[field] = IF Tries(step) /\ Read(name) = "good" THEN at ELSE before[field]
      processed == op.type = "syslog" /\ Tried /\ errs = {}
  IN pc = "returned" =>
       /\ ~Tried => entry = before
       /\ Set("time", "timestamp", "timestamp")
       /\ Set("scope", "scope", "scope")
       /\ entry.trace = IF Tries("trace")
                        THEN [p \in TraceParts |-> IF Read(p) = "good" THEN at ELSE None]
                        ELSE before.trace
       /\ processed \/ Set("severity", "severity", "severity")
       /\ processed /\ result = "nil" =>
            /\ entry.severity = at
            /\ {entry.attributes["severity"], entry.attributes["timestamp"]} = {"absent"}

\* With on_error: send an operator sends every entry on, once, also when it
\* returns an error, and with drop exactly those without error.  Left out are the
\* two errors that Process returns without handling them, of csv_parser without
\* its header and of syslog_parser's callback: there the entry is lost, against
\* docs/types/on_error.md ("it will still send the entry down the pipeline").  No
\* entry is sent twice in any case.
SentOnce ==
  LET unhandled == \/ op.type = "csv" /\ ~op.header
                   \/ /\ op.type = "syslog" /\ Tried /\ errs = {} /\ result = "error"
                      /\ LET attributes == Merged(before).attributes
                         IN attributes["severity"] # "good" \/ attributes["timestamp"] = "absent"
  IN pc = "returned" =>
       /\ sent <= 1
       /\ unhandled \/ sent = IF result = "error" /\ op.onError = "drop" THEN 0 ELSE 1

=============================================================================
