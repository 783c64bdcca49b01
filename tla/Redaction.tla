----------------------------- MODULE Redaction ------------------------------
(***************************************************************************)
(* internal/redaction: how a policy document is parsed and applied.        *)
(*                                                                         *)
(* A document is a sequence of rules as an operator means them:            *)
(* [service, action, fields, serviceFirst], fields a function from field   *)
(* names to transforms, serviceFirst whether the rule is written with its  *)
(* service before its action.  Render gives the lines of the file, Parse   *)
(* the rules the code makes of lines.  A payload is a function from keys   *)
(* to values, or a value of Opaque: JSON that is not an object.            *)
(***************************************************************************)
EXTENDS Naturals, Sequences, FiniteSets

CONSTANTS
    LowerCase,     \* field names and payload keys -> their lower case
    NoPayload,     \* the body of an event without payload
    Opaque,        \* bodies that are not objects
    EmptyString    \* the value a mask leaves alone

LOCAL INSTANCE SequencesExt

ASSUME RedactionAssumption ==
    \A n \in DOMAIN LowerCase :
        LowerCase[n] \in DOMAIN LowerCase /\ LowerCase[LowerCase[n]] = LowerCase[n]

Wildcard == "*"

Transforms == {"hash", "mask", "drop", "none"}

-----------------------------------------------------------------------------
(* The lines of a document, in the grammar of the package comment.  In a   *)
(* rule that does not begin with its service, the parser takes "- action"  *)
(* and "service" for names of fields; a field named like a key of the      *)
(* grammar it takes for the key, wherever it stands.                       *)

Keys == {"rules", "action", "fields"}

FieldLine(name, transform) ==
    IF name = "action" THEN [kind |-> "action", name |-> "", value |-> transform]
    ELSE [kind |-> IF name \in Keys THEN "key" ELSE "field", name |-> name, value |-> transform]

HeadLines(r) ==
    IF r.serviceFirst
    THEN <<[kind |-> "service", name |-> "", value |-> r.service],
           [kind |-> "action", name |-> "", value |-> r.action]>>
    ELSE <<FieldLine("- action", r.action), FieldLine("service", r.service)>>

Render(doc) ==
    FlattenSeq([k \in 1..Len(doc) |->
        HeadLines(doc[k]) \o
        SetToSeq({FieldLine(n, doc[k].fields[n]) : n \in DOMAIN doc[k].fields})])

-----------------------------------------------------------------------------
(* Parse.  A line before the first "- service:" is ignored, and so are     *)
(* "rules" and "fields"; the last action given stays, and the first        *)
(* transform given for a name; any text is taken for a transform.          *)

NewRule(service) == [service |-> service, action |-> "", fields |-> [n \in {} |-> ""]]

KeepFirst(fields, name, transform) ==
    [n \in DOMAIN fields \cup {name} |-> IF n \in DOMAIN fields THEN fields[n] ELSE transform]

(* rules: those finished; current: the one being read, if any. *)
ParseLine(s, line) ==
    CASE line.kind = "service" ->
            [rules |-> s.rules \o s.current, current |-> <<NewRule(line.value)>>]
      [] line.kind = "action" /\ s.current # << >> ->
            [s EXCEPT !.current[1].action = line.value]
      [] line.kind = "field" /\ s.current # << >> ->
            [s EXCEPT !.current[1].fields = KeepFirst(@, line.name, line.value)]
      [] OTHER -> s

Parse(lines) ==
    LET s == FoldLeft(ParseLine, [rules |-> << >>, current |-> << >>], lines)
    IN  s.rules \o s.current

-----------------------------------------------------------------------------
(* Apply. *)

(* Mutant of RuleMatches: the action of a rule is not looked at. *)
ServiceMatches(r, service, action) == r.service \in {Wildcard, service}

RuleMatches(r, service, action) ==
    r.service \in {Wildcard, service} /\ r.action \in {Wildcard, action}

(* The transform for a key: that of the first matching rule which names    *)
(* its lower case.                                                         *)
KeyTransform(rules, key) ==
    LET naming == {k \in DOMAIN rules : LowerCase[key] \in DOMAIN rules[k].fields}
    IN  IF naming = {} THEN "none"
        ELSE rules[CHOOSE k \in naming : \A l \in naming : k <= l].fields[LowerCase[key]]

(* The value a transform leaves; a text that names no transform leaves it. *)
Transformed(t, v) ==
    IF t = "hash" \/ (t = "mask" /\ v # EmptyString) THEN <<t, v>> ELSE v

(* What is stored for a body, whether it was changed, and whether decoding *)
(* it failed: a body that no rule matches is not decoded.                  *)
Apply(policy, service, action, body) ==
    LET rules == SelectSeq(policy, LAMBDA r : RuleMatches(r, service, action))
        kept == {k \in DOMAIN body : KeyTransform(rules, k) # "drop"}
        out == [k \in kept |-> Transformed(KeyTransform(rules, k), body[k])]
    IN  IF body = NoPayload \/ rules = << >> THEN [ok |-> TRUE, body |-> body, changed |-> FALSE]
        ELSE IF body \in Opaque THEN [ok |-> FALSE, body |-> body, changed |-> FALSE]
        ELSE [ok |-> TRUE, body |-> out, changed |-> out # body]

-----------------------------------------------------------------------------
(* What the package comment promises of a document.                        *)

(* The rules that apply to an event and name a key, in any case. *)
Naming(doc, service, action, key) ==
    {k \in DOMAIN doc : /\ doc[k].service \in {Wildcard, service}
                        /\ doc[k].action \in {Wildcard, action}
                        /\ \E n \in DOMAIN doc[k].fields : LowerCase[n] = LowerCase[key]}

(* The transform the document asks for: its first such rule decides. *)
Asked(doc, service, action, key) ==
    LET naming == Naming(doc, service, action, key)
        first == CHOOSE k \in naming : \A l \in naming : k <= l
    IN  IF naming = {} THEN "none"
        ELSE doc[first].fields[CHOOSE n \in DOMAIN doc[first].fields :
                                  LowerCase[n] = LowerCase[key]]

(* Documents the parser understands: each rule begins with its service and *)
(* names its fields in lower case, none like a key of the grammar, with a  *)
(* known transform.                                                        *)
Understood(doc) ==
    \A k \in DOMAIN doc :
        /\ doc[k].serviceFirst
        /\ \A n \in DOMAIN doc[k].fields :
              /\ LowerCase[n] = n /\ n \notin Keys
              /\ doc[k].fields[n] \in Transforms
=============================================================================
