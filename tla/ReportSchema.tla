---------------------------- MODULE ReportSchema ----------------------------
(***************************************************************************)
(* What brain/schema_validator.py makes of an answer of the model.  A text *)
(* is a sequence of lines of tokens, a JSON value a record with its type;  *)
(* a key that is not there has type "absent".  A string is told apart only *)
(* as far as the code does: its text is a name, "" and " " are blank, and  *)
(* "surrogate" stands for one that UTF-8 cannot encode.                    *)
(***************************************************************************)
EXTENDS Integers, SequencesExt, FiniteSetsExt

\* The keys of an answer the code looks at; one that is not there is Absent.
Fields == {"incident_id", "hypotheses", "suggested_actions", "missing_context", "prompt_version"}

RISK_LEVELS == {"read-only", "mutating"}
MAX_HYPOTHESES == 5

Str(text) == [type |-> "string", text |-> text]
Num(hundredths) == [type |-> "number", value |-> hundredths]
List(items) == [type |-> "list", items |-> items]
Absent == [type |-> "absent"]

NonBlank(v) == v.type = "string" /\ v.text \notin {"", " "}
StringList(v) == v.type = "list" /\ \A e \in ToSet(v.items) : e.type = "string"

-----------------------------------------------------------------------------
Fence(line) == line # <<>> /\ Head(line) = "fence"

\* A fenced text loses its first line, unless that is its only one, and the
\* fences at its end.
StripFence(lines) ==
  IF lines = <<>> \/ ~Fence(Head(lines)) THEN lines
  ELSE LET start == IF Len(lines) > 1 THEN 2 ELSE 1
           end == Max({start - 1} \cup {e \in start..Len(lines) : ~Fence(lines[e])})
       IN SubSeq(lines, start, end)

\* extract_json_object: from the first { to the last } there must be one object.
Extractable(lines) ==
  LET tokens == FlattenSeq(StripFence(lines))
      opens  == {k \in DOMAIN tokens : tokens[k] = "{"}
      closes == {k \in DOMAIN tokens : tokens[k] = "}"}
  IN /\ opens # {} /\ closes # {}
     /\ SubSeq(tokens, Min(opens), Max(closes)) = <<"{", "members", "}">>

-----------------------------------------------------------------------------
ConfidenceOK(v) == v.type = "number" /\ 0 <= v.value /\ v.value <= 100

HypothesisOK(h) ==
  /\ h.type = "object" /\ NonBlank(h.cause) /\ ConfidenceOK(h.confidence)
  /\ h.evidence.type = "absent" \/ StringList(h.evidence)

ActionOK(a) ==
  /\ a.type = "object" /\ NonBlank(a.action)
  /\ a.risk.type = "string" /\ a.risk.text \in RISK_LEVELS
  /\ a.runbook_ref.type \in {"absent", "null", "string"}

HypothesisCountOK(v) == v.type = "list" /\ Len(v.items) \in 1..MAX_HYPOTHESES

\* An integer too large for a float and a risk that cannot be hashed raise
\* something else than ValueError.
Unvalidatable(doc) ==
  \/ /\ HypothesisCountOK(doc.hypotheses)
     /\ \E h \in ToSet(doc.hypotheses.items) : h.type = "object" /\ h.confidence.type = "huge integer"
  \/ /\ doc.suggested_actions.type = "list"
     /\ \E a \in ToSet(doc.suggested_actions.items) :
          a.type = "object" /\ a.risk.type \in {"list", "object"}

\* Every field as the contract has it.
WellFormed(doc) ==
  /\ NonBlank(doc.incident_id)
  /\ HypothesisCountOK(doc.hypotheses)
  /\ \A h \in ToSet(doc.hypotheses.items) : HypothesisOK(h)
  /\ doc.suggested_actions.type = "list"
  /\ \A a \in ToSet(doc.suggested_actions.items) : ActionOK(a)
  /\ StringList(doc.missing_context)
  /\ doc.prompt_version = Str("semver")

\* Mutation: a report about another incident is accepted.
validate_any_incident(doc, expected) ==
  IF Unvalidatable(doc) THEN "raises" ELSE IF WellFormed(doc) THEN "report" ELSE "ValueError"

\* validate_report: a report, or one ValueError with every mistake in it.
validate_report(doc, expected) ==
  IF Unvalidatable(doc) THEN "raises"
  ELSE IF WellFormed(doc) /\ doc.incident_id = Str(expected) THEN "report" ELSE "ValueError"

-----------------------------------------------------------------------------
Encodable(v) == v.type = "string" => v.text # "surrogate"
EncodableList(v) == v.type = "list" => \A e \in ToSet(v.items) : Encodable(e)

\* save_prediction stores these texts as they are; those of missing_context it
\* stores in ASCII.
Storable(doc) ==
  /\ \A h \in ToSet(doc.hypotheses.items) : Encodable(h.cause) /\ EncodableList(h.evidence)
  /\ \A a \in ToSet(doc.suggested_actions.items) : Encodable(a.action) /\ Encodable(a.runbook_ref)

\* _write_shadow_report writes them all as UTF-8.
Writable(doc) == Storable(doc) /\ EncodableList(doc.missing_context)
=============================================================================
