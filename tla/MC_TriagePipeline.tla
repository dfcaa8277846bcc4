------------------------- MODULE MC_TriagePipeline -------------------------
(* Two runs about one incident share its budget and two providers; the     *)
(* answers are a good report in several wrappings and its usual mistakes.  *)
EXTENDS TriagePipeline, TLC

CONSTANTS i1, i2, r1, r2

MCIncidents == {i1}
MCIncidentOf == [r \in Runs |-> i1]
MCDegraded == {r1}
MCReplies == {"choices", "http error", "unreachable", "no choices", "not json", "odd usage"}

Hypothesis == [type |-> "object", cause |-> Str("text"), confidence |-> Num(90), evidence |-> Absent]
Action == [type |-> "object", action |-> Str("text"), risk |-> Str("mutating"), runbook_ref |-> Absent]
Report ==
  [incident_id |-> Str(i1), hypotheses |-> List(<<Hypothesis>>), suggested_actions |-> List(<<Action>>),
   missing_context |-> List(<<>>), prompt_version |-> Str("semver")]
WithConfidence(v) == [Report EXCEPT !.hypotheses = List(<<[Hypothesis EXCEPT !.confidence = v]>>)]
WithRisk(v) == [Report EXCEPT !.suggested_actions = List(<<Action, [Action EXCEPT !.risk = v]>>)]

Object == <<"{", "members", "}">>
Wrappings == {<<Object>>, <<<<"fence", "json">>, Object, <<"fence">>>>, <<<<"noise">> \o Object, <<"noise">>>>,
              <<<<"fence">> \o Object>>, <<<<"{", "members">>>>, <<Object \o Object>>}

MCAnswers ==
  {[lines |-> w, members |-> Report] : w \in Wrappings} \cup
  {[lines |-> <<Object>>, members |-> m] : m \in
     { [Report EXCEPT !.missing_context = List(<<Str("surrogate")>>)],
       [Report EXCEPT !.hypotheses = List(<<[Hypothesis EXCEPT !.cause = Str("surrogate")]>>)],
       [Report EXCEPT !.incident_id = Str(i2)], [Report EXCEPT !.incident_id = Absent],
       [Report EXCEPT !.hypotheses = List(<<>>)],
       [Report EXCEPT !.hypotheses = List([k \in 1..6 |-> Hypothesis])],
       [Report EXCEPT !.prompt_version = Str("v2")], [Report EXCEPT !.missing_context = Absent],
       WithConfidence(Num(101)), WithConfidence([type |-> "boolean"]), WithConfidence([type |-> "huge integer"]),
       WithRisk(Str("none")), WithRisk(List(<<>>)), WithRisk(Absent) }}
=============================================================================
