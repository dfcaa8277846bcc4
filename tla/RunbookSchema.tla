---------------------------- MODULE RunbookSchema ----------------------------
(***************************************************************************)
(* parse_runbook: a runbook is accepted as a whole or rejected with every  *)
(* error it has.  A field is the value itself where the parser tells       *)
(* values apart, and otherwise "bad" or not.                               *)
(***************************************************************************)
EXTENDS Naturals, Sequences, FiniteSets, SequencesExt

RISK_LEVELS == {"read-only", "mutating"}

\* An error is a step, 0 for the runbook itself, and a field.  The runbook's own;
\* description may be missing.
HeadErrors(raw) ==
  {<<0, f>> : f \in {g \in {"name", "service", "description"} : raw[g] = "bad"}}
    \cup (IF raw.steps = <<>> THEN {<<0, "steps">>} ELSE {})

\* The names that steps before the i-th have claimed, valid steps or not.
SeenBefore(steps, i) == {steps[j].name : j \in 1..i - 1} \ {"bad"}

\* Mutation: a step whose name is taken is passed over without an error.
StepErrorsNoDuplicates(steps, i) ==
  {f \in {"name", "action", "dry_run_capable"} : steps[i][f] = "bad"}
    \cup {f \in {"risk"} : steps[i].risk \notin RISK_LEVELS}

\* The fields of the i-th step that are wrong.
StepErrors(steps, i) ==
  {f \in {"name", "action", "dry_run_capable"} : steps[i][f] = "bad"}
    \cup {f \in {"name"} : steps[i].name \in SeenBefore(steps, i)}
    \cup {f \in {"risk"} : steps[i].risk \notin RISK_LEVELS}

\* The steps without an error, in order.
CleanSteps(steps) ==
  LET clean == {i \in DOMAIN steps : StepErrors(steps, i) = {}}
      Place(i) == Cardinality({j \in clean : j <= i})
  IN [k \in 1..Cardinality(clean) |-> steps[CHOOSE i \in clean : Place(i) = k]]

parse_runbook(raw) ==
  LET errors == HeadErrors(raw) \cup UNION {{<<i, f>> : f \in StepErrors(raw.steps, i)} :
                                              i \in DOMAIN raw.steps}
  IN IF errors = {} THEN [ok |-> TRUE, steps |-> CleanSteps(raw.steps)]
                    ELSE [ok |-> FALSE, errors |-> errors]

max_risk(steps) == IF \E i \in DOMAIN steps : steps[i].risk = "mutating"
                   THEN "mutating" ELSE "read-only"

-----------------------------------------------------------------------------
\* A runbook that is accepted is the one that was written: no step is missing or
\* out of place, each can be told by its name, and it counts as mutating exactly
\* if one of the steps written down mutates.
AcceptedIsWhole(raw) ==
  LET parsed == parse_runbook(raw)
  IN parsed.ok =>
       /\ parsed.steps = raw.steps
       /\ Cardinality({raw.steps[i].name : i \in DOMAIN raw.steps}) = Len(raw.steps)
       /\ max_risk(parsed.steps) = "mutating"
            <=> \E i \in DOMAIN raw.steps : raw.steps[i].risk = "mutating"
=============================================================================
