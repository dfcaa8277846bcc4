----------------------- MODULE TriagePipeline_proofs -----------------------
(***************************************************************************)
(* Proofs about TriagePipeline, for every set of runs and incidents, chain *)
(* of providers, pool, budget and whatever the model may answer.           *)
(***************************************************************************)
EXTENDS TriagePipeline, FiniteSetTheorems, TLAPS

-----------------------------------------------------------------------------
(* The inductive invariants.                                               *)

\* Runs of an incident that may spend a call of its budget: they passed
\* assert_can_spend and have not recorded what the answer cost.
InChain == {"provider", "queued", "calling", "success", "close", "failure", "count", "record"}
Spending(i) == {r \in RunsOf(i) : pc[r] \in InChain}

\* What was spent and what may still be exceeds the limit by less than a call
\* for each run.
BudgetInv ==
  \A i \in Incidents :
    \/ calls_used[i] = 0 /\ Spending(i) = {}
    \/ calls_used[i] + Cardinality(Spending(i)) <= max_calls + Cardinality(RunsOf(i)) - 1

\* A run whose incident was closed early has not got past the checkpoint that
\* will stop it.
ClosedInv ==
  \A r \in closedEarly :
    pc[r] \in {"checkpoint 2", "aborted"} /\ attempt[r] = 0 /\ IncidentOf[r] \notin active

\* Rows of an incident, and its runs that stand at a label.
RowsOf(i) == {row \in predictions : IncidentOf[row.run] = i}
RunsAt(i, label) == {r \in RunsOf(i) : pc[r] = label}

\* A row is of an earlier attempt than the one its run is at, unless the run
\* has nothing more to save.
RowsBehind ==
  /\ IsFiniteSet(predictions)
  /\ \A row \in predictions :
       /\ row.run \in Runs /\ row.attempt \in {0, 1}
       /\ \/ pc[row.run] \in {"report", "degraded", "gave up"}
          \/ row.attempt < attempt[row.run]
          \/ pc[row.run] = "complete" /\ row.attempt <= attempt[row.run]

\* The timeline has an event for every end, and for every row but the one whose
\* event is about to be written.
OutcomeInv ==
  /\ RowsBehind
  /\ \A r \in Runs : pc[r] \in {"complete", "report"} => \E row \in predictions : row.run = r
  /\ \A i \in Incidents :
       /\ outcomes[i]["triage_completed"] + Cardinality(RunsAt(i, "complete")) = Cardinality(RowsOf(i))
       /\ outcomes[i]["triage_aborted"] = Cardinality(RunsAt(i, "aborted"))
       /\ outcomes[i]["schema_failure"] = Cardinality(RunsAt(i, "gave up"))

\* What was validated for a run is what the contract asks of its report.
Meets(doc, r) ==
  /\ doc.incident_id = Str(IncidentOf[r])
  /\ Len(doc.hypotheses.items) \in 1..5
  /\ \A h \in ToSet(doc.hypotheses.items) : 0 <= h.confidence.value /\ h.confidence.value <= 100
  /\ \A a \in ToSet(doc.suggested_actions.items) : a.risk.text \in {"read-only", "mutating"}

ContractInv ==
  /\ \A r \in Runs : pc[r] = "save" => Meets(report[r], r)
  /\ \A row \in predictions :
       Meets(row.report, row.run) /\ (row.run \in Degraded => row.report.missing_context.items # <<>>)

PipelineInv == TypeOK /\ BudgetInv /\ ClosedInv /\ OutcomeInv /\ ContractInv

-----------------------------------------------------------------------------
(* Lemmas.                                                                 *)

\* The numbers among the parameters.
LEMMA Numbers ==
  /\ LastProvider \in Nat \ {0} /\ PoolSize \in Nat \ {0} /\ max_calls \in Nat /\ MaxCooldowns \in Nat
BY PipelineAssumption

\* The sets of runs that are counted are finite.
LEMMA RunsFinite ==
  ASSUME NEW S \in SUBSET Runs
  PROVE  IsFiniteSet(S) /\ Cardinality(S) \in Nat
BY PipelineAssumption, FS_Subset, FS_CardinalityType

\* Completing a report leaves every field but missing_context.
LEMMA AmendedFields ==
  ASSUME NEW doc \in Documents
  PROVE  /\ doc # NoReport /\ Amended(doc) # NoReport
         /\ Amended(doc).incident_id = doc.incident_id
         /\ Amended(doc).hypotheses = doc.hypotheses
         /\ Amended(doc).suggested_actions = doc.suggested_actions
         /\ Amended(doc).missing_context.items # <<>>
<1>1. DOMAIN doc = Fields /\ DOMAIN Amended(doc) = Fields
  BY PipelineAssumption DEF Documents, Amended
<1>2. "incident_id" \in Fields /\ DOMAIN NoReport = {"type"} /\ "incident_id" # "type"
  BY DEF Fields, NoReport, Absent
<1>3. doc # NoReport /\ Amended(doc) # NoReport
  BY <1>1, <1>2
<1>4. List(<<Str("context unavailable")>>).items # <<>>
  BY DEF List
<1> QED
  BY <1>1, <1>3, <1>4 DEF Amended, Fields

\* What Completed makes of the report of a run that saves it.
LEMMA CompletedFields ==
  ASSUME NEW r, report[r] \in Documents
  PROVE  /\ Completed(r) \in Documents \cup {Amended(doc) : doc \in Documents}
         /\ Completed(r) # NoReport
         /\ Completed(r).incident_id = report[r].incident_id
         /\ Completed(r).hypotheses = report[r].hypotheses
         /\ Completed(r).suggested_actions = report[r].suggested_actions
         /\ r \in Degraded => Completed(r).missing_context.items # <<>>
BY AmendedFields DEF Completed

\* g is f, except perhaps at r.
OnlyAt(f, g, r, S) == g = f \/ \E x \in S : g = [f EXCEPT ![r] = x]

\* A step of a run writes the variables of that run.
LEMMA Local ==
  ASSUME RunType, SharedType, NEW r \in Runs, Step(r)
  PROVE  /\ OnlyAt(pc, pc', r, Labels) /\ OnlyAt(attempt, attempt', r, {0, 1})
         /\ OnlyAt(provider, provider', r, Providers) /\ OnlyAt(readCount, readCount', r, Nat)
<1> DEFINE Labelled == OnlyAt(pc, pc', r, Labels)
           Rest == /\ OnlyAt(attempt, attempt', r, {0, 1}) /\ OnlyAt(provider, provider', r, Providers)
                   /\ OnlyAt(readCount, readCount', r, Nat)
<1>0. /\ 1 \in Providers /\ \A p \in Providers : p # LastProvider => p + 1 \in Providers
      /\ provider[r] \in Providers /\ fails[provider[r]] \in Nat
  <2>1. LastProvider \in Nat \ {0}
    BY PipelineAssumption
  <2>2. provider[r] \in Providers
    BY DEF RunType
  <2> QED
    BY <2>1, <2>2 DEF Providers, SharedType
<1>l. Finished \cup {"checkpoint", "spend", "provider", "queued", "calling", "success", "close", "failure",
        "count", "record", "checkpoint 2", "validate", "save", "complete", "degraded"} \subseteq Labels
  BY DEF Labels
<1>f. Fallback(r) => Labelled /\ OnlyAt(provider, provider', r, Providers)
  <2>1. provider[r] # LastProvider => provider[r] + 1 \in Providers
    BY <1>0
  <2> QED
    BY <1>0, <2>1 DEF Fallback, Goto, OnlyAt, Labels
<1>r. Repair(r) => Labelled /\ OnlyAt(attempt, attempt', r, {0, 1})
  BY DEF Repair, Goto, OnlyAt, Labels
<1>1. CASE CheckpointBefore(r)
  BY <1>0, <1>1 DEF CheckpointBefore, Goto, OnlyAt, Labels, Finished
<1>2. CASE AssertCanSpend(r)
  BY <1>0, <1>2 DEF AssertCanSpend, Goto, OnlyAt, Labels, Finished
<1>3. CASE RecordSpent(r)
  BY <1>0, <1>3 DEF RecordSpent, Goto, OnlyAt, Labels, Finished
<1>4. CASE CheckpointAfter(r)
  BY <1>0, <1>4 DEF CheckpointAfter, Goto, OnlyAt, Labels, Finished
<1>5. CASE Validate(r)
  <2>1. UNCHANGED <<provider, readCount>>
    BY <1>5 DEF Validate
  <2>2. \/ Repair(r)
        \/ /\ attempt' = attempt \/ attempt' = [attempt EXCEPT ![r] = 0]
           /\ \E l \in {"save", "complete", "report", "degraded"} : pc' = [pc EXCEPT ![r] = l]
    BY <1>5 DEF Validate, Goto
  <2> QED
    BY <1>r, <2>1, <2>2 DEF OnlyAt, Labels, Finished
<1>6. CASE SavePrediction(r)
  <2>1. UNCHANGED <<provider, readCount>>
    BY <1>6 DEF SavePrediction
  <2>2. \/ Repair(r)
        \/ /\ attempt' = attempt \/ attempt' = [attempt EXCEPT ![r] = 0]
           /\ \E l \in {"save", "complete", "report", "degraded"} : pc' = [pc EXCEPT ![r] = l]
    BY <1>6 DEF SavePrediction, Goto
  <2> QED
    BY <1>r, <2>1, <2>2 DEF OnlyAt, Labels, Finished
<1>7. CASE LogCompleted(r)
  <2>1. UNCHANGED <<provider, readCount>>
    BY <1>7 DEF LogCompleted
  <2>2. \/ Repair(r)
        \/ /\ attempt' = attempt \/ attempt' = [attempt EXCEPT ![r] = 0]
           /\ \E l \in {"save", "complete", "report", "degraded"} : pc' = [pc EXCEPT ![r] = l]
    BY <1>7 DEF LogCompleted, Goto
  <2> QED
    BY <1>r, <2>1, <2>2 DEF OnlyAt, Labels, Finished
<1>8. CASE Degrade(r)
  BY <1>0, <1>8 DEF Degrade, Goto, OnlyAt, Labels, Finished
<1>9. CASE Submit(r)
  <2>1. \/ Fallback(r)
        \/ provider' = provider /\ pc' \in {[pc EXCEPT ![r] = "calling"], [pc EXCEPT ![r] = "queued"]}
    BY <1>9 DEF Submit, Goto
  <2>2. UNCHANGED <<attempt, readCount>>
    BY <1>9 DEF Submit
  <2> QED
    BY <1>f, <2>1, <2>2 DEF OnlyAt, Labels
<1>10. CASE Start(r)
  BY <1>0, <1>10 DEF Start, Goto, OnlyAt, Labels, Finished
<1>11. CASE Return(r)
  <2>1. UNCHANGED <<attempt, readCount>> /\ (provider' = provider \/ provider' = [provider EXCEPT ![r] = 1])
    BY <1>11 DEF Return
  <2>2. PICK reply \in Replies : pc' = [pc EXCEPT ![r] = complete(reply)]
    BY <1>11 DEF Return, Goto
  <2>3. complete(reply) \in Labels
    BY PipelineAssumption DEF complete, Labels
  <2> QED
    BY <1>0, <2>1, <2>2, <2>3 DEF OnlyAt
<1>12. CASE Timeout(r)
  BY <1>0, <1>12 DEF Timeout, Goto, OnlyAt, Labels, Finished
<1>13. CASE ResetCount(r)
  BY <1>0, <1>13 DEF ResetCount, Goto, OnlyAt, Labels, Finished
<1>14. CASE CloseBreaker(r)
  BY <1>0, <1>14 DEF CloseBreaker, Goto, OnlyAt, Labels, Finished
<1>15. CASE ReadFailures(r)
  BY <1>0, <1>15 DEF ReadFailures, Goto, OnlyAt, Labels, Finished
<1>16. CASE WriteFailures(r)
  <2>1. Fallback(r) /\ readCount' = [readCount EXCEPT ![r] = 0] /\ attempt' = attempt
    BY <1>16 DEF WriteFailures
  <2> QED
    BY <1>f, <2>1 DEF OnlyAt
<1> QED
  BY <1>1, <1>2, <1>3, <1>4, <1>5, <1>6, <1>7, <1>8, <1>9, <1>10, <1>11, <1>12, <1>13, <1>14, <1>15, <1>16 DEF Step

\* No other run notices.
LEMMA Alone ==
  ASSUME RunType, SharedType, NEW r \in Runs, Step(r)
  PROVE  /\ pc' \in [Runs -> Labels] /\ attempt' \in [Runs -> {0, 1}]
         /\ provider' \in [Runs -> Providers] /\ readCount' \in [Runs -> Nat]
         /\ \A q \in Runs : q # r => UNCHANGED <<pc[q], attempt[q], provider[q], readCount[q]>>
<1>1. /\ OnlyAt(pc, pc', r, Labels) /\ OnlyAt(attempt, attempt', r, {0, 1})
      /\ OnlyAt(provider, provider', r, Providers) /\ OnlyAt(readCount, readCount', r, Nat)
  BY Local
<1>2. /\ pc \in [Runs -> Labels] /\ attempt \in [Runs -> {0, 1}]
      /\ provider \in [Runs -> Providers] /\ readCount \in [Runs -> Nat]
  BY DEF RunType
<1>3. pc' \in [Runs -> Labels] /\ \A q \in Runs : q # r => pc'[q] = pc[q]
  BY <1>1, <1>2 DEF OnlyAt
<1>4. attempt' \in [Runs -> {0, 1}] /\ \A q \in Runs : q # r => attempt'[q] = attempt[q]
  BY <1>1, <1>2 DEF OnlyAt
<1>5. provider' \in [Runs -> Providers] /\ \A q \in Runs : q # r => provider'[q] = provider[q]
  BY <1>1, <1>2 DEF OnlyAt
<1>6. readCount' \in [Runs -> Nat] /\ \A q \in Runs : q # r => readCount'[q] = readCount[q]
  BY <1>1, <1>2 DEF OnlyAt
<1> QED
  BY <1>3, <1>4, <1>5, <1>6

-----------------------------------------------------------------------------
(* Types, and the pools.                                                   *)

\* A report is held exactly from its validation to its event.
LEMMA RunStep ==
  ASSUME RunType, SharedType, NEW r \in Runs, Step(r)
  PROVE  RunType'
<1> USE DEF Goto
<1>1. /\ pc' \in [Runs -> Labels] /\ attempt' \in [Runs -> {0, 1}]
      /\ provider' \in [Runs -> Providers] /\ readCount' \in [Runs -> Nat]
      /\ \A q \in Runs : q # r => UNCHANGED pc[q]
  BY Alone
<1>5. /\ report' \in [Runs -> {NoReport} \cup Documents \cup {Amended(doc) : doc \in Documents}]
      /\ report'[r] # NoReport <=> pc'[r] \in {"save", "complete"}
      /\ pc'[r] = "save" => report'[r] \in Documents
  <2>1. CASE Validate(r)
    <3>1. PICK answer \in Answers :
            \/ report' = [report EXCEPT ![r] = answer.members] /\ pc' = [pc EXCEPT ![r] = "save"]
            \/ Repair(r) /\ report' = report
            \/ pc' = [pc EXCEPT ![r] = "degraded"] /\ report' = report
      BY <2>1 DEF Validate
    <3>2. pc[r] = "validate" /\ answer.members \in Documents /\ answer.members # NoReport
      BY <2>1, AmendedFields DEF Validate, Documents
    <3> QED
      BY <3>1, <3>2 DEF RunType, Repair
  <2>2. CASE SavePrediction(r)
    <3>1. pc[r] = "save" /\ report[r] \in Documents
      BY <2>2 DEF SavePrediction, RunType
    <3>2. \/ report' = [report EXCEPT ![r] = Completed(r)] /\ pc' = [pc EXCEPT ![r] = "complete"]
          \/ report' = [report EXCEPT ![r] = NoReport] /\ Repair(r)
      BY <2>2 DEF SavePrediction
    <3>3. /\ Completed(r) \in Documents \cup {Amended(doc) : doc \in Documents}
          /\ Completed(r) # NoReport
      BY <3>1, CompletedFields
    <3>4. CASE report' = [report EXCEPT ![r] = Completed(r)] /\ pc' = [pc EXCEPT ![r] = "complete"]
      BY <3>3, <3>4 DEF RunType
    <3>5. CASE report' = [report EXCEPT ![r] = NoReport] /\ Repair(r)
      BY <3>5 DEF RunType, Repair
    <3> QED
      BY <3>2, <3>4, <3>5
  <2>3. CASE LogCompleted(r)
    <3>1. /\ report' = [report EXCEPT ![r] = NoReport]
          /\ pc' = [pc EXCEPT ![r] = "report"] \/ pc' = [pc EXCEPT ![r] = "degraded"] \/ Repair(r)
      BY <2>3 DEF LogCompleted
    <3> QED
      BY <3>1 DEF RunType, Repair
  <2>4. CASE ~Validate(r) /\ ~SavePrediction(r) /\ ~LogCompleted(r)
    <3>1. report' = report /\ pc[r] \notin {"save", "complete"}
      BY <2>4 DEF Step, CheckpointBefore, AssertCanSpend, RecordSpent, CheckpointAfter, Degrade, Submit,
             Start, Return, Timeout, ResetCount, CloseBreaker, ReadFailures, WriteFailures, resultVars
    <3>2. pc'[r] \notin {"save", "complete"}
      <4>1. CASE Return(r)
        <5>1. PICK reply \in Replies : pc' = [pc EXCEPT ![r] = complete(reply)]
          BY <4>1 DEF Return
        <5>2. complete(reply) \notin {"save", "complete"}
          BY PipelineAssumption DEF complete
        <5> QED
          BY <5>1, <5>2 DEF RunType
      <4>2. CASE ~Return(r)
        BY <2>4, <4>2 DEF RunType, Step, CheckpointBefore, AssertCanSpend, RecordSpent, CheckpointAfter,
             Degrade, Submit, Start, Timeout, ResetCount, CloseBreaker, ReadFailures, WriteFailures, Fallback
      <4> QED
        BY <4>1, <4>2
    <3> QED
      BY <3>1, <3>2 DEF RunType
  <2> QED
    BY <2>1, <2>2, <2>3, <2>4
<1>6. \A q \in Runs : q # r => report'[q] = report[q]
  BY DEF RunType, Step, CheckpointBefore, AssertCanSpend, RecordSpent, CheckpointAfter, Validate,
         SavePrediction, LogCompleted, Degrade, Submit, Start, Return, Timeout, ResetCount, CloseBreaker,
         ReadFailures, WriteFailures, resultVars
<1> QED
  BY <1>1, <1>5, <1>6 DEF RunType

\* An event in the timeline counts one up.
LEMMA NoteCounts ==
  ASSUME SharedType, NEW r \in Runs, NEW e \in Events, Note(r, e)
  PROVE  /\ outcomes' \in [Incidents -> [Events -> Nat]]
         /\ \A i \in Incidents, x \in Events :
              outcomes'[i][x] = IF i = IncidentOf[r] /\ x = e THEN outcomes[i][x] + 1 ELSE outcomes[i][x]
<1> DEFINE i == IncidentOf[r]
           g == [outcomes[i] EXCEPT ![e] = outcomes[i][e] + 1]
<1>1. i \in Incidents
  BY PipelineAssumption
<1>2. outcomes' = [outcomes EXCEPT ![i] = g]
  BY DEF Note
<1> HIDE DEF i
<1>3. outcomes[i] \in [Events -> Nat] /\ outcomes[i][e] + 1 \in Nat
  BY <1>1 DEF SharedType
<1>4. /\ g \in [Events -> Nat] /\ g[e] = outcomes[i][e] + 1
      /\ \A x \in Events : x # e => g[x] = outcomes[i][x]
  BY <1>3
<1> HIDE DEF g
<1>5. outcomes' \in [Incidents -> [Events -> Nat]]
  BY <1>1, <1>2, <1>4 DEF SharedType
<1>6. outcomes'[i] = g /\ \A j \in Incidents : j # i => outcomes'[j] = outcomes[j]
  BY <1>1, <1>2 DEF SharedType
<1> QED
  BY <1>4, <1>5, <1>6 DEF i

\* Only ends are noted in the timeline.
LEMMA NotesOnly ==
  ASSUME NEW r \in Runs, Step(r)
  PROVE  outcomes' = outcomes \/ \E e \in Events : Note(r, e)
BY DEF Step, CheckpointBefore, AssertCanSpend, RecordSpent, CheckpointAfter, Validate, SavePrediction,
       LogCompleted, Degrade, Submit, Start, Return, Timeout, ResetCount, CloseBreaker, ReadFailures,
       WriteFailures, resultVars, Events

LEMMA SharedStep ==
  ASSUME RunType, SharedType, NEW r \in Runs, Step(r)
  PROVE  SharedType'
<1>1. outcomes' \in [Incidents -> [Events -> Nat]]
  BY NotesOnly, NoteCounts DEF SharedType
<1>2. active' = active /\ cooldowns' = cooldowns
  BY DEF Step, CheckpointBefore, AssertCanSpend, RecordSpent, CheckpointAfter, Validate, SavePrediction,
         LogCompleted, Degrade, Submit, Start, Return, Timeout, ResetCount, CloseBreaker, ReadFailures,
         WriteFailures, breakerVars
<1>3. CASE RecordSpent(r)
  <2> DEFINE i == IncidentOf[r]
  <2>1. i \in Incidents /\ Costs \subseteq Nat
    BY PipelineAssumption
  <2>2. PICK cost \in Costs : tokens_used' = [tokens_used EXCEPT ![i] = tokens_used[i] + cost]
    BY <1>3 DEF RecordSpent
  <2>3. calls_used' = [calls_used EXCEPT ![i] = calls_used[i] + 1]
    BY <1>3 DEF RecordSpent
  <2>4. closedEarly' \subseteq Runs /\ UNCHANGED <<fails, mode>>
    BY <1>3 DEF RecordSpent, SharedType, breakerVars
  <2> HIDE DEF i
  <2>5. calls_used[i] + 1 \in Nat /\ tokens_used[i] + cost \in Nat
    BY <2>1 DEF SharedType
  <2>6. calls_used' \in [Incidents -> Nat] /\ tokens_used' \in [Incidents -> Nat]
    BY <2>1, <2>2, <2>3, <2>5 DEF SharedType
  <2> QED
    BY <1>1, <1>2, <2>4, <2>6 DEF SharedType
<1>4. CASE ResetCount(r) \/ CloseBreaker(r) \/ WriteFailures(r)
  <2>1. provider[r] \in Providers /\ readCount[r] + 1 \in Nat
    BY DEF RunType
  <2>2. fails' = fails \/ fails' = [fails EXCEPT ![provider[r]] = 0]
          \/ fails' = [fails EXCEPT ![provider[r]] = readCount[r] + 1]
    BY <1>4 DEF ResetCount, CloseBreaker, WriteFailures
  <2>3. fails' \in [Providers -> Nat]
    BY <2>1, <2>2 DEF SharedType
  <2>4. mode' \in [Providers -> {"closed", "open", "half_open"}]
    BY <1>4, <2>1 DEF ResetCount, CloseBreaker, WriteFailures, SharedType
  <2>5. UNCHANGED <<calls_used, tokens_used, closedEarly>>
    BY <1>4 DEF ResetCount, CloseBreaker, WriteFailures, budgetVars
  <2> QED
    BY <1>1, <1>2, <2>3, <2>4, <2>5 DEF SharedType
<1>5. CASE ~RecordSpent(r) /\ ~(ResetCount(r) \/ CloseBreaker(r) \/ WriteFailures(r))
  <2>1. UNCHANGED <<calls_used, tokens_used, closedEarly, fails, mode>>
    BY <1>5 DEF Step, CheckpointBefore, AssertCanSpend, CheckpointAfter, Validate, SavePrediction,
           LogCompleted, Degrade, Submit, Start, Return, Timeout, ReadFailures, budgetVars, breakerVars
  <2> QED
    BY <1>1, <1>2, <2>1 DEF SharedType
<1> QED
  BY <1>3, <1>4, <1>5

\* No pool has more workers at work than it has: a call is started only on a
\* free one, and a call that timed out keeps its own.
LEMMA PoolStep ==
  ASSUME RunType, SharedType, PoolType, NEW r \in Runs, Step(r)
  PROVE  PoolType'
<1>0. /\ PoolSize \in Nat \ {0} /\ provider[r] \in Providers
      /\ \A p \in Providers : hung[p] \in Nat /\ hung[p] + Cardinality(Calling(p)) <= PoolSize
      /\ \A p \in Providers : /\ IsFiniteSet(Calling(p)) /\ Cardinality(Calling(p)) \in Nat
                              /\ IsFiniteSet(Calling(p)') /\ Cardinality(Calling(p)') \in Nat
  <2>1. \A p \in Providers : Calling(p) \in SUBSET Runs /\ Calling(p)' \in SUBSET Runs
    BY DEF Calling
  <2>2. \A p \in Providers : /\ IsFiniteSet(Calling(p)) /\ Cardinality(Calling(p)) \in Nat
                            /\ IsFiniteSet(Calling(p)') /\ Cardinality(Calling(p)') \in Nat
    BY <2>1, RunsFinite
  <2> QED
    BY <2>2, PipelineAssumption DEF RunType, PoolType
<1>a. \A q \in Runs : q # r => pc'[q] = pc[q] /\ provider'[q] = provider[q]
  BY Alone
<1>1. CASE hung' = hung /\ (pc'[r] = "calling" => pc[r] = "calling" /\ provider'[r] = provider[r])
  <2>1. ASSUME NEW p \in Providers PROVE hung'[p] + Cardinality(Calling(p)') <= PoolSize
    <3>1. Calling(p)' \in SUBSET Calling(p)
      BY <1>1, <1>a DEF Calling
    <3>2. Cardinality(Calling(p)') <= Cardinality(Calling(p))
      BY <1>0, <3>1, FS_Subset
    <3> QED
      BY <1>0, <1>1, <3>2
  <2> QED
    BY <1>1, <2>1 DEF PoolType
<1>2. CASE Submit(r) \/ Start(r)
  <2>1. CASE pc'[r] # "calling"
    BY <1>1, <1>2, <2>1 DEF Submit, Start
  <2>2. CASE pc'[r] = "calling"
    <3>1. /\ Cardinality(Calling(provider[r])) + hung[provider[r]] < PoolSize
          /\ provider' = provider /\ hung' = hung
      BY <1>2, <2>2 DEF Submit, Start, Goto, Fallback, RunType
    <3>2. ASSUME NEW p \in Providers PROVE hung'[p] + Cardinality(Calling(p)') <= PoolSize
      <4>1. CASE p = provider[r]
        <5>1. Calling(p)' = Calling(p) \cup {r}
          BY <1>a, <2>2, <3>1, <4>1 DEF Calling
        <5>2. IsFiniteSet(Calling(p))
          BY <1>0
        <5>3. Cardinality(Calling(p) \cup {r}) \in {Cardinality(Calling(p)), Cardinality(Calling(p)) + 1}
          BY <5>2, FS_AddElement
        <5> QED
          BY <1>0, <3>1, <4>1, <5>1, <5>3
      <4>2. CASE p # provider[r]
        <5>1. Calling(p)' = Calling(p)
          BY <1>a, <3>1, <4>2 DEF Calling
        <5> QED
          BY <1>0, <3>1, <5>1
      <4> QED
        BY <4>1, <4>2
    <3> QED
      BY <3>1, <3>2 DEF PoolType
  <2> QED
    BY <2>1, <2>2
<1>3. CASE Timeout(r)
  <2>0. pc'[r] = "failure" /\ provider' = provider
    BY <1>3 DEF Timeout, Goto, RunType
  <2>1. CASE pc[r] # "calling"
    BY <1>1, <1>3, <2>0, <2>1 DEF Timeout
  <2>2. CASE pc[r] = "calling"
    <3> DEFINE n == hung[provider[r]] + 1
    <3>1. hung' = [hung EXCEPT ![provider[r]] = n] /\ n \in Nat
      BY <1>0, <1>3, <2>2 DEF Timeout
    <3>2. hung' \in [Providers -> Nat]
      BY <3>1 DEF PoolType
    <3>3. ASSUME NEW p \in Providers PROVE hung'[p] + Cardinality(Calling(p)') <= PoolSize
      <4>1. CASE p = provider[r]
        <5>1. Calling(p)' = Calling(p) \ {r} /\ r \in Calling(p)
          BY <1>a, <2>0, <2>2, <4>1 DEF Calling
        <5>2. Cardinality(Calling(p)') = Cardinality(Calling(p)) - 1
          BY ZenonT(60), <1>0, <5>1, FS_RemoveElement
        <5>3. hung'[p] = hung[p] + 1
          BY <3>1, <4>1 DEF PoolType
        <5> QED
          BY <1>0, <5>2, <5>3
      <4>2. CASE p # provider[r]
        <5>1. Calling(p)' = Calling(p)
          BY <1>a, <2>0, <4>2 DEF Calling
        <5>2. hung'[p] = hung[p]
          BY <3>1, <4>2 DEF PoolType
        <5> QED
          BY <1>0, <5>1, <5>2
      <4> QED
        BY <4>1, <4>2
    <3> QED
      BY <3>2, <3>3 DEF PoolType
  <2> QED
    BY <2>1, <2>2
<1>4. CASE ~Submit(r) /\ ~Start(r) /\ ~Timeout(r)
  <2>1. hung' = hung
    BY <1>4 DEF Step, CheckpointBefore, AssertCanSpend, RecordSpent, CheckpointAfter, Validate,
         SavePrediction, LogCompleted, Degrade, Return, ResetCount, CloseBreaker, ReadFailures, WriteFailures
  <2>2. pc'[r] # "calling"
    <3>1. CASE Return(r)
      <4>1. PICK reply \in Replies : pc' = [pc EXCEPT ![r] = complete(reply)]
        BY <3>1 DEF Return, Goto
      <4>2. complete(reply) # "calling"
        BY PipelineAssumption DEF complete
      <4> QED
        BY <4>1, <4>2 DEF RunType
    <3>2. CASE ~Return(r)
      BY <1>4, <3>2 DEF RunType, Step, CheckpointBefore, AssertCanSpend, RecordSpent, CheckpointAfter,
             Validate, SavePrediction, LogCompleted, Degrade, ResetCount, CloseBreaker, ReadFailures,
             WriteFailures, Repair, Fallback, Goto
    <3> QED
      BY <3>1, <3>2
  <2> QED
    BY <1>1, <2>1, <2>2
<1> QED
  BY <1>2, <1>3, <1>4

\* A breaker cools down, a call that hangs ends, or a human closes the incident.
LEMMA EnvironmentStep ==
  ASSUME TypeOK, \/ \E p \in Providers : CoolDown(p) \/ HungEnds(p)
                 \/ \E i \in Incidents : CloseIncident(i)
  PROVE  TypeOK'
<1> USE DEF TypeOK
<1>1. CASE \E p \in Providers : CoolDown(p)
  <2>1. PICK p \in Providers : CoolDown(p)
    BY <1>1
  <2>2. PoolType' /\ RunType'
    BY <2>1 DEF CoolDown, PoolType, RunType, Calling, resultVars
  <2>3. cooldowns' \in 0..MaxCooldowns
    BY <2>1, Numbers DEF CoolDown, SharedType
  <2>4. mode' \in [Providers -> {"closed", "open", "half_open"}]
    BY <2>1 DEF CoolDown, SharedType
  <2> QED
    BY <2>1, <2>2, <2>3, <2>4 DEF CoolDown, SharedType, budgetVars, resultVars
<1>2. CASE \E p \in Providers : HungEnds(p)
  <2>1. PICK p \in Providers : HungEnds(p)
    BY <1>2
  <2>2. RunType' /\ SharedType'
    BY <2>1 DEF HungEnds, RunType, SharedType, budgetVars, breakerVars, resultVars
  <2>3. hung[p] - 1 \in Nat /\ hung' = [hung EXCEPT ![p] = hung[p] - 1]
    BY <2>1 DEF HungEnds, PoolType
  <2>4. hung' \in [Providers -> Nat] /\ \A q \in Providers : hung'[q] <= hung[q]
    BY <2>3 DEF PoolType
  <2>5. ASSUME NEW q \in Providers PROVE hung'[q] + Cardinality(Calling(q)') <= PoolSize
    <3>1. Calling(q)' = Calling(q) /\ Calling(q) \in SUBSET Runs
      BY <2>1 DEF HungEnds, Calling
    <3>2. Cardinality(Calling(q)) \in Nat
      BY <3>1, RunsFinite
    <3>3. hung[q] \in Nat /\ hung'[q] \in Nat /\ hung[q] + Cardinality(Calling(q)) <= PoolSize /\ PoolSize \in Nat
      BY <2>4, PipelineAssumption DEF PoolType
    <3> QED
      BY <2>4, <3>1, <3>2, <3>3
  <2> QED
    BY <2>2, <2>4, <2>5 DEF PoolType
<1>3. CASE \E i \in Incidents : CloseIncident(i)
  BY <1>3 DEF CloseIncident, RunType, SharedType, PoolType, Calling, budgetVars, breakerVars, resultVars
<1> QED
  BY <1>1, <1>2, <1>3

LEMMA TypeInit == Init => TypeOK
<1> SUFFICES ASSUME Init PROVE TypeOK
  OBVIOUS
<1>1. RunType
  <2>1. 1 \in Providers
    BY Numbers DEF Providers
  <2>2. /\ pc \in [Runs -> Labels] /\ attempt \in [Runs -> {0, 1}] /\ provider \in [Runs -> Providers]
        /\ readCount \in [Runs -> Nat]
    BY <2>1 DEF Init, Labels
  <2>3. report \in [Runs -> {NoReport}] /\ \A r \in Runs : report[r] = NoReport /\ pc[r] = "checkpoint"
    BY DEF Init
  <2> QED
    BY <2>2, <2>3 DEF RunType
<1>2. SharedType
  <2>1. 0 \in 0..MaxCooldowns
    BY Numbers
  <2>2. outcomes \in [Incidents -> [Events -> Nat]]
    BY DEF Init
  <2>3. mode \in [Providers -> {"closed", "open", "half_open"}] /\ fails \in [Providers -> Nat]
    BY DEF Init
  <2> QED
    BY <2>1, <2>2, <2>3 DEF Init, SharedType
<1>3. hung \in [Providers -> Nat] /\ PoolSize \in Nat
  BY PipelineAssumption DEF Init
<1>4. \A p \in Providers : hung[p] = 0 /\ Calling(p) = {}
  BY DEF Init, Calling
<1>5. \A p \in Providers : Cardinality(Calling(p)) = 0
  BY <1>4, FS_EmptySet
<1>6. \A p \in Providers : hung[p] + Cardinality(Calling(p)) <= PoolSize
  BY <1>4, <1>5, Numbers
<1> QED
  BY <1>1, <1>2, <1>3, <1>6 DEF TypeOK, PoolType

LEMMA TypeStep == TypeOK /\ [Next]_vars => TypeOK'
<1> SUFFICES ASSUME TypeOK, [Next]_vars PROVE TypeOK'
  OBVIOUS
<1>1. CASE UNCHANGED vars
  BY <1>1 DEF vars, TypeOK, RunType, SharedType, PoolType, Calling, budgetVars, breakerVars, resultVars
<1>2. CASE \E r \in Runs : Step(r)
  BY <1>2, RunStep, SharedStep, PoolStep DEF TypeOK
<1> QED
  BY <1>1, <1>2, EnvironmentStep DEF Next

\* Everything has its type; what the type says beyond that is that a pool never
\* has more calls at work, the hung ones with them, than workers, and that a run
\* holds a validated report exactly from its validation to its event.
THEOREM TypeCorrect == Spec => []TypeOK
BY TypeInit, TypeStep, PTL DEF Spec

-----------------------------------------------------------------------------
(* The budget.                                                             *)

\* A step of a run leaves the spending of other incidents alone.
LEMMA SpendingOf ==
  ASSUME TypeOK, NEW r \in Runs, Step(r), NEW i \in Incidents, i # IncidentOf[r]
  PROVE  Spending(i)' = Spending(i)
<1>1. \A q \in Runs : q # r => pc'[q] = pc[q]
  BY Alone DEF TypeOK
<1> QED
  BY <1>1 DEF Spending, RunsOf

\* What is spent stays below the limit and a call for every run of the incident.
LEMMA BudgetStep ==
  ASSUME TypeOK, BudgetInv, NEW r \in Runs, Step(r)
  PROVE  BudgetInv'
<1> DEFINE i == IncidentOf[r]
<1>0. i \in Incidents /\ max_calls \in Nat /\ \A q \in Runs : q # r => pc'[q] = pc[q]
  BY Alone, PipelineAssumption DEF TypeOK
<1>1. calls_used \in [Incidents -> Nat]
  BY DEF TypeOK, SharedType
<1>2. /\ Spending(i) \in SUBSET RunsOf(i) /\ Spending(i)' \in SUBSET RunsOf(i) /\ RunsOf(i) \in SUBSET Runs
      /\ r \in RunsOf(i)
  BY DEF Spending, RunsOf
<1>3. /\ IsFiniteSet(Spending(i)) /\ Cardinality(Spending(i)) \in Nat
      /\ IsFiniteSet(Spending(i)') /\ Cardinality(Spending(i)') \in Nat
      /\ IsFiniteSet(RunsOf(i)) /\ Cardinality(RunsOf(i)) \in Nat
  <2>1. Spending(i) \in SUBSET Runs /\ Spending(i)' \in SUBSET Runs
    BY <1>2
  <2> QED
    BY <1>2, <2>1, RunsFinite
<1>4. \A j \in Incidents : j # i => calls_used'[j] = calls_used[j]
  BY <1>0, <1>1 DEF Step, CheckpointBefore, AssertCanSpend, RecordSpent, CheckpointAfter, Validate,
       SavePrediction, LogCompleted, Degrade, Submit, Start, Return, Timeout, ResetCount, CloseBreaker,
       ReadFailures, WriteFailures, budgetVars
<1>5. \/ calls_used'[i] = 0 /\ Spending(i)' = {}
      \/ calls_used'[i] + Cardinality(Spending(i)') <= max_calls + Cardinality(RunsOf(i)) - 1
  <2>1. CASE AssertCanSpend(r)
    <3>1. pc[r] = "spend" /\ calls_used' = calls_used
      BY <2>1 DEF AssertCanSpend, budgetVars
    <3>2. CASE pc'[r] \in InChain
      <4>1. ~(calls_used[i] >= max_calls)
        BY <2>1, <3>2 DEF AssertCanSpend, Goto, InChain, TypeOK, RunType
      <4>2. Cardinality(Spending(i)') <= Cardinality(RunsOf(i))
        BY <1>2, <1>3, FS_Subset
      <4>3. calls_used[i] \in Nat
        BY <1>0, <1>1
      <4> QED
        BY <1>0, <1>3, <3>1, <4>1, <4>2, <4>3
    <3>3. CASE pc'[r] \notin InChain
      <4>1. Spending(i)' = Spending(i)
        BY <1>0, <3>1, <3>3 DEF Spending, RunsOf, InChain
      <4> QED
        BY <1>0, <3>1, <4>1 DEF BudgetInv
    <3> QED
      BY <3>2, <3>3
  <2>2. CASE RecordSpent(r)
    <3>1. /\ pc[r] = "record" /\ calls_used'[i] = calls_used[i] + 1
          /\ pc'[r] \in {"checkpoint 2", "validate"}
      BY <1>0, <1>1, <2>2 DEF RecordSpent, Goto, TypeOK, RunType
    <3>2. r \in Spending(i) /\ Spending(i)' = Spending(i) \ {r}
      BY <1>0, <3>1 DEF Spending, RunsOf, InChain
    <3>3. Cardinality(Spending(i)') = Cardinality(Spending(i)) - 1
      BY <1>3, <3>2, FS_RemoveElement
    <3>4. calls_used[i] + Cardinality(Spending(i)) <= max_calls + Cardinality(RunsOf(i)) - 1
      BY <1>0, <3>2 DEF BudgetInv
    <3>5. calls_used[i] \in Nat
      BY <1>0, <1>1
    <3>6. calls_used[i] + 1 + (Cardinality(Spending(i)) - 1) <= max_calls + Cardinality(RunsOf(i)) - 1
      BY <1>0, <1>3, <3>4, <3>5
    <3> QED
      BY <3>1, <3>3, <3>6
  <2>3. CASE ~AssertCanSpend(r) /\ ~RecordSpent(r)
    <3>1. calls_used' = calls_used
      BY <2>3 DEF Step, CheckpointBefore, CheckpointAfter, Validate, SavePrediction, LogCompleted, Degrade,
           Submit, Start, Return, Timeout, ResetCount, CloseBreaker, ReadFailures, WriteFailures, budgetVars
    <3>2. pc'[r] \in InChain => pc[r] \in InChain
      BY <2>3 DEF Step, CheckpointBefore, CheckpointAfter, Validate, SavePrediction, LogCompleted, Degrade,
           Submit, Start, Return, Timeout, ResetCount, CloseBreaker, ReadFailures, WriteFailures, Goto, Repair,
           Fallback, InChain, TypeOK, RunType
    <3>3. Spending(i)' \in SUBSET Spending(i)
      BY <1>0, <3>2 DEF Spending, RunsOf
    <3>4. Cardinality(Spending(i)') <= Cardinality(Spending(i))
      BY <1>3, <3>3, FS_Subset
    <3>5. \/ calls_used[i] = 0 /\ Spending(i) = {}
          \/ calls_used[i] + Cardinality(Spending(i)) <= max_calls + Cardinality(RunsOf(i)) - 1
      BY <1>0 DEF BudgetInv
    <3>6. calls_used[i] \in Nat
      BY <1>0, <1>1
    <3>7. CASE calls_used[i] = 0 /\ Spending(i) = {}
      BY <3>1, <3>3, <3>7
    <3>8. CASE calls_used[i] + Cardinality(Spending(i)) <= max_calls + Cardinality(RunsOf(i)) - 1
      BY <1>0, <1>3, <3>1, <3>4, <3>6, <3>8
    <3> QED
      BY <3>5, <3>7, <3>8
  <2> QED
    BY <2>1, <2>2, <2>3
<1>6. ASSUME NEW j \in Incidents, j # i
      PROVE  calls_used'[j] = calls_used[j] /\ Spending(j)' = Spending(j)
  BY <1>4, <1>6, SpendingOf
<1>7. \A j : RunsOf(j)' = RunsOf(j)
  BY DEF RunsOf
<1> QED
  BY <1>5, <1>6, <1>7 DEF BudgetInv

LEMMA BudgetAlways == Spec => []BudgetInv
<1>1. Init => BudgetInv
  BY DEF Init, BudgetInv, Spending, RunsOf, InChain
<1>2. TypeOK /\ BudgetInv /\ [Next]_vars => BudgetInv'
  <2> SUFFICES ASSUME TypeOK, BudgetInv, [Next]_vars PROVE BudgetInv'
    OBVIOUS
  <2>1. CASE UNCHANGED <<pc, calls_used>>
    BY <2>1 DEF BudgetInv, Spending, RunsOf
  <2>2. CASE \E r \in Runs : Step(r)
    BY <2>2, BudgetStep
  <2>3. UNCHANGED <<pc, calls_used>> \/ \E r \in Runs : Step(r)
    BY DEF Next, vars, budgetVars, CoolDown, HungEnds, CloseIncident
  <2> QED
    BY <2>1, <2>2, <2>3
<1> QED
  BY <1>1, <1>2, TypeCorrect, PTL DEF Spec

\* TokenBudget.assert_can_spend and record: two runs of an incident that both
\* looked before either spent exceed max_calls by no more than a call each, however
\* many runs there are, whatever their calls cost and however the threads interleave.
THEOREM BudgetSafety == Spec => []OverspendBounded
<1>1. TypeOK /\ BudgetInv => OverspendBounded
  <2> SUFFICES ASSUME TypeOK, BudgetInv, NEW i \in Incidents
               PROVE  calls_used[i] <= max_calls + Cardinality(RunsOf(i)) - 1 \/ calls_used[i] = 0
    BY DEF OverspendBounded
  <2>1. Spending(i) \in SUBSET Runs /\ RunsOf(i) \in SUBSET Runs
    BY DEF Spending, RunsOf
  <2>2. Cardinality(Spending(i)) \in Nat /\ Cardinality(RunsOf(i)) \in Nat
    BY <2>1, RunsFinite
  <2>3. calls_used[i] \in Nat
    BY DEF TypeOK, SharedType
  <2>4. \/ calls_used[i] = 0
        \/ calls_used[i] + Cardinality(Spending(i)) <= max_calls + Cardinality(RunsOf(i)) - 1
    BY DEF BudgetInv
  <2> QED
    BY <2>2, <2>3, <2>4, Numbers
<1> QED
  BY <1>1, TypeCorrect, BudgetAlways, PTL

-----------------------------------------------------------------------------
(* The second checkpoint.                                                  *)

\* A run whose incident was closed before its first answer came is stopped by
\* the checkpoint behind it: no prediction, no second call.
THEOREM CheckpointSafety == Spec => []ClosedStopsTriage
<1>1. Init => ClosedInv
  BY DEF Init, ClosedInv
<1>2. TypeOK /\ ClosedInv /\ [Next]_vars => ClosedInv'
  <2> SUFFICES ASSUME TypeOK, ClosedInv, [Next]_vars, NEW q \in closedEarly'
               PROVE  pc'[q] \in {"checkpoint 2", "aborted"} /\ attempt'[q] = 0 /\ IncidentOf[q] \notin active'
    BY DEF ClosedInv
  <2>0. q \in closedEarly => /\ pc[q] \in {"checkpoint 2", "aborted"} /\ attempt[q] = 0
                             /\ IncidentOf[q] \notin active
    BY DEF ClosedInv
  <2>1. CASE \E r \in Runs : Step(r)
    <3>1. PICK r \in Runs : Step(r)
      BY <2>1
    <3>2. active' = active
      BY <3>1 DEF Step, CheckpointBefore, AssertCanSpend, RecordSpent, CheckpointAfter, Validate,
           SavePrediction, LogCompleted, Degrade, Submit, Start, Return, Timeout, ResetCount, CloseBreaker,
           ReadFailures, WriteFailures
    <3>3. CASE RecordSpent(r) /\ q = r
      <4>1. pc[r] = "record" /\ r \notin closedEarly
        BY <2>0, <3>3 DEF RecordSpent
      <4>2. attempt[r] = 0 /\ IncidentOf[r] \notin active
        BY <3>3, <4>1 DEF RecordSpent
      <4>3. pc'[r] = "checkpoint 2" /\ attempt' = attempt
        BY <3>3, <4>2 DEF RecordSpent, Goto, TypeOK, RunType
      <4> QED
        BY <3>2, <3>3, <4>2, <4>3
    <3>4. CASE ~(RecordSpent(r) /\ q = r)
      <4>1. q \in closedEarly
        BY <3>1, <3>4 DEF Step, CheckpointBefore, AssertCanSpend, RecordSpent, CheckpointAfter, Validate,
             SavePrediction, LogCompleted, Degrade, Submit, Start, Return, Timeout, ResetCount, CloseBreaker,
             ReadFailures, WriteFailures
      <4>2. CASE q # r
        <5>1. q \in Runs
          BY <4>1 DEF TypeOK, SharedType
        <5>2. pc'[q] = pc[q] /\ attempt'[q] = attempt[q]
          BY <3>1, <4>2, <5>1, Alone DEF TypeOK
        <5> QED
          BY <2>0, <3>2, <4>1, <5>2
      <4>3. CASE q = r
        <5>1. CheckpointAfter(r)
          BY <2>0, <3>1, <4>1, <4>3 DEF Step, CheckpointBefore, AssertCanSpend, RecordSpent, Validate,
             SavePrediction, LogCompleted, Degrade, Submit, Start, Return, Timeout, ResetCount, CloseBreaker,
             ReadFailures, WriteFailures
        <5>2. pc'[r] = "aborted" /\ attempt' = attempt
          BY <2>0, <4>1, <4>3, <5>1 DEF CheckpointAfter, Goto, TypeOK, RunType
        <5> QED
          BY <2>0, <3>2, <4>1, <4>3, <5>2
      <4> QED
        BY <4>2, <4>3
    <3> QED
      BY <3>3, <3>4
  <2>2. CASE UNCHANGED <<pc, attempt, closedEarly>> /\ active' \subseteq active
    BY <2>0, <2>2
  <2>3. \/ \E r \in Runs : Step(r)
        \/ UNCHANGED <<pc, attempt, closedEarly>> /\ active' \subseteq active
    BY DEF Next, vars, CoolDown, HungEnds, CloseIncident
  <2> QED
    BY <2>1, <2>2, <2>3
<1>3. ClosedInv => ClosedStopsTriage
  BY DEF ClosedInv, ClosedStopsTriage
<1> QED
  BY <1>1, <1>2, <1>3, TypeCorrect, PTL DEF Spec

-----------------------------------------------------------------------------
(* What a run leaves behind.                                               *)

\* The five things a step may do to the timeline and the saved rows.
LEMMA Ends ==
  ASSUME TypeOK, NEW r \in Runs, Step(r)
  PROVE  \/ /\ Note(r, "triage_completed") /\ predictions' = predictions
            /\ pc[r] = "complete" /\ pc'[r] \in {"report", "degraded", "spend"}
            /\ pc'[r] = "spend" => attempt[r] = 0 /\ attempt'[r] = 1
         \/ /\ Note(r, "triage_aborted") /\ predictions' = predictions /\ attempt' = attempt
            /\ pc[r] \in {"checkpoint", "checkpoint 2"} /\ pc'[r] = "aborted"
         \/ /\ Note(r, "schema_failure") /\ predictions' = predictions
            /\ pc[r] = "degraded" /\ pc'[r] = "gave up"
         \/ /\ UNCHANGED <<outcomes, attempt>> /\ pc[r] = "save" /\ pc'[r] = "complete"
            /\ predictions' = predictions \cup {[run |-> r, attempt |-> attempt[r], report |-> Completed(r)]}
         \/ /\ UNCHANGED <<outcomes, predictions>>
            /\ pc[r] \notin Finished \cup {"complete", "degraded"} /\ pc'[r] \notin Finished \cup {"complete"}
            /\ attempt'[r] = attempt[r] \/ attempt[r] = 0
<1> USE DEF Goto, Finished
<1>0. pc \in [Runs -> Labels] /\ attempt \in [Runs -> {0, 1}]
  BY DEF TypeOK, RunType
<1>r. ASSUME Repair(r)
      PROVE  /\ pc'[r] \in {"spend", "degraded"}
             /\ attempt'[r] = attempt[r] \/ attempt[r] = 0
             /\ pc'[r] = "spend" => attempt[r] = 0 /\ attempt'[r] = 1
  BY <1>0, <1>r DEF Repair
<1>1. CASE LogCompleted(r)
  <2>1. /\ pc[r] = "complete" /\ Note(r, "triage_completed") /\ predictions' = predictions
        /\ pc' = [pc EXCEPT ![r] = "report"] \/ pc' = [pc EXCEPT ![r] = "degraded"] \/ Repair(r)
    BY <1>1 DEF LogCompleted
  <2> QED
    BY <1>0, <1>r, <2>1
<1>2. CASE CheckpointBefore(r) \/ CheckpointAfter(r)
  BY <1>0, <1>2 DEF CheckpointBefore, CheckpointAfter
<1>3. CASE Degrade(r)
  BY <1>0, <1>3 DEF Degrade
<1>4. CASE SavePrediction(r)
  <2>1. pc[r] = "save" /\ outcomes' = outcomes
    BY <1>4 DEF SavePrediction
  <2>2. \/ /\ pc' = [pc EXCEPT ![r] = "complete"] /\ attempt' = attempt
           /\ predictions' = predictions \cup {[run |-> r, attempt |-> attempt[r], report |-> Completed(r)]}
        \/ Repair(r) /\ predictions' = predictions
    BY <1>4 DEF SavePrediction
  <2> QED
    BY <1>0, <1>r, <2>1, <2>2
<1>5. CASE Validate(r)
  <2>1. pc[r] = "validate" /\ UNCHANGED <<outcomes, predictions>>
    BY <1>5 DEF Validate
  <2>2. \/ pc' \in {[pc EXCEPT ![r] = "save"], [pc EXCEPT ![r] = "degraded"]} /\ attempt' = attempt
        \/ Repair(r)
    BY <1>5 DEF Validate
  <2> QED
    BY <1>0, <1>r, <2>1, <2>2
<1>6. CASE Return(r)
  <2>1. PICK reply \in Replies : pc' = [pc EXCEPT ![r] = complete(reply)]
    BY <1>6 DEF Return
  <2>2. complete(reply) \in {"success", "failure", "degraded"}
    BY PipelineAssumption DEF complete
  <2>3. pc[r] = "calling" /\ UNCHANGED <<outcomes, predictions, attempt>>
    BY <1>6 DEF Return, resultVars
  <2> QED
    BY <1>0, <2>1, <2>2, <2>3
<1>7. CASE AssertCanSpend(r) \/ RecordSpent(r) \/ Submit(r) \/ Start(r) \/ Timeout(r) \/ ResetCount(r)
             \/ CloseBreaker(r) \/ ReadFailures(r) \/ WriteFailures(r)
  <2>1. UNCHANGED <<outcomes, predictions, attempt>>
    BY <1>7 DEF AssertCanSpend, RecordSpent, Submit, Start, Timeout, ResetCount, CloseBreaker, ReadFailures,
         WriteFailures, resultVars
  <2>2. pc[r] \notin Finished \cup {"complete", "degraded"} /\ pc'[r] \notin Finished \cup {"complete"}
    BY <1>0, <1>7 DEF AssertCanSpend, RecordSpent, Submit, Start, Timeout, ResetCount, CloseBreaker,
         ReadFailures, WriteFailures, Fallback
  <2> QED
    BY <2>1, <2>2
<1> QED
  BY <1>1, <1>2, <1>3, <1>4, <1>5, <1>6, <1>7 DEF Step

\* How a step of a run changes the number of runs at a label.
LEMMA RunsCounted ==
  ASSUME TypeOK, NEW r \in Runs, Step(r), NEW i \in Incidents, NEW label
  PROVE  /\ Cardinality(RunsAt(i, label)) \in Nat
         /\ i # IncidentOf[r] \/ (pc[r] = label <=> pc'[r] = label) => RunsAt(i, label)' = RunsAt(i, label)
         /\ i = IncidentOf[r] /\ pc[r] # label /\ pc'[r] = label =>
              Cardinality(RunsAt(i, label)') = Cardinality(RunsAt(i, label)) + 1
         /\ i = IncidentOf[r] /\ pc[r] = label /\ pc'[r] # label =>
              Cardinality(RunsAt(i, label)') = Cardinality(RunsAt(i, label)) - 1
<1> USE DEF RunsAt, RunsOf
<1>1. \A q \in Runs : q # r => pc'[q] = pc[q]
  BY Alone DEF TypeOK
<1>2. RunsAt(i, label) \in SUBSET Runs
  OBVIOUS
<1>3. IsFiniteSet(RunsAt(i, label)) /\ Cardinality(RunsAt(i, label)) \in Nat
  BY <1>2, RunsFinite
<1>4. i # IncidentOf[r] \/ (pc[r] = label <=> pc'[r] = label) => RunsAt(i, label)' = RunsAt(i, label)
  BY <1>1
<1>5. ASSUME i = IncidentOf[r], pc[r] # label, pc'[r] = label
      PROVE  Cardinality(RunsAt(i, label)') = Cardinality(RunsAt(i, label)) + 1
  <2>1. RunsAt(i, label)' = RunsAt(i, label) \cup {r} /\ r \notin RunsAt(i, label)
    BY <1>1, <1>5
  <2> QED
    BY <1>3, <2>1, FS_AddElement
<1>6. ASSUME i = IncidentOf[r], pc[r] = label, pc'[r] # label
      PROVE  Cardinality(RunsAt(i, label)') = Cardinality(RunsAt(i, label)) - 1
  <2>1. RunsAt(i, label)' = RunsAt(i, label) \ {r} /\ r \in RunsAt(i, label)
    BY <1>1, <1>6
  <2>2. Cardinality(RunsAt(i, label) \ {r}) = Cardinality(RunsAt(i, label)) - 1
    BY ZenonT(30), <1>3, <2>1, FS_RemoveElement
  <2> QED
    BY Zenon, <2>1, <2>2
<1> QED
  BY <1>3, <1>4, <1>5, <1>6

\* A row is saved at most once in an attempt.
LEMMA RowsStep ==
  ASSUME TypeOK, RowsBehind, NEW r \in Runs, Step(r)
  PROVE  RowsBehind'
<1> DEFINE row == [run |-> r, attempt |-> attempt[r], report |-> Completed(r)]
<1>0. /\ \A q \in Runs : q # r => pc'[q] = pc[q] /\ attempt'[q] = attempt[q]
      /\ attempt[r] \in {0, 1} /\ attempt'[r] \in {0, 1}
      /\ row.run = r /\ row.attempt = attempt[r]
  BY Alone DEF TypeOK, RunType
<1> HIDE DEF row
<1>1. \/ predictions' = predictions
      \/ predictions' = predictions \cup {row} /\ pc'[r] = "complete" /\ attempt'[r] = attempt[r]
    BY Ends DEF row
<1>2. IsFiniteSet(predictions')
  BY <1>1, FS_AddElement DEF RowsBehind
<1>3. ASSUME NEW p \in predictions
      PROVE  /\ p.run \in Runs /\ p.attempt \in {0, 1}
             /\ \/ pc'[p.run] \in {"report", "degraded", "gave up"}
                \/ p.attempt < attempt'[p.run]
                \/ pc'[p.run] = "complete" /\ p.attempt <= attempt'[p.run]
  <2>0. /\ p.run \in Runs /\ p.attempt \in {0, 1}
        /\ \/ pc[p.run] \in {"report", "degraded", "gave up"}
           \/ p.attempt < attempt[p.run]
           \/ pc[p.run] = "complete" /\ p.attempt <= attempt[p.run]
    BY DEF RowsBehind
  <2>1. CASE p.run # r
    BY <1>0, <2>0, <2>1
  <2>2. CASE p.run = r
    <3>1. CASE pc[r] = "complete"
      <4>1. pc'[r] \in {"report", "degraded"} \/ (attempt[r] = 0 /\ attempt'[r] = 1)
        BY <3>1, Ends DEF Finished
      <4>2. p.attempt <= attempt[r]
        BY <1>0, <2>0, <2>2, <3>1
      <4>3. CASE pc'[r] \in {"report", "degraded"}
        BY <2>0, <2>2, <4>3
      <4>4. CASE attempt[r] = 0 /\ attempt'[r] = 1
        <5>1. p.attempt < 1
          <6>1. CASE p.attempt = 0
            BY <6>1
          <6>2. CASE p.attempt = 1
            BY <4>2, <4>4, <6>2
          <6> QED
            BY <2>0, <6>1, <6>2
        <5> QED
          BY <2>0, <2>2, <4>4, <5>1
      <4> QED
        BY <4>1, <4>3, <4>4
    <3>2. CASE pc[r] = "degraded"
      BY <2>0, <2>2, <3>2, Ends DEF Finished
    <3>3. CASE pc[r] \notin {"complete", "degraded"}
      <4>1. pc[r] \notin {"report", "gave up"}
        BY <3>3, Ends DEF Finished
      <4>2. p.attempt < attempt[r]
        BY <2>0, <2>2, <3>3, <4>1
      <4>3. p.attempt = 0 /\ attempt[r] = 1
        <5>1. CASE p.attempt = 0 /\ attempt[r] = 1
          BY <5>1
        <5>2. CASE p.attempt = 1 /\ attempt[r] = 1
          BY <4>2, <5>2
        <5>3. CASE p.attempt = 0 /\ attempt[r] = 0
          BY <4>2, <5>3
        <5>4. CASE p.attempt = 1 /\ attempt[r] = 0
          BY <4>2, <5>4
        <5> QED
          BY <1>0, <2>0, <5>1, <5>2, <5>3, <5>4
      <4>4. attempt'[r] = 1
        BY <1>0, <3>3, <4>3, Ends
      <4> QED
        BY <2>0, <2>2, <4>3, <4>4
    <3> QED
      BY <3>1, <3>2, <3>3
  <2> QED
    BY <2>1, <2>2
<1>4. ASSUME NEW p \in predictions', p \notin predictions
      PROVE  /\ p.run = r /\ p.attempt \in {0, 1} /\ pc'[p.run] = "complete"
             /\ p.attempt <= attempt'[p.run]
  <2>1. p = row /\ pc'[r] = "complete" /\ attempt'[r] = attempt[r]
    BY <1>1, <1>4
  <2>2. attempt[r] <= attempt[r]
    BY <1>0
  <2> QED
    BY <1>0, <2>1, <2>2
<1> QED
  BY <1>2, <1>3, <1>4 DEF RowsBehind

\* The timeline keeps up with the ends of the runs and with the rows.
LEMMA OutcomeStep ==
  ASSUME TypeOK, OutcomeInv, NEW r \in Runs, Step(r)
  PROVE  OutcomeInv'
<1> DEFINE row == [run |-> r, attempt |-> attempt[r], report |-> Completed(r)]
<1>0. /\ IncidentOf[r] \in Incidents /\ row.run = r /\ row.attempt = attempt[r] /\ attempt[r] \in {0, 1}
      /\ \A q \in Runs : q # r => pc'[q] = pc[q]
  BY Alone, PipelineAssumption DEF TypeOK, RunType
<1>1. RowsBehind'
  BY RowsStep DEF OutcomeInv
<1>2. row \in predictions' \/ predictions' = predictions
  BY Ends
<1>3. predictions \subseteq predictions'
  BY Ends
<1>4. ASSUME NEW q \in Runs, pc'[q] \in {"complete", "report"}
      PROVE  \E p \in predictions' : p.run = q
  <2>1. CASE q # r \/ pc[q] = "complete"
    BY <1>0, <1>3, <1>4, <2>1 DEF OutcomeInv
  <2>2. CASE q = r /\ pc[r] # "complete"
    <3>1. row \in predictions'
      BY <1>4, <2>2, Ends DEF Finished
    <3> QED
      BY <1>0, <2>2, <3>1
  <2> QED
    BY <2>1, <2>2
<1>5. SharedType /\ IsFiniteSet(predictions)
  BY DEF TypeOK, OutcomeInv, RowsBehind
<1>6. ASSUME NEW i \in Incidents
      PROVE  /\ outcomes'[i]["triage_completed"] + Cardinality(RunsAt(i, "complete")') = Cardinality(RowsOf(i)')
             /\ outcomes'[i]["triage_aborted"] = Cardinality(RunsAt(i, "aborted")')
             /\ outcomes'[i]["schema_failure"] = Cardinality(RunsAt(i, "gave up")')
  <2> DEFINE done == outcomes[i]["triage_completed"]
             complete_ == Cardinality(RunsAt(i, "complete"))
  <2>0. /\ done \in Nat /\ outcomes[i]["triage_aborted"] \in Nat /\ outcomes[i]["schema_failure"] \in Nat
        /\ complete_ \in Nat /\ done + complete_ = Cardinality(RowsOf(i))
        /\ outcomes[i]["triage_aborted"] = Cardinality(RunsAt(i, "aborted"))
        /\ outcomes[i]["schema_failure"] = Cardinality(RunsAt(i, "gave up"))
    <3>1. complete_ \in Nat
      BY RunsCounted
    <3> QED
      BY <1>5, <3>1 DEF OutcomeInv, SharedType, Events
  <2>1. CASE i # IncidentOf[r]
    <3>1. outcomes'[i]["triage_completed"] = done /\ outcomes'[i]["triage_aborted"] = outcomes[i]["triage_aborted"]
            /\ outcomes'[i]["schema_failure"] = outcomes[i]["schema_failure"]
      BY <1>5, <2>1, NotesOnly, NoteCounts DEF Events
    <3>2. /\ RunsAt(i, "complete")' = RunsAt(i, "complete") /\ RunsAt(i, "aborted")' = RunsAt(i, "aborted")
          /\ RunsAt(i, "gave up")' = RunsAt(i, "gave up")
      BY <2>1, RunsCounted
    <3>3. predictions' = predictions \/ predictions' = predictions \cup {row}
      BY Ends
    <3>4. RowsOf(i)' = RowsOf(i)
      BY <1>0, <2>1, <3>3 DEF RowsOf
    <3> QED
      BY <2>0, <3>1, <3>2, <3>4
  <2>2. CASE i = IncidentOf[r]
    <3>1. CASE Note(r, "triage_completed") /\ pc[r] = "complete"
      <4>1. /\ predictions' = predictions /\ pc'[r] \notin {"complete", "aborted", "gave up"}
        BY <3>1, Ends DEF Finished
      <4>2. /\ outcomes'[i]["triage_completed"] = done + 1
            /\ outcomes'[i]["triage_aborted"] = outcomes[i]["triage_aborted"]
            /\ outcomes'[i]["schema_failure"] = outcomes[i]["schema_failure"]
        BY <1>5, <2>2, <3>1, NoteCounts DEF Events
      <4>3. /\ RunsAt(i, "aborted")' = RunsAt(i, "aborted") /\ RunsAt(i, "gave up")' = RunsAt(i, "gave up")
            /\ Cardinality(RunsAt(i, "complete")') = complete_ - 1
        BY <2>2, <3>1, <4>1, RunsCounted
      <4>4. RowsOf(i)' = RowsOf(i)
        BY <4>1 DEF RowsOf
      <4>5. (done + 1) + (complete_ - 1) = done + complete_
        <5>1. \A a, b \in Nat : (a + 1) + (b - 1) = a + b
          OBVIOUS
        <5> QED
          BY <2>0, <5>1
      <4> QED
        BY <2>0, <4>2, <4>3, <4>4, <4>5
    <3>2. CASE /\ Note(r, "triage_aborted") /\ predictions' = predictions
               /\ pc[r] \in {"checkpoint", "checkpoint 2"} /\ pc'[r] = "aborted"
      <4>1. predictions' = predictions /\ pc'[r] = "aborted"
        BY <3>2
      <4>2. /\ outcomes'[i]["triage_completed"] = done
            /\ outcomes'[i]["triage_aborted"] = outcomes[i]["triage_aborted"] + 1
            /\ outcomes'[i]["schema_failure"] = outcomes[i]["schema_failure"]
        BY <1>5, <2>2, <3>2, NoteCounts DEF Events
      <4>3. /\ RunsAt(i, "complete")' = RunsAt(i, "complete") /\ RunsAt(i, "gave up")' = RunsAt(i, "gave up")
            /\ Cardinality(RunsAt(i, "aborted")') = Cardinality(RunsAt(i, "aborted")) + 1
        BY ZenonT(60), <2>2, <3>2, <4>1, RunsCounted
      <4>4. RowsOf(i)' = RowsOf(i)
        BY <4>1 DEF RowsOf
      <4> QED
        BY <2>0, <4>2, <4>3, <4>4
    <3>3. CASE Note(r, "schema_failure") /\ pc[r] = "degraded"
      <4>1. predictions' = predictions /\ pc'[r] = "gave up"
        BY <3>3, Ends DEF Finished
      <4>2. /\ outcomes'[i]["triage_completed"] = done
            /\ outcomes'[i]["triage_aborted"] = outcomes[i]["triage_aborted"]
            /\ outcomes'[i]["schema_failure"] = outcomes[i]["schema_failure"] + 1
        BY <1>5, <2>2, <3>3, NoteCounts DEF Events
      <4>3. /\ RunsAt(i, "complete")' = RunsAt(i, "complete") /\ RunsAt(i, "aborted")' = RunsAt(i, "aborted")
            /\ Cardinality(RunsAt(i, "gave up")') = Cardinality(RunsAt(i, "gave up")) + 1
        BY ZenonT(60), <2>2, <3>3, <4>1, RunsCounted
      <4>4. RowsOf(i)' = RowsOf(i)
        BY <4>1 DEF RowsOf
      <4> QED
        BY <2>0, <4>2, <4>3, <4>4
    <3>4. CASE pc[r] = "save" /\ pc'[r] = "complete" /\ outcomes' = outcomes
      <4>1. predictions' = predictions \cup {row}
        BY <3>4, Ends DEF Finished
      <4>2. /\ RunsAt(i, "aborted")' = RunsAt(i, "aborted") /\ RunsAt(i, "gave up")' = RunsAt(i, "gave up")
            /\ Cardinality(RunsAt(i, "complete")') = complete_ + 1
        BY ZenonT(60), <2>2, <3>4, RunsCounted
      <4>3. row \notin predictions
        <5>1. ~(attempt[r] < attempt[r])
          BY <1>0
        <5> QED
          BY <1>0, <3>4, <5>1 DEF OutcomeInv, RowsBehind
      <4>4. RowsOf(i)' = RowsOf(i) \cup {row} /\ row \notin RowsOf(i)
        BY <1>0, <2>2, <4>1, <4>3 DEF RowsOf
      <4>5. RowsOf(i) \in SUBSET predictions
        BY DEF RowsOf
      <4>6. IsFiniteSet(RowsOf(i))
        BY <1>5, <4>5, FS_Subset
      <4>7. Cardinality(RowsOf(i)') = Cardinality(RowsOf(i)) + 1
        BY <4>4, <4>6, FS_AddElement
      <4>8. done + (complete_ + 1) = (done + complete_) + 1
        <5>1. \A a, b \in Nat : a + (b + 1) = (a + b) + 1
          OBVIOUS
        <5> QED
          BY <2>0, <5>1
      <4> QED
        BY <2>0, <3>4, <4>2, <4>7, <4>8
    <3>5. CASE /\ UNCHANGED <<outcomes, predictions>>
               /\ pc[r] \notin Finished \cup {"complete", "degraded"} /\ pc'[r] \notin Finished \cup {"complete"}
      <4>1. /\ RunsAt(i, "complete")' = RunsAt(i, "complete") /\ RunsAt(i, "aborted")' = RunsAt(i, "aborted")
            /\ RunsAt(i, "gave up")' = RunsAt(i, "gave up")
        BY <3>5, RunsCounted DEF Finished
      <4>2. RowsOf(i)' = RowsOf(i)
        BY <3>5 DEF RowsOf
      <4> QED
        BY <2>0, <3>5, <4>1, <4>2
    <3> QED
      BY <3>1, <3>2, <3>3, <3>4, <3>5, Ends
  <2> QED
    BY <2>1, <2>2
<1> QED
  BY <1>1, <1>4, <1>6 DEF OutcomeInv

LEMMA OutcomeAlways == Spec => []OutcomeInv
<1>1. Init => OutcomeInv
  <2> SUFFICES ASSUME Init PROVE OutcomeInv
    OBVIOUS
  <2>1. predictions = {} /\ \A r \in Runs : pc[r] = "checkpoint"
    BY DEF Init
  <2>2. \A i \in Incidents : /\ RowsOf(i) = {} /\ RunsAt(i, "complete") = {} /\ RunsAt(i, "aborted") = {}
                             /\ RunsAt(i, "gave up") = {} /\ \A e \in Events : outcomes[i][e] = 0
    BY <2>1 DEF Init, RowsOf, RunsAt, RunsOf
  <2>3. RowsBehind
    BY <2>1, FS_EmptySet DEF RowsBehind
  <2>4. Cardinality({}) = 0 /\ \A i \in Incidents : outcomes[i]["triage_completed"] = 0
          /\ outcomes[i]["triage_aborted"] = 0 /\ outcomes[i]["schema_failure"] = 0
    BY <2>2, FS_EmptySet DEF Events
  <2>5. \A i \in Incidents :
          /\ outcomes[i]["triage_completed"] + Cardinality(RunsAt(i, "complete")) = Cardinality(RowsOf(i))
          /\ outcomes[i]["triage_aborted"] = Cardinality(RunsAt(i, "aborted"))
          /\ outcomes[i]["schema_failure"] = Cardinality(RunsAt(i, "gave up"))
    <3> SUFFICES ASSUME NEW i \in Incidents
                 PROVE  /\ outcomes[i]["triage_completed"] + Cardinality(RunsAt(i, "complete")) = Cardinality(RowsOf(i))
                        /\ outcomes[i]["triage_aborted"] = Cardinality(RunsAt(i, "aborted"))
                        /\ outcomes[i]["schema_failure"] = Cardinality(RunsAt(i, "gave up"))
      OBVIOUS
    <3>1. /\ Cardinality(RowsOf(i)) = 0 /\ Cardinality(RunsAt(i, "complete")) = 0
          /\ Cardinality(RunsAt(i, "aborted")) = 0 /\ Cardinality(RunsAt(i, "gave up")) = 0
      BY <2>2, <2>4
    <3>2. 0 + 0 = 0
      OBVIOUS
    <3> QED
      BY <2>4, <3>1, <3>2
  <2> QED
    BY <2>1, <2>3, <2>5 DEF OutcomeInv
<1>2. TypeOK /\ OutcomeInv /\ [Next]_vars => OutcomeInv'
  <2> SUFFICES ASSUME TypeOK, OutcomeInv, [Next]_vars PROVE OutcomeInv'
    OBVIOUS
  <2>1. CASE UNCHANGED <<pc, attempt, predictions, outcomes>>
    BY ZenonT(60), <2>1 DEF OutcomeInv, RowsBehind, RowsOf, RunsAt, RunsOf
  <2>2. CASE \E r \in Runs : Step(r)
    BY <2>2, OutcomeStep
  <2>3. UNCHANGED <<pc, attempt, predictions, outcomes>> \/ \E r \in Runs : Step(r)
    BY DEF Next, vars, resultVars, CoolDown, HungEnds, CloseIncident
  <2> QED
    BY <2>1, <2>2, <2>3
<1> QED
  BY <1>1, <1>2, TypeCorrect, PTL DEF Spec

\* TriagePipeline.run, _finish_report and _degraded: once the runs of an incident
\* have ended, its timeline has one triage_completed for each saved prediction and
\* one event for each run that was aborted or gave up, whatever was retried.
THEOREM EndSafety == Spec => []EndIsRecorded
<1>1. TypeOK /\ OutcomeInv => EndIsRecorded
  <2> SUFFICES ASSUME TypeOK, OutcomeInv, NEW i \in Incidents
               PROVE  /\ (\A r \in RunsOf(i) : pc[r] \in Finished) =>
                           /\ outcomes[i]["triage_completed"] = Cardinality(RowsOf(i))
                           /\ outcomes[i]["triage_aborted"] = Cardinality(RunsAt(i, "aborted"))
                           /\ outcomes[i]["schema_failure"] = Cardinality(RunsAt(i, "gave up"))
                      /\ \A r \in RunsOf(i) : pc[r] = "report" => \E row \in predictions : row.run = r
    BY DEF EndIsRecorded, RowsOf, RunsAt
  <2>1. \A r \in RunsOf(i) : pc[r] = "report" => \E row \in predictions : row.run = r
    BY DEF OutcomeInv, RunsOf
  <2>2. ASSUME \A r \in RunsOf(i) : pc[r] \in Finished
        PROVE  outcomes[i]["triage_completed"] = Cardinality(RowsOf(i))
    <3>1. RunsAt(i, "complete") = {}
      BY <2>2 DEF RunsAt, Finished
    <3>2. Cardinality(RunsAt(i, "complete")) = 0
      BY <3>1, FS_EmptySet
    <3>3. outcomes[i]["triage_completed"] \in Nat
      BY DEF TypeOK, SharedType, Events
    <3>4. outcomes[i]["triage_completed"] + Cardinality(RunsAt(i, "complete")) = Cardinality(RowsOf(i))
      BY DEF OutcomeInv
    <3> QED
      BY <3>2, <3>3, <3>4
  <2> QED
    BY <2>1, <2>2 DEF OutcomeInv
<1> QED
  BY <1>1, TypeCorrect, OutcomeAlways, PTL

-----------------------------------------------------------------------------
(* The contract of a report.                                               *)

\* What validate_report lets through meets the contract, and what is saved is what
\* it let through, completed.
LEMMA ContractStep ==
  ASSUME TypeOK, ContractInv, NEW r \in Runs, Step(r)
  PROVE  ContractInv'
<1>0. /\ pc \in [Runs -> Labels] /\ \A q \in Runs : pc[q] = "save" => report[q] \in Documents
      /\ \A q \in Runs : q # r => pc'[q] = pc[q]
  BY Alone DEF TypeOK, RunType
<1>1. CASE Validate(r)
  <2>1. \A q \in Runs : q # r => report'[q] = report[q]
    BY <1>1 DEF Validate, TypeOK, RunType
  <2>2. ASSUME pc'[r] = "save" PROVE Meets(report'[r], r)
    <3>1. PICK answer \in Answers :
            /\ report' = [report EXCEPT ![r] = answer.members]
            /\ validate_report(answer.members, IncidentOf[r]) = "report"
      BY <1>0, <1>1, <2>2 DEF Validate, Repair, Goto
    <3>2. report'[r] = answer.members
      BY <3>1 DEF TypeOK, RunType
    <3>3. WellFormed(answer.members) /\ answer.members.incident_id = Str(IncidentOf[r])
      BY <3>1 DEF validate_report
    <3> QED
      BY <3>2, <3>3 DEF Meets, WellFormed, HypothesisCountOK, MAX_HYPOTHESES, HypothesisOK, ConfidenceOK,
           ActionOK, RISK_LEVELS
  <2>3. predictions' = predictions
    BY <1>1 DEF Validate
  <2> QED
    BY <1>0, <2>1, <2>2, <2>3 DEF ContractInv, Meets
<1>2. CASE SavePrediction(r)
  <2> DEFINE row == [run |-> r, attempt |-> attempt[r], report |-> Completed(r)]
  <2>1. pc[r] = "save" /\ report[r] \in Documents /\ Meets(report[r], r)
    BY <1>0, <1>2 DEF SavePrediction, ContractInv
  <2>2. Meets(Completed(r), r) /\ (r \in Degraded => Completed(r).missing_context.items # <<>>)
    BY <2>1, CompletedFields DEF Meets
  <2>3. predictions' = predictions \/ predictions' = predictions \cup {row}
    BY <1>2 DEF SavePrediction
  <2>4. pc'[r] # "save" /\ \A q \in Runs : q # r => report'[q] = report[q]
    BY <1>0, <1>2 DEF SavePrediction, Repair, Goto, TypeOK, RunType
  <2> QED
    BY <1>0, <2>2, <2>3, <2>4 DEF ContractInv, Meets
<1>3. CASE ~Validate(r) /\ ~SavePrediction(r)
  <2>1. predictions' = predictions /\ \A q \in Runs : q # r => report'[q] = report[q]
    BY <1>3 DEF TypeOK, RunType, Step, CheckpointBefore, AssertCanSpend, RecordSpent, CheckpointAfter,
         LogCompleted, Degrade, Submit, Start, Return, Timeout, ResetCount, CloseBreaker, ReadFailures,
         WriteFailures, resultVars
  <2>2. pc'[r] # "save"
    <3>1. CASE Return(r)
      <4>1. PICK reply \in Replies : pc' = [pc EXCEPT ![r] = complete(reply)]
        BY <3>1 DEF Return, Goto
      <4>2. complete(reply) # "save"
        BY PipelineAssumption DEF complete
      <4> QED
        BY <1>0, <4>1, <4>2
    <3>2. CASE ~Return(r)
      BY <1>0, <1>3, <3>2 DEF Step, CheckpointBefore, AssertCanSpend, RecordSpent, CheckpointAfter,
           LogCompleted, Degrade, Submit, Start, Timeout, ResetCount, CloseBreaker, ReadFailures,
           WriteFailures, Repair, Fallback, Goto
    <3> QED
      BY <3>1, <3>2
  <2> QED
    BY <1>0, <2>1, <2>2 DEF ContractInv, Meets
<1> QED
  BY <1>1, <1>2, <1>3

\* schema_validator.validate_report and _finish_report: whatever the model answers,
\* every prediction that is saved is about its own incident, has one to five
\* hypotheses with a confidence in [0, 1] and actions of a known risk, and says what
\* the context lacked.
THEOREM ContractSafety == Spec => []SavedMeetsContract
<1>1. Init => ContractInv
  BY DEF Init, ContractInv
<1>2. TypeOK /\ ContractInv /\ [Next]_vars => ContractInv'
  <2> SUFFICES ASSUME TypeOK, ContractInv, [Next]_vars PROVE ContractInv'
    OBVIOUS
  <2>1. CASE UNCHANGED <<pc, predictions, report>>
    BY <2>1 DEF ContractInv, Meets
  <2>2. CASE \E r \in Runs : Step(r)
    BY <2>2, ContractStep
  <2>3. UNCHANGED <<pc, predictions, report>> \/ \E r \in Runs : Step(r)
    BY DEF Next, vars, resultVars, CoolDown, HungEnds, CloseIncident
  <2> QED
    BY <2>1, <2>2, <2>3
<1>3. ContractInv => SavedMeetsContract
  BY DEF ContractInv, Meets, SavedMeetsContract
<1> QED
  BY <1>1, <1>2, <1>3, TypeCorrect, PTL DEF Spec
=============================================================================
