--------------------------- MODULE TriagePipeline ---------------------------
(***************************************************************************)
(* TriagePipeline.run with the budget of its incident and the provider     *)
(* chain all runs share: each provider has a circuit breaker without a     *)
(* lock and a thread pool of its own, in which a call that timed out goes  *)
(* on occupying its worker.  Meanwhile a human may close the incident.     *)
(***************************************************************************)
EXTENDS ReportSchema

CONSTANTS
  Runs,         \* runs of the pipeline, each in a thread of its own
  Incidents, IncidentOf,  \* the incident each run is about
  LastProvider, \* the chain is 1..LastProvider
  threshold,    \* failures in a row that open a breaker
  PoolSize,     \* workers of a provider's pool
  max_calls, max_tokens,  \* the budget of an incident
  Costs,        \* tokens a call may use
  Replies,      \* what the HTTP endpoint of a provider may do
  Answers,      \* what the model may say: the lines of its text, the members of its object
  Degraded,     \* runs whose context lacks a source
  Shadow,       \* SHADOW_MODE: the report is written to a file
  MaxCooldowns  \* bound: how often a cooldown runs out

ASSUME PipelineAssumption ==
  /\ IsFiniteSet(Runs) /\ IncidentOf \in [Runs -> Incidents]
  /\ LastProvider \in Nat \ {0} /\ threshold \in Nat \ {0} /\ PoolSize \in Nat \ {0}
  /\ max_calls \in Nat /\ max_tokens \in Nat /\ Costs \subseteq Nat
  /\ Replies \subseteq {"choices", "http error", "unreachable", "no choices", "not json", "odd usage"}
  /\ \A a \in Answers : DOMAIN a.members = Fields
  /\ Degraded \subseteq Runs /\ Shadow \in BOOLEAN /\ MaxCooldowns \in Nat

Providers == 1..LastProvider

VARIABLES
  active,      \* the incidents in status open or investigating
  pc,          \* where each run stands
  attempt,     \* 0 for the first call, 1 for the repair (and 0 again at the end)
  provider,    \* the provider of the chain it is at, 1 outside the chain
  readCount,   \* _consecutive_failures as its record_failure read it
  calls_used, tokens_used,  \* the TokenBudget of each incident
  fails,       \* _consecutive_failures of each breaker
  mode,        \* its state: "closed", "open", or "half_open" once cooled down
  hung,        \* workers of each pool busy with a call nobody waits for
  report,      \* the validated report of each run, the members of the object
  predictions, \* the rows saved: their run, its attempt and the report
  outcomes,    \* per incident, the timeline events of its runs
  cooldowns,
  closedEarly  \* runs whose incident was closed when their first answer came (history)

budgetVars == <<calls_used, tokens_used>>
breakerVars == <<fails, mode, cooldowns>>
resultVars == <<report, predictions, outcomes>>
vars == <<active, pc, attempt, provider, readCount, budgetVars, breakerVars, hung, resultVars,
          closedEarly>>

NoReport == Absent
Events == {"triage_completed", "triage_aborted", "schema_failure"}

Init ==
  /\ active = Incidents
  /\ pc = [r \in Runs |-> "checkpoint"]
  /\ attempt = [r \in Runs |-> 0]
  /\ provider = [r \in Runs |-> 1]
  /\ readCount = [r \in Runs |-> 0]
  /\ calls_used = [i \in Incidents |-> 0] /\ tokens_used = [i \in Incidents |-> 0]
  /\ fails = [p \in Providers |-> 0] /\ mode = [p \in Providers |-> "closed"]
  /\ hung = [p \in Providers |-> 0]
  /\ report = [r \in Runs |-> NoReport] /\ predictions = {}
  /\ outcomes = [i \in Incidents |-> [e \in Events |-> 0]]
  /\ cooldowns = 0
  /\ closedEarly = {}

Goto(r, label) == pc' = [pc EXCEPT ![r] = label]
Note(r, event) == outcomes' = [outcomes EXCEPT ![IncidentOf[r]][event] = @ + 1]

-----------------------------------------------------------------------------
(* run: checkpoints, budget, validation.                                   *)

\* The first checkpoint, before anything is spent.
CheckpointBefore(r) ==
  /\ pc[r] = "checkpoint"
  /\ IF IncidentOf[r] \in active
     THEN Goto(r, "spend") /\ UNCHANGED outcomes
     ELSE Goto(r, "aborted") /\ Note(r, "triage_aborted")
  /\ UNCHANGED <<active, attempt, provider, readCount, budgetVars, breakerVars, hung, report,
                 predictions, closedEarly>>

\* Mutation: assert_can_spend admits one call more.
AssertOneMore(r) ==
  /\ pc[r] = "spend"
  /\ LET i == IncidentOf[r]
     IN Goto(r, IF calls_used[i] > max_calls \/ tokens_used[i] >= max_tokens
                THEN "degraded" ELSE "provider")
  /\ UNCHANGED <<active, attempt, provider, readCount, budgetVars, breakerVars, hung, resultVars, closedEarly>>

\* assert_can_spend, before the first call and again before the repair.
AssertCanSpend(r) ==
  /\ pc[r] = "spend"
  /\ LET i == IncidentOf[r]
     IN Goto(r, IF calls_used[i] >= max_calls \/ tokens_used[i] >= max_tokens
                THEN "degraded" ELSE "provider")
  /\ UNCHANGED <<active, attempt, provider, readCount, budgetVars, breakerVars, hung, resultVars, closedEarly>>

\* budget.record: what the answer cost is known only now.
RecordSpent(r) ==
  /\ pc[r] = "record"
  /\ LET i == IncidentOf[r]
     IN /\ calls_used' = [calls_used EXCEPT ![i] = @ + 1]
        /\ \E cost \in Costs : tokens_used' = [tokens_used EXCEPT ![i] = @ + cost]
        /\ closedEarly' = IF attempt[r] = 0 /\ i \notin active
                          THEN closedEarly \cup {r} ELSE closedEarly
  /\ Goto(r, IF attempt[r] = 0 THEN "checkpoint 2" ELSE "validate")
  /\ provider' = [provider EXCEPT ![r] = 1]
  /\ UNCHANGED <<active, attempt, readCount, breakerVars, hung, resultVars>>

\* Mutation: only the first checkpoint is there.
CheckpointAfterSkipped(r) ==
  /\ pc[r] = "checkpoint 2"
  /\ Goto(r, "validate")
  /\ UNCHANGED <<active, attempt, provider, readCount, budgetVars, breakerVars, hung, resultVars,
                 closedEarly>>

\* The second checkpoint, after the first answer; the repair has none.
CheckpointAfter(r) ==
  /\ pc[r] = "checkpoint 2"
  /\ IF IncidentOf[r] \in active
     THEN Goto(r, "validate") /\ UNCHANGED outcomes
     ELSE Goto(r, "aborted") /\ Note(r, "triage_aborted")
  /\ UNCHANGED <<active, attempt, provider, readCount, budgetVars, breakerVars, hung, report,
                 predictions, closedEarly>>

\* After a ValueError there is one repair, and then none.
Repair(r) ==
  IF attempt[r] = 0 THEN attempt' = [attempt EXCEPT ![r] = 1] /\ Goto(r, "spend")
  ELSE Goto(r, "degraded") /\ UNCHANGED attempt

\* extract_json_object and validate_report; what raises something else than
\* ValueError degrades the run without a repair.
Validate(r) ==
  /\ pc[r] = "validate"
  /\ \E answer \in Answers :
       LET verdict == IF Extractable(answer.lines)
                      THEN validate_report(answer.members, IncidentOf[r]) ELSE "ValueError"
       IN \/ /\ verdict = "report" /\ report' = [report EXCEPT ![r] = answer.members]
             /\ Goto(r, "save") /\ UNCHANGED attempt
          \/ verdict = "ValueError" /\ Repair(r) /\ UNCHANGED report
          \/ verdict = "raises" /\ Goto(r, "degraded") /\ UNCHANGED <<attempt, report>>
  /\ UNCHANGED <<active, provider, readCount, budgetVars, breakerVars, hung, predictions, outcomes,
                 closedEarly>>

\* A report on a context that lacks a source says so.
Amended(doc) == [doc EXCEPT !.missing_context = List(<<Str("context unavailable")>>)]
Completed(r) ==
  IF r \in Degraded /\ report[r].missing_context.items = <<>> THEN Amended(report[r]) ELSE report[r]

\* _finish_report: save_prediction.  A text it cannot encode is a ValueError.
SavePrediction(r) ==
  /\ pc[r] = "save"
  /\ \/ /\ Storable(report[r])
        /\ predictions' = predictions \cup
             {[run |-> r, attempt |-> attempt[r], report |-> Completed(r)]}
        /\ report' = [report EXCEPT ![r] = Completed(r)]
        /\ Goto(r, "complete") /\ UNCHANGED attempt
     \/ /\ ~Storable(report[r]) /\ report' = [report EXCEPT ![r] = NoReport]
        /\ Repair(r) /\ UNCHANGED predictions
  /\ UNCHANGED <<active, provider, readCount, budgetVars, breakerVars, hung, outcomes, closedEarly>>

\* _finish_report: the event, and in shadow mode the file.  When that cannot be
\* written run degrades a report already saved, and when its text cannot be
\* encoded run has it repaired.
LogCompleted(r) ==
  /\ pc[r] = "complete"
  /\ Note(r, "triage_completed")
  /\ report' = [report EXCEPT ![r] = NoReport]
  /\ \/ (Shadow => Writable(report[r])) /\ Goto(r, "report") /\ attempt' = [attempt EXCEPT ![r] = 0]
     \/ Shadow /\ Goto(r, "degraded") /\ UNCHANGED attempt
     \/ Shadow /\ ~Writable(report[r]) /\ Repair(r)
  /\ UNCHANGED <<active, provider, readCount, budgetVars, breakerVars, hung, predictions, closedEarly>>

\* Mutation: a degraded run leaves nothing in the timeline.
DegradeSilently(r) ==
  /\ pc[r] = "degraded"
  /\ Goto(r, "gave up")
  /\ UNCHANGED <<active, attempt, provider, readCount, budgetVars, breakerVars, hung, resultVars,
                 closedEarly>>

\* _degraded.
Degrade(r) ==
  /\ pc[r] = "degraded"
  /\ Note(r, "schema_failure")
  /\ Goto(r, "gave up")
  /\ attempt' = [attempt EXCEPT ![r] = 0]
  /\ UNCHANGED <<active, provider, readCount, budgetVars, breakerVars, hung, report,
                 predictions, closedEarly>>

-----------------------------------------------------------------------------
(* ProviderChain.complete and the guard around each provider.              *)

\* The next provider of the chain; after the last one AllProvidersFailedError.
Fallback(r) ==
  IF provider[r] = LastProvider
  THEN Goto(r, "degraded") /\ provider' = [provider EXCEPT ![r] = 1]
  ELSE Goto(r, "provider") /\ provider' = [provider EXCEPT ![r] = @ + 1]

Calling(p) == {r \in Runs : pc[r] = "calling" /\ provider[r] = p}

\* allow_request, and the call is submitted; it waits when the pool is full.
\* An open breaker counts as a failure of the provider, unrecorded.
Submit(r) ==
  /\ pc[r] = "provider"
  /\ LET p == provider[r]
     IN \/ mode[p] = "open" /\ Fallback(r)
        \/ /\ mode[p] # "open" /\ provider' = provider
           /\ Goto(r, IF Cardinality(Calling(p)) + hung[p] < PoolSize THEN "calling" ELSE "queued")
  /\ UNCHANGED <<active, attempt, readCount, budgetVars, breakerVars, hung, resultVars, closedEarly>>

\* A worker is free for a call that waits.
Start(r) ==
  /\ pc[r] = "queued"
  /\ Cardinality(Calling(provider[r])) + hung[provider[r]] < PoolSize
  /\ Goto(r, "calling")
  /\ UNCHANGED <<active, attempt, provider, readCount, budgetVars, breakerVars, hung, resultVars,
                 closedEarly>>

\* OpenAICompatProvider.complete: HTTP errors, an endpoint that is not reached
\* and a body without choices are a ProviderError; a body that is not JSON or
\* whose usage is no object raises what neither the chain nor the breaker catches.
complete(reply) ==
  CASE reply = "choices" -> "success"
    [] reply \in {"http error", "unreachable", "no choices"} -> "failure"
    [] reply \in {"not json", "odd usage"} -> "degraded"

\* The provider answers in time.
Return(r) ==
  /\ pc[r] = "calling"
  /\ \E reply \in Replies :
       /\ Goto(r, complete(reply))
       /\ provider' = IF complete(reply) = "degraded" THEN [provider EXCEPT ![r] = 1] ELSE provider
  /\ UNCHANGED <<active, attempt, readCount, budgetVars, breakerVars, hung, resultVars,
                 closedEarly>>

\* Mutation: a call that waits for a worker has no timeout.
TimeoutRunningOnly(r) ==
  /\ pc[r] = "calling"
  /\ hung' = [hung EXCEPT ![provider[r]] = @ + 1]
  /\ Goto(r, "failure")
  /\ UNCHANGED <<active, attempt, provider, readCount, budgetVars, breakerVars, resultVars,
                 closedEarly>>

\* The timeout: a call that runs goes on and keeps its worker, a call that
\* waits is cancelled.
Timeout(r) ==
  /\ pc[r] \in {"calling", "queued"}
  /\ hung' = IF pc[r] = "calling" THEN [hung EXCEPT ![provider[r]] = @ + 1] ELSE hung
  /\ Goto(r, "failure")
  /\ UNCHANGED <<active, attempt, provider, readCount, budgetVars, breakerVars, resultVars,
                 closedEarly>>

\* record_success, its first assignment, and its second.
ResetCount(r) ==
  /\ pc[r] = "success"
  /\ fails' = [fails EXCEPT ![provider[r]] = 0]
  /\ Goto(r, "close")
  /\ UNCHANGED <<active, attempt, provider, readCount, budgetVars, mode, cooldowns, hung,
                 resultVars, closedEarly>>

CloseBreaker(r) ==
  /\ pc[r] = "close"
  /\ mode' = [mode EXCEPT ![provider[r]] = "closed"]
  /\ Goto(r, "record")
  /\ UNCHANGED <<active, attempt, provider, readCount, budgetVars, fails, cooldowns, hung,
                 resultVars, closedEarly>>

\* record_failure: the counter is read, and written back one higher; another
\* thread may come between.
ReadFailures(r) ==
  /\ pc[r] = "failure"
  /\ readCount' = [readCount EXCEPT ![r] = fails[provider[r]]]
  /\ Goto(r, "count")
  /\ UNCHANGED <<active, attempt, provider, budgetVars, breakerVars, hung, resultVars, closedEarly>>

\* At the threshold the breaker opens, also one that was cooled down.
WriteFailures(r) ==
  /\ pc[r] = "count"
  /\ LET p == provider[r]
         count == readCount[r] + 1
     IN /\ fails' = [fails EXCEPT ![p] = count]
        /\ mode' = IF count >= threshold THEN [mode EXCEPT ![p] = "open"] ELSE mode
  /\ readCount' = [readCount EXCEPT ![r] = 0]
  /\ Fallback(r)
  /\ UNCHANGED <<active, attempt, budgetVars, cooldowns, hung, resultVars, closedEarly>>

-----------------------------------------------------------------------------
\* The cooldown of an open breaker runs out: it is half open until the next
\* result, for every request that comes.
CoolDown(p) ==
  /\ mode[p] = "open" /\ cooldowns < MaxCooldowns
  /\ cooldowns' = cooldowns + 1
  /\ mode' = [mode EXCEPT ![p] = "half_open"]
  /\ UNCHANGED <<active, pc, attempt, provider, readCount, budgetVars, fails, hung,
                 resultVars, closedEarly>>

\* A call nobody waits for comes to its end.
HungEnds(p) ==
  /\ hung[p] > 0
  /\ hung' = [hung EXCEPT ![p] = @ - 1]
  /\ UNCHANGED <<active, pc, attempt, provider, readCount, budgetVars, breakerVars, resultVars,
                 closedEarly>>

\* A human marks the incident mitigated.
CloseIncident(i) ==
  /\ i \in active
  /\ active' = active \ {i}
  /\ UNCHANGED <<pc, attempt, provider, readCount, budgetVars, breakerVars, hung, resultVars,
                 closedEarly>>

Step(r) ==
  \/ CheckpointBefore(r) \/ AssertCanSpend(r) \/ RecordSpent(r) \/ CheckpointAfter(r)
  \/ Validate(r) \/ SavePrediction(r) \/ LogCompleted(r) \/ Degrade(r)
  \/ Submit(r) \/ Start(r) \/ Return(r) \/ Timeout(r)
  \/ ResetCount(r) \/ CloseBreaker(r) \/ ReadFailures(r) \/ WriteFailures(r)

Next ==
  \/ \E r \in Runs : Step(r)
  \/ \E p \in Providers : CoolDown(p) \/ HungEnds(p)
  \/ \E i \in Incidents : CloseIncident(i)

Spec == Init /\ [][Next]_vars
\* Threads go on; a call that hangs need not end.
FairSpec == Spec /\ \A r \in Runs : WF_vars(Step(r))

-----------------------------------------------------------------------------
Finished == {"report", "aborted", "gave up"}
Labels == Finished \cup {"checkpoint", "spend", "provider", "queued", "calling", "success",
  "close", "failure", "count", "record", "checkpoint 2", "validate", "save", "complete", "degraded"}
RunsOf(i) == {r \in Runs : IncidentOf[r] = i}

Documents == {a.members : a \in Answers}

RunType ==
  /\ pc \in [Runs -> Labels] /\ attempt \in [Runs -> {0, 1}] /\ provider \in [Runs -> Providers]
  /\ readCount \in [Runs -> Nat]
  /\ report \in [Runs -> {NoReport} \cup Documents \cup {Amended(doc) : doc \in Documents}]
  /\ \A r \in Runs : /\ report[r] # NoReport <=> pc[r] \in {"save", "complete"}
                     /\ pc[r] = "save" => report[r] \in Documents

SharedType ==
  /\ active \subseteq Incidents /\ closedEarly \subseteq Runs
  /\ calls_used \in [Incidents -> Nat] /\ tokens_used \in [Incidents -> Nat]
  /\ fails \in [Providers -> Nat] /\ mode \in [Providers -> {"closed", "open", "half_open"}]
  /\ outcomes \in [Incidents -> [Events -> Nat]] /\ cooldowns \in 0..MaxCooldowns

PoolType ==
  /\ hung \in [Providers -> Nat]
  /\ \A p \in Providers : hung[p] + Cardinality(Calling(p)) <= PoolSize

TypeOK == RunType /\ SharedType /\ PoolType

\* The call limit of an incident is exceeded by no more than the other runs of
\* that incident that were under way: each checks before it spends.
OverspendBounded ==
  \A i \in Incidents : calls_used[i] <= max_calls + Cardinality(RunsOf(i)) - 1 \/ calls_used[i] = 0

\* When the incident was closed before the first answer came, the run ends
\* without a prediction and without a second call.
ClosedStopsTriage ==
  \A r \in closedEarly : pc[r] \in {"checkpoint 2", "aborted"} /\ attempt[r] = 0

\* A run that ended left exactly one event for its end in the timeline, and a
\* prediction exactly for each triage_completed.
EndIsRecorded ==
  \A i \in Incidents :
    /\ (\A r \in RunsOf(i) : pc[r] \in Finished) =>
         /\ outcomes[i]["triage_completed"] = Cardinality({row \in predictions : IncidentOf[row.run] = i})
         /\ outcomes[i]["triage_aborted"] = Cardinality({r \in RunsOf(i) : pc[r] = "aborted"})
         /\ outcomes[i]["schema_failure"] = Cardinality({r \in RunsOf(i) : pc[r] = "gave up"})
    /\ \A r \in RunsOf(i) : pc[r] = "report" => \E row \in predictions : row.run = r

\* Whatever the model says, a saved report is about the incident of its run,
\* has one to five hypotheses with a confidence in [0, 1], actions of a known
\* risk, and names something missing when the context lacked a source.
SavedMeetsContract ==
  \A row \in predictions :
    /\ row.report.incident_id = Str(IncidentOf[row.run])
    /\ Len(row.report.hypotheses.items) \in 1..5
    /\ \A h \in ToSet(row.report.hypotheses.items) : 0 <= h.confidence.value /\ h.confidence.value <= 100
    /\ \A a \in ToSet(row.report.suggested_actions.items) : a.risk.text \in {"read-only", "mutating"}
    /\ row.run \in Degraded => row.report.missing_context.items # <<>>

\* Every run ends, also when calls hang for good, pools are full and breakers
\* are open.
RunsEnd == <>(\A r \in Runs : pc[r] \in Finished)
=============================================================================
