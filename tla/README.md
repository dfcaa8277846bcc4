# A TLA+ verification of ai-oncall

ai-oncall takes alerts from Alertmanager, opens an incident for each, has a
language model write a triage report, asks a human in Telegram to approve the
report's mutating steps, executes what was approved, and keeps a
tamper-evident timeline from which a postmortem is written and indexed. Two
processes share the work: the *gate* (Go: webhook, Telegram, context
collection) and the *core* (Python: incidents, triage, approval, execution,
knowledge, SQLite).

This directory models the parts of that program in which something has to
hold across threads, processes, crashes or retries. `PROJECT.json` holds the
machine-readable index: components, runs, mutants, the source lines of every
definition (`map`), hazards and theorems. Paths below are relative to
`src/core/src/oncall_core/` (core) and `src/gate/internal/` (gate).

## 1. The system and its parts

| Component | State it keeps | Operations | Interacts with |
|---|---|---|---|
| Alert ingest: gate `ingest/`, core `grpc_servicer.py`, `store.py` | idempotency store in memory (key, answer, expiry; bounded); `incidents` | webhook post, `Get`/`Put`, `ReportIncident`, `create_incident` | Alertmanager repeats posts; `ReportIncident` runs the triage in its own worker |
| Triage: `brain/triage.py`, `budget.py`, `providers/`, `schema_validator.py` | budget per incident, breaker and thread pool per provider, `predictions` | `run`, `_checkpoint`, `assert_can_spend`, `record`, `complete`, `validate_report`, `_finish_report`, `_degraded` | reads the incident's status, appends to the timeline, hands the report to the approval |
| Approval: `runbook/approval.py`, `approval_flow.py` | `_pending` in memory; `approval_requests` rows | `submit`, `on_approve`, `on_reject`, `on_timeout`, `handle_action`, `tick_timeouts` | callbacks from Telegram, notifier, knowledge index, executor |
| Executor: `executor/runner.py`, the shell adapter of `__main__.py` | one lock per incident, `executed_actions`, audit files | `execute`, `_shell_command_runner` | the approval's grant in the timeline, the incident's status, production |
| Callback router: gate `tgtransport/callback.go` | update offset, bounded retry queue, in memory | `FetchOnce`, `dispatch`, `FlushPending`, `Run` | Telegram's getUpdates, `ActionCallback` of the core |
| Incident log: `incident/machine.py`, `hashchain.py` | `timeline` with a hash chain, `incidents.status` | `append`, `verify`, `transition` | written to by every other part of the core |
| Correlator: `incident/correlate.py` | none but the `incidents` of the last five minutes | `ingest_alert` | store, incident log |
| Knowledge base: `memory/`; postmortems: `postmortem/writer.py` | `knowledge_chunks`; a git repository of pages | `reindex_runbooks`, `index_override`, `search_knowledge`, `draft`, `finalize` | rejections, prompts, timeline, editors of the files |
| Migrations: `store.py` | the schema and `schema_migrations` | `migrate` | every start of the core |
| Gate for core: `grpcserver/`, `tgtransport/transport.go`, `collect/`; core `triage_runner.py` | nothing beyond one call | `DeliverNotification`, `SendMessage`, `CollectContext`, `FanOut` | Telegram, Prometheus, Loki, a file of deployments |
| Read API and UI: `readapi/`, `src/ui` | none | list of incidents, page of an incident | several reads of the store per page |
| Schedule: `schedule/`; runbooks: `runbook/parse.py` | none | `roster_from_ics`, `chain`, `parse_runbook` | files |

What is hard in each of them, and what makes it correct:

* **Alert ingest.** The same alert arrives in several notifications at once,
  again after an error, again after its cache entry expired, and again after a
  restart of either process. Correct: one incident and one triage per
  fingerprint; a success means every alert of the batch is stored; every
  notification is acknowledged in the end.
* **Triage.** Runs of one incident check its budget and spend it later; a
  human closes the incident while the model thinks; calls hang and occupy
  their pool; the breaker counts without a lock; a late step fails after an
  earlier one was committed. Correct: bounded overspending, nothing saved for an
  incident that was closed before the answer, no saved report outside the
  contract, an end in the timeline for every run, and an end for every run.
* **Approval.** Two answers, an answer and the timeout scan, and a restart race
  over one request; a dict in memory and a table must agree. Correct: one
  decision, one execution and only of what was granted, no abandonment before
  the reminders, no answerless request that stays open.
* **Executor.** Threads, a lock made on demand, an idempotency key that is set at
  the end, steps that act after they were given up, previews that are the command
  itself, exit codes nobody looks at, death at any point.
  Correct: done is final, a step that raises stops the rest, what acts was authorised.
* **Callback router.** A bounded queue, lost answers, a crash between fetching and
  confirming. Correct: nothing vanishes without a trace, queue order, no
  repetition without a cause, arrival in the end.
* **Incident log.** Read-then-insert without a transaction, rows without
  hashes, rewritten and deleted rows, a status that is written before its event.
  Correct: damage is found and stays visible, only a race forks the chain, the
  timeline explains the status unless two transitions overlap or a death took the event.
* **Correlator.** Check-then-create, stale status. Correct: a storm splits into
  at most one incident per thread, and an answer can be traced in the database.
* **Knowledge base.** Delete, read and insert as separate steps; two files with
  one stem; two git commands over one index, and a commit whose failure nobody is
  told. Correct: an undisturbed pass is exact, copies are bounded, what was finalized
  is found and staged, and in HEAD unless its commit failed.
* **Migrations.** Statements that commit one by one; death in between.
  Correct: a recorded migration is a built one; an upgrade fails only over an
  ALTER that was committed and not recorded.
* **Remediation as a whole.** The parts above joined by the daemon: two registrations of
  one report, a notifier that fails between memory and table, a restart that
  forgets memory and keeps the table. Correct: memory and table part only in
  known ways, and every act on production is paid for by an approval.
* **Gate for core.** Retries after a lost answer, a caller that gives up before
  the retries do, sources that hang past the deadline. Correct: what core is told is
  what the chat shows, wherever that can be known; every source is accounted for
  once; the fan-out returns.
* **Read API.** Pages cut by offset over a table that grows, a total and a
  timeline read apart from what they go with. Correct: turning every page shows every
  incident; a page explains the status it shows.
* **Schedule, runbook parsing.** Silent skips, times taken for those of another zone, and
  gathered errors. Correct: the first to be called is the last readable shift that
  began, up to what the zone puts times off by; an accepted runbook is the whole one.

### Wiring

What the daemon connects decides some constants and the reach of some runs.

* `ReportIncident` calls `run_triage` in its own gRPC worker
  (`grpc_servicer.py:70-71`, in spite of the comment there), so a core that dies
  during a triage dies with the gate's call open: AlertIngest has it so.
* `serve` gives the servicer no `on_action` (`grpc_servicer.py:139-148`, called at
  `__main__.py:153`): the daemon writes an accepted press into the timeline of the
  newest incident and calls nothing. CallbackRouter is run with `Wired = FALSE`
  for that. If it were wired, `on_action` would be given the id of the callback
  and not the request id (`grpc_servicer.py:97`).
* `GateNotifier` has `deliver` but neither `notify` nor `deliver_buttons`, so with
  `GATE_ADDR` set every report with a mutating step raises in `submit`
  (`runbook/approval.py:133-147`): `NotifierFails = TRUE` and `ButtonsFail = TRUE` is the wired case, and the
  first registration that fails keeps the second from coming.
* The wrapper of `__main__.py:174` registers the approval of a report that
  `run_triage` (`__main__.py:126`) has registered already: two requests for one
  report, modelled as `First` and `Second` of RemediationFlow.
* RemediationFlow takes the answers to be routed to `handle_action`, as the comment at
  `approval_flow.py:104` has it; with the servicer as `main` builds it no request
  is ever answered and only the scheduler closes them.
* `EXECUTOR_MODE=shell` gives the runner `_shell_command_runner`
  (`__main__.py:36-54`, chosen at `:105-109`), the only adapter of the daemon that acts.
  It puts `--dry-run=server` into an action that begins with `kubectl` and runs
  every other action as it is, dry run or not; an exit code other than 0 is returned as
  output. Hence `Unpreviewed`, the steps whose preview is the command itself, and `MayAct`,
  after which a command has returned whether it achieved something or not. Only what
  raises is a failure: a timeout, a command that cannot be started, output that cannot
  be decoded.
* Nothing between a saved prediction and the executor reads the flag of shadow
  mode: RemediationFlow has none.
* `make_triage_runner`, `GateNotifier.deliver` and the gate's `CollectContext` are not
  called by the daemon; GateServer models them for whoever calls them.
* `Correlator`, `transition`, `reindex_runbooks`, `schedule`, `parse_runbook` and
  `PostmortemWriter` have no caller in the daemon; tests and tools use them. They
  are modelled as libraries that any number of threads may call.

## 2. The modules

| Module | Models | Composes |
|---|---|---|
| `ApprovalContract` | what the approval promises, without threads or tables | |
| `ApprovalFlow` | gate, orchestrator, callback workers, scheduler, restart | instantiates `ApprovalContract` under a refinement mapping |
| `ExecutorContract` | what executing an approved report promises: one attempt at a time, each step previewed and then run | |
| `Executor` | `execute` and its surroundings | instantiates `ExecutorContract` under a refinement mapping |
| `RemediationFlow` | the daemon from triage to production | extends `ApprovalFlow`; takes its executor steps from `ExecutorContract` |
| `IncidentLog` | hash chain and status machine | |
| `CallbackRouter` | router, Telegram's update queue, `ActionCallback` | |
| `AlertIngest` | Alertmanager, gate handler and store, `ReportIncident` | |
| `ReportSchema` | parsing and validation of an answer, as operators | |
| `TriagePipeline` | runs, budget, providers, breakers, pools | extends `ReportSchema` |
| `Correlator` | `ingest_alert` over the store | |
| `KnowledgeBase` | indexer, search, `finalize` with git | |
| `Migrations` | `migrate` | |
| `GateServer` | delivery with retries, fan-out with deadline | |
| `Desk` | readers of the read API beside core's writes | |
| `Roster`, `RunbookSchema` | calendar to chain of escalation, runbook to verdict, as operators | |
| `MC_*` | the values of the constants for the checks | |
| `RemediationFlow_proofs` | theorems about `ApprovalFlow` and `RemediationFlow` | extends `RemediationFlow` |
| `Executor_proofs`, `IncidentLog_proofs`, `AlertIngest_proofs`, `CallbackRouter_proofs`, `TriagePipeline_proofs`, `KnowledgeBase_proofs` | theorems about the module of the same name | extend it |
| `Services_proofs` | theorems about `Correlator`, `GateServer`, `Migrations`, `Desk`, `RunbookSchema` and `Roster` | extends them together, which is why GateServer, Migrations and Desk prefix the names of their parts (`GateInit`, `MigrateNext`, `DeskSpec`) |

**How code becomes steps.** A step is one access to shared state: one operation
on an object in memory, one call of the store (its lock covers the call, not a
sequence of calls), one call of a collaborator, one file operation or one git
command. Between two steps of a thread every other thread may move and, where
the module has a crash action, the process may die. The `pc` variable of a
thread (`reg`, `wpc` and `spc` in ApprovalFlow) names the place in the function. An
early return or an exception is a disjunct of the step that meets it. Locals of
a thread are in the state only while they are read again. Action names are
those of the functions, or of what a part of a function does.

**Composition.** `RemediationFlow` extends `ApprovalFlow` and adds the thread of
`ReportIncident` and, for each worker, its place inside `execute`. Its executor
is `ExecutorContract`, whose `granted` is the grant in the timeline of ApprovalFlow; that
the runner's code meets this contract is what the run `Executor` checks. So the
detail of locks and events is checked once, and its promise is used in the whole.

**State.** `ApprovalFlow.live` and `obj` are `_pending` and its objects, `row` and
`created` the table, `trail` the timeline as a count per kind. `Executor.done` is
`done_at`; `applied` counts what commands and acting previews did to production and
survives a crash; its `status` tells apart only what the runner does ("open" stands for
investigating, too, and "mitigated" for resolved).
`IncidentLog.rows` are the rows in order of id; a hash is the term it commits to,
so equal hashes mean equal contents (SHA-256 taken to be free of collisions).
`CallbackRouter.confirmed` is Telegram's side of the offset. `AlertIngest.rpc` are the
calls at the core, which go on when the gate stops waiting. In
`TriagePipeline`, `hung` counts pool workers busy with calls nobody waits for, and a
report is a record of JSON values. `Correlator.window` is the order of
`updated_at`. `KnowledgeBase.page`, `staged` and `head` are the version of a page in
the work tree, the index and HEAD. `Migrations.objects` are the tables, indexes
and columns that exist.

History variables (marked so in the modules) only record what happened and
guard nothing.

Definitions whose comment begins with *Mutation:* are plausible bugs. Nothing
uses them; each has a property that finds it when it takes the place of the
definition below it (`mutants` in PROJECT.json).

## 3. The runs

Run a configuration with `tlc -workers 2 -config X.cfg M`.

| Run | Question | Bounds, and why they are enough |
|---|---|---|
| `ApprovalRaces` | Can callbacks, scheduler and a crash decide twice, execute wrongly or break the contract? | 2 requests, 2 workers, 3 callbacks, 1 crash, one target, buttons that may fail to be sent: two answers race the scan on one request while another one is in the same tick, and one more answer follows. |
| `Remediation` | Do memory and table agree from triage to production, is every act paid for, does every unanswered request come to an end? | Two registrations of one report with 1 step whose preview acts, too, 1 worker, 2 answers, chain of two targets, a notifier that fails, 1 crash anywhere: both requests are granted and executed, one registers only half, a reject meets an escalated one. The order of steps is the question of the run `Executor`, and `ActSafety` is proved for any number of them. |
| `Executor` | Is what acts authorised, does a step that raises stop, is the contract met? | 2 threads, 4 reports (two of two steps with one key, the mutating step of one by kubectl and of the other by a command without preview, one that only looks, one not validated), 3 calls, 1 crash, an audit that fails: a wait for the lock, a retry after failure and one after a crash, two reports under one key. |
| `GateServer` | Is core told what happened, is every source accounted for, does the fan-out return? | The code's own numbers: 4 posts, 4 sources (or 3), with and without a service label, every outcome of every request. |
| `Desk` | Do pages show every incident and explain its status; are calendars and runbooks read soundly? | 4 incidents, 2 moves each, pages of 2: an incident is created between any two pages and the last page is full or short. Every calendar of up to 3 events of 3 people, in UTC, as a date or in local time, beginning before, at and after the hour it is read at, on a machine one hour ahead of UTC, which moves a shift across that hour; every runbook of up to 2 steps. Each file in an initial state of its own. |
| `IncidentLog` | What does `verify` see, and does the timeline explain the status? | 2 writers, 2 operators, 3 rows, 1 rewritten or deleted row, 1 crash anywhere: a fork needs two writers, hiding damage needs rows before and behind it, and two transitions write their events in the other order than their statuses or lose one to the crash. |
| `CallbackRouter` | Do presses arrive, in order, once? | 4 updates (one not a press), queue of 2, 4 failures, 1 crash: the queue overflows and a second flush meets the leftovers of the first. |
| `AlertIngest` | One incident and one triage per fingerprint; acknowledgement? | 2 overlapping batches, of 2 alerts and of 1, firing and resolved (3 keys), store of 1 entry, 9 calls, 1 failure, 1 crash of either side: the store overflows, a batch fails in its middle, is repeated and acknowledged. With one failure and one crash no behaviour needs more than 8 calls until all is acknowledged, so the bound keeps none from it. |
| `TriagePipeline` | Budget, breaker, pool, closing, validation, ends? | 2 runs of one incident, 2 providers, pool of 1, threshold 2, budgets of 2, 20 answers, 6 outcomes of a call, 1 cooldown: pools fill, breakers open, a repair meets a spent budget. |
| `Correlator` | How far does a storm split; are answers traceable? | 2 threads, 3 equal alerts and a near one, 3 calls, 3 moves, 1 crash: two creations race and a third call finds both. |
| `KnowledgeBase` | Are passes exact, copies bounded, postmortems found and committed? | 2 threads, 2 files of one stem that is also an incident's id, 2 texts, 3 calls, 1 edit, 2 drafts, 1 crash. |
| `Migrations` | Does an upgrade leave what it recorded, and can it fail? | All ten releases, the whole list, up to 3 deaths at any statement. |

Bounds stand in the guards under the names of constants (`MaxCalls`, `MaxCrashes`,
`MaxDeaths`, `MaxFailures`, `MaxRows`, `MaxAttacks`, `MaxMoves`, `MaxChanges`,
`MaxEdits`, `MaxDrafts`, `MaxUpdates`, `MaxCooldowns`, `MaxIncidents`). The pool of a provider has two workers in the code
and one in the run, the queue of the router holds 1000 callbacks and two; nothing
depends on the numbers but when the limit is met. Symmetry is used only in
runs without liveness. `CHECK_DEADLOCK FALSE` stands where everything may come
to an end: bounded calls all returned, every run finished, every notification
acknowledged.

The type invariants (`TypeOK`, `GateTypeOK`) are part of the modules. They hold in
the runs and are proved (`TypeCorrect`, `CorrelatorType`, `GateType`); those of
RemediationFlow, Migrations and Desk (`RemedyType`, `MigrationType`, `StoreType`,
`ReaderType`) are parts of inductive invariants in the proof modules. None is listed
in a configuration: a configuration names what could be wrong.

The properties, by module:

* ApprovalFlow: `DecidedOnce`, `ExecutedWasGranted`, `MeetsContract` (the threads
  implement ApprovalContract: every step is a step of the contract or leaves it
  alone), `UnansweredIsClosed` (checked in the whole, by `Remediation`).
* RemediationFlow: `TableMatchesMemory`, `EveryActIsPaidFor`.
* Executor: `FailureStops`, `ActsAuthorised`, `MeetsContract` (the calls implement
  ExecutorContract: attempts one after another, none for a key that is done). How often a
  step may act in one attempt is `Times`: once, or twice if its preview is the command.
* GateServer: `EverySourceAccounted`, `ToldAsShown`, `CollectEnds`.
* Desk: `ListIsComplete`, `PageExplainsStatus`; Roster: `ChainIsSound`; RunbookSchema:
  `AcceptedIsWhole`.
* IncidentLog: `TamperDetected`, `DamageShows`, `ForkNeedsRace`,
  `TimelineExplainsStatus` (which says when the two may part: after the death
  of the last transition before its event, or after one that overlapped another).
* CallbackRouter: `NothingVanishesUnseen`, `QueueInOrder`, `TwiceOnlyIfUnsure`,
  `PressArrives`.
* AlertIngest: `TriagedOnce`, `UntriagedOnlyAfterDeath`, `EventuallyAcked` (with every
  alert of the batch stored).
* TriagePipeline: `OverspendBounded`, `ClosedStopsTriage`, `EndIsRecorded`,
  `SavedMeetsContract`, `RunsEnd`.
* Correlator: `StormSplitBounded`, `AnsweredIsTraceable`.
* KnowledgeBase: `CopiesBounded`, `PassIsExact`, `FinalizedIsSearchable`,
  `ReturnedIsCommitted`.
* Migrations: `RecordedIsBuilt`, `FailsOnlyIfTorn`.

## 4. Fairness

Only weak fairness is assumed, and only of threads of the program. Crashes,
failures, users, editors and operators owe nothing.

* RemediationFlow: the thread of `ReportIncident` goes on once the triage runs (that a
  triage ends is `RunsEnd` of TriagePipeline), a worker inside
  `handle_action` goes on, and the scheduler thread ticks for ever
  (`approval_flow.py:169-190` is a loop that catches what a tick raises). No answer
  and no alert is assumed. A command that hangs for ever would break it: the
  pool of `_run_with_timeout` waits for it (`executor/runner.py:224-233`).
* GateServer: the timer of the fan-out runs out, goroutines proceed, and the file
  of deployments can be read to its end - its reader looks at no context
  (`collect/deploys.go:36`). No remote source has to answer.
* CallbackRouter: `Run` loops until its context is cancelled. A failure is
  possible at every call and bounded in number: arrival is claimed for a core
  that fails finitely often.
* AlertIngest: handlers and gRPC workers go on, and Alertmanager sends a
  notification again after an error. Answers with status 429 are taken as errors
  it repeats, too. Failures are bounded, and the bound on calls is above what
  any behaviour with so many failures can use.
* TriagePipeline: every run's thread goes on. A hung call need *not* end; that
  a run ends is due to the timeout, which covers a queued call as well.

## 5. What is proved

TLAPS checks every theorem below for all values of the constants that the
module's named assumption admits: any number of threads, requests, alerts, files,
rows and updates, any limit, any number of failures and crashes. What the
assumptions ask is what the code fixes (two risks, four sources, a pool with a
worker, a batch with an alert), that bounds are numbers and, where something
is counted, that threads or runs are finitely many. Every invariant and every action property that a
run checks is stated by one of them; together with the two contracts these are all
the safety properties of the project.

| Module | Theorem | States |
|---|---|---|
| `RemediationFlow_proofs` | `TypeCorrect` | `Spec => []TypeOK` (ApprovalFlow) |
| | `DecisionSafety`, `ExecutionSafety` | `DecidedOnce`, `ExecutedWasGranted` |
| | `ReminderSafety` | a request is abandoned only after every reminder (`WholeChainReminded`), if `NotifierFails = FALSE` (the buttons may fail) |
| | `ContractMet` | `Spec => MeetsContract`, the refinement of ApprovalContract, if `NotifierFails = FALSE` |
| | `FlowImplemented` | `RSpec => Spec`: the daemon's threads do nothing to the approvals that ApprovalFlow does not do, so the theorems above hold of the whole |
| | `ExecutorImplemented` | `RSpec => X!Spec`: the daemon's executions are those of ExecutorContract, with the grants of both timelines as its grant and a death as an attempt cut short |
| | `TableSafety`, `ActSafety` | `TableMatchesMemory`, `EveryActIsPaidFor`, with failing notifiers too, for any number of steps whichever of them act when previewed |
| `Executor_proofs` | `TypeCorrect`, `SequenceSafety`, `AuthoritySafety` | `TypeOK`, `FailureStops`, `ActsAuthorised` |
| | `ContractMet` | `Spec => MeetsContract`, the refinement of ExecutorContract |
| | | (all of them for any reports, whichever of their mutating steps have no preview but themselves) |
| `IncidentLog_proofs` | `TypeCorrect`, `TamperSafety`, `ForkSafety` | `TypeOK`, `TamperDetected`, `ForkNeedsRace` |
| | `DamageSafety` | `DamageShows`, a property of every step |
| | `StatusSafety` | `TimelineExplainsStatus`, for any number of operators and deaths |
| `AlertIngest_proofs` | `TypeCorrect`, `OnceSafety`, `UntriagedSafety` | `TypeOK`, `TriagedOnce`, `UntriagedOnlyAfterDeath` |
| | `AckedSafety` | an acknowledged notification has all its alerts stored (`AckedIsStored`, the safety half of `EventuallyAcked`) |
| `CallbackRouter_proofs` | `TypeCorrect`, `NothingLost`, `OrderSafety`, `TwiceSafety` | `TypeOK`, `NothingVanishesUnseen`, `QueueInOrder`, `TwiceOnlyIfUnsure` |
| `TriagePipeline_proofs` | `TypeCorrect`, `BudgetSafety`, `CheckpointSafety`, `EndSafety`, `ContractSafety` | `TypeOK`, `OverspendBounded`, `ClosedStopsTriage`, `EndIsRecorded`, `SavedMeetsContract` |
| `KnowledgeBase_proofs` | `TypeCorrect`, `FinalizedSafety`, `CommitSafety`, `CopiesSafety`, `PassSafety` | `TypeOK`, `FinalizedIsSearchable`, `ReturnedIsCommitted`, `CopiesBounded`, `PassIsExact` |
| `Services_proofs` | `CorrelatorType`, `TraceSafety`, `StormSafety` | type, `AnsweredIsTraceable`, `StormSplitBounded` |
| | `GateType`, `AccountSafety`, `AnswerSafety` | type, `EverySourceAccounted`, `ToldAsShown` |
| | `RecordedSafety`, `TornSafety` | `RecordedIsBuilt`, `FailsOnlyIfTorn`, for any number of deaths |
| | `ListSafety`, `PageSafety` | `ListIsComplete`, `PageExplainsStatus` |
| | `RunbookIsWhole`, `RunbookSafety` | `AcceptedIsWhole` of any runbook; `EveryRunbookIsWhole` as the run has it |
| | `ChainIsAlwaysSound`, `ChainSafety` | `ChainIsSound` of any calendar at any hour in any zone; `EveryChainIsSound` as the run has it |

Every invariant is shown to hold initially and to be preserved action by
action, and the temporal step is by PTL. Few of the properties are inductive as they
stand. What has to be added, and why it is true:

* **Approval.** `DecidedOnce` says nothing of a thread that has taken a request and not
  yet written its decision. In `OwnerInv` a request has at most one *owner*: it is in
  `_pending`, or one worker is between `_take` and its event, or the scheduler is
  between its deletion and its event (`OneOwner`); a request with an owner, or one
  not yet submitted, has no decision in its timeline (`OwnedUndecided`). The
  deletion from the dict is the only hand-over, and it succeeds for one thread.
  `RunOnce` continues behind the grant: the worker that wrote it is the only
  one that may reach the executor. `RemindersBehind` bounds the reminders in the
  timeline from below by what the object has counted, less the one that is being
  written; it needs a notifier that does not fail, because a reminder that raises is
  counted and not written. Under `ContractInv` each step maps to one of the
  contract's (`Decide` to `Grant` or `Reject`, `LogAbandoned` to `GiveUp`,
  `LogEscalated` to `Remind`, `ExecuteApproved` with a runner to `Run`) or stutters.
* **The whole.** `TableInv` says how far a registration came by what memory and table
  know of it, that who is about to close a row has taken the entry out or met one that was
  escalated, and that a pending row without an entry is decided, being decided, or left by a
  death. `RemedyInv` carries `RunOnce` into the executor: the workers there were
  sent by the one call for their request, one of them at most has begun
  (`OneRunner`). `Left` is what the attempt under way may still make a step do - twice
  what it does once, if the preview is the command - and `Debt` the same of each call; the
  acts of a step and those still owed are within the calls made (`PaidByCalls`),
  and all executions but one have failed (`PaidByFailures`).
* **Executor.** Who is between acquire and release holds the lock (`HolderOnly`), so that
  what was checked is still true when it is acted on (`ChecksHold`). Before a
  step is previewed, a completion of the one before it is left for all it may do, and
  before it runs for one act more (`CompletionAhead`); before a mutating command that can
  be previewed runs, a preview of it is left (`PreviewAhead`).
  That the key is set only inside the lock makes the calls attempts one after another.
* **Incident log.** A row's hash binds its contents unless it was rewritten (`RowInv`); a
  thread about to insert holds the last hash of the rows it could see
  (`ReaderInv`); as long as no event of the last transition died, the status is
  where a recorded change went or one whose operator has still to record it
  (`Explained`), and if that transition overlapped no other it is the only one to be
  recorded or the last one that was (`Exact`).
* **Alert ingest.** The insert succeeds for one call per fingerprint, and that call is the
  only one between insert and triage (`OneCreator`). Answers, entries of the
  store and alerts the handler has passed are in the table (`StoredBehind`).
* **Callback router.** The batch continues where the offset stands (`BatchFollows`), so
  every callback below it is with core, in memory, or given up (`Accounted`); what waits
  for a retry is older than what will be fetched (`MemoryBehind`), so the queue
  stays in order.
* **Triage.** Calls used and runs that passed the check count together against the limit
  (`BudgetInv`). A run whose incident was closed before its first answer cannot pass the checkpoint
  (`ClosedInv`). Events equal the runs at each end, and predictions are of earlier
  attempts than the one under way (`OutcomeInv`, `RowsBehind`).
* **Correlator.** The incidents of a storm and the threads about to open one count together
  against the number of threads (`StormInv`).
* **Knowledge base.** The copies of a stem and the threads between delete and insert count
  together (`CopiesBounded` itself says so); what was added is staged, what was committed is in HEAD
  unless git refused (`CommitInv`); a pass nobody disturbed has emptied the stem it is at and left behind what the
  last file of each stem says (`PassInv`).
* **Gate.** Every message in the chat beyond the first is one whose answer was lost
  (`ChatAccounted`); a source has its one entry once its collector was merged, and the fan-out
  returns when all of them were (`OneEntryEach`, `AllMerged`).
* **Migrations.** What is recorded is built, and a process has recorded the releases behind it and run the
  statements behind it (`BuiltInv`); a column is there because its release is
  recorded or was just reached, unless an ALTER was torn (`TornInv`).
  `MigrationList` reads the facts about the nine migrations off the list.
* **Desk.** Rows only come to one end of the list, so whoever has turned to a page has seen what was on the
  places before it (`SeenSoFar`); the timeline keeps what it had when the status was
  read (`LookInv`).
* **Roster.** Sorting by a total order gives all the members once and in order
  (`OrderedIs`), keeping first occurrences keeps their order (`UniqIs`), and the time a
  shift is parsed to is between its own and one that is off by the zone.

*Only model-checked:* the liveness properties `EventuallyAcked`, `PressArrives`,
`RunsEnd`, `CollectEnds` and `UnansweredIsClosed`, since fairness and ENABLED are beyond the prover.
No module declares a RECURSIVE operator, and what could be a fold or a sort
(the pages of the list, the clean steps of a runbook, the order of a calendar) is
defined by the place of each element, because induction over data is beyond it
as well.

## 6. Where code and documents disagree

* "冪等：同一動作對同一 Incident 只執行一次" (`executor/runner.py:4`). The key is marked done only
  when every step succeeded; after a failure or a crash the next execution
  starts again with the first step. ExecutorContract says what holds instead, and
  `EveryActIsPaidFor` bounds it.
* "無命中才新建 Incident" (`incident/correlate.py:7`) and "新警報應新建而非復活舊案"
  (`core/tests/test_t006_incident.py:172`, tried there with another
  fingerprint). The lookup by fingerprint has no status (`store.py:268`), so an alert
  that returns after its incident was resolved is merged into the resolved one
  without an event. `ReportIncident` has the same lookup.
* "失敗即停，不盲目續跑" (`executor/runner.py:7`). Only what raises stops. The shell adapter
  returns an exit code other than 0 as output (`__main__.py:53-54`), the step is recorded as
  `step_completed` (`executor/runner.py:186-188`), the next one runs, and at the end the key is
  marked done. `FailureStops` is about the steps that raise.
* "其他（shell）動作無法預演" (`executor/runner.py:36`, and "shell 類由 adapter 標注「無法預演」" at
  `:164`). The adapter the daemon uses does not say so: with `dry_run=True` it runs an action that
  does not begin with `kubectl` for real (`__main__.py:43-52`), and the runner then runs it
  again, so one grant pays for two acts. `ActsAuthorised` asks a preview first
  only of commands that have one, and `Times` counts the others twice.
* "無變更可提交（冪等）" (`postmortem/writer.py:252`). Every failed `git commit` is taken for that -
  no identity, a hook, signing, a full disk, the lock of another git - and
  `finalize` returns None with the page staged and not in HEAD. `ReturnedIsCommitted` says
  what is left: the next commit of any incident takes it.
* A postmortem is to be traced from the timeline (`incident/machine.py:43`), but a transition writes
  the status first (`:51`) and its event after it (`:54`), each in a call of its own: two
  operators may leave the status with the one and the last event with the other, and
  a death in between leaves a status no event went to (`TimelineExplainsStatus`).
* Shadow mode: "推播與執行一律跳過" (`shadow/__init__.py:3`), "不推播不執行" (`brain/triage.py:5`). The prediction is
  saved in shadow mode too, and the daemon registers an approval for whatever
  prediction is saved; once granted it is executed.
* "等待全部完成或整體逾時" (`collect/fanout.go:50`): `wg.Wait` waits for all of them
  whatever the deadline. `EverySourceAccounted` holds because it does, `CollectEnds` because
  the collectors but one obey their context.
* The buttons of a report (`approval_flow.py:6,63`) have no way out of core:
  `GateNotifier` has no `deliver_buttons`.
* "以「現在時間正在值班」者為 primary" (`schedule/__init__.py:46-47`). A calendar's "...Z" is matched as
  a letter and its time taken for local time (`:60-61`), which is then compared with the
  epoch (`:72-75`): whoever is called first is on duty up to the zone's offset only, and
  `ChainIsSound` says so. A time without Z is parsed as a date, fails, and its shift is
  dropped without a word (`:63-64`); DTEND is not read, so a shift that is over
  still counts as begun.

Smaller ones: a list filtered by
status skips rows when incidents leave the status between two pages
(`readapi/__init__.py:93`); `GateNotifier.deliver` answers False for a message that is
shown when the answer of Telegram came late (`triage_runner.py:48`); a rejection of an escalated request
closes the row but its reason is not indexed (`runbook/approval.py:167` against
`:8`); a restart forgets open requests whose rows stay pending (`:99` against
`:6-7`); a timeline nobody touched fails `verify`, because some rows are
written without hashes and because concurrent appends fork the chain
(`incident/hashchain.py:50` against `store.py:449`); answers are not routed
(Wiring, against `approval_flow.py:6`).

## 7. What is left out, and why

* Text: prompts, messages, page layout, redaction and the wording of events. An
  answer of the model is a sequence of tokens and JSON values, as far as the
  validator tells them apart; a completion that is not a string is not modelled.
* Failures of SQLite itself. A store call happens or the process has died.
* `index_override` that raises inside `on_reject`, and the event
  `approval_dry_run_unavailable`.
* What a command does: that it may act, fail or raise is modelled, not whether it has the
  risk the report gives it. Nor is there a property of the audit files: `executor/runner.py:11` wants the raw output
  kept, and the model has what can come of that (`Archive`): steps that acted and a key
  that is done, without a file and without `execution_finished`.
* The time of day: timeouts, cooldowns, windows and expiry are steps that may
  happen. The zone of the schedule is one constant offset, without daylight saving.
* In the knowledge base, similarity other than equality and the filters on
  service, cluster, severity and time; in the postmortem writer, the action
  items and the text of a draft.
* In GateServer, what a usable answer of a source contains. In Desk, pages made of one
  read (action items, runbooks, statistics), the search box of the UI, which looks at
  one page only, and incidents of equal `created_at`. In RunbookSchema, the
  YAML reader and a risk that cannot be hashed.
* Shadow statistics and evaluation kit (offline, over files nobody writes
  meanwhile), slash commands (one read each, not wired), redaction and webhook
  authentication (stateless text functions), and configuration, signals and metrics.

## 8. The plan

Done, in this order: the approval with its contract and proofs; executor; incident
log; callback router; alert ingest; triage; correlator; report schema;
knowledge base; migrations; then the executor's contract and its refinement, the
composition of the remediation flow, the gate's delivery and fan-out, the readers, the
schedule and the runbook parser.

Proved: every invariant and every action property a run checks, the type of every
module with variables, and that the threads implement their contracts (section 5).

Next theorem: the contract of the approval for a notifier that fails, with a
contract that counts the attempts to remind.

Left to model: statistics of shadow mode against a reference definition, the
postmortem's action items.
