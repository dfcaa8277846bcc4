--------------------------- MODULE RemediationFlow ---------------------------
(***************************************************************************)
(* One incident from triage to production, as the daemon wires it: the     *)
(* thread of ReportIncident runs the triage and registers an approval for  *)
(* the report it saved - once in run_triage and once more in the wrapper   *)
(* around it -, worker threads take the answers (ApprovalFlow) and call    *)
(* the executor, which acts as ExecutorContract has it (Executor.tla shows *)
(* that the runner meets it).  That an answer reaches handle_action is the *)
(* wiring approval_flow.py describes; main leaves it out.  The flag of     *)
(* shadow mode does not occur: nothing here reads it once the report is    *)
(* saved.                                                                  *)
(***************************************************************************)
EXTENDS ApprovalFlow

CONSTANTS
  First, Second,  \* the requests of the two registrations
  Steps,          \* steps of the report
  Unpreviewed     \* those whose dry-run is the command itself

ASSUME RemediationAssumption ==
  /\ First # Second /\ Requests = {First, Second}
  /\ Steps \in Nat \ {0} /\ Unpreviewed \subseteq 1..Steps

VARIABLES
  tpc,       \* where the thread of ReportIncident stands
  xpc,       \* where each worker stands in ExecutorRunner.execute
  status,    \* incidents.status
  done,      \* the action keys whose done_at is set
  attempts,  \* the execution that holds the incident's lock
  applied,   \* per step, how often its command acted
  failures   \* executions that began and did not finish

execVars   == <<status, done, attempts, applied>>
triageVars == <<tpc>>
remedyVars == <<vars, tpc, xpc, execVars, failures>>

Granted(r) == Occurs(r, "approval_granted")

\* Both requests carry the same report, hence one action key.
X == INSTANCE ExecutorContract WITH
  Reports  <- {"report"},
  StepsOf  <- [r \in {"report"} |-> Steps],
  Mutating <- {"report"},
  Unpreviewed <- [r \in {"report"} |-> Unpreviewed],
  KeyOf    <- [r \in {"report"} |-> r],
  granted  <- \E r \in Requests : Granted(r)

RInit ==
  /\ Init
  /\ X!Init
  /\ tpc = "idle"
  /\ xpc = [w \in Workers |-> "no"]
  /\ failures = 0

-----------------------------------------------------------------------------
(* The thread of ReportIncident.                                           *)

\* The gRPC call runs the triage itself.
StartTriage ==
  /\ tpc = "idle" /\ tpc' = "pipeline"
  /\ UNCHANGED <<vars, xpc, execVars, failures>>

\* pipeline.run is over: a report with a mutating step was saved as the
\* latest prediction, or there is nothing to register.
PipelineEnds ==
  /\ tpc = "pipeline"
  /\ tpc' \in {"first", "answered"}
  /\ UNCHANGED <<vars, xpc, execVars, failures>>

\* The registration under way, if any.
Registering == CASE tpc = "first" -> {First} [] tpc = "second" -> {Second} [] OTHER -> {}

\* register_from_report; an exception of the notifier ends the whole call, so
\* the second registration never comes.
RegisterStep ==
  /\ \E r \in Registering : Submit(r) \/ Register(r)
  /\ tpc' = CASE reg'[First] = "failed" \/ reg'[Second] = "failed" -> "failed"
              [] reg'[Second] = "offered" -> "answered"
              [] reg'[First] = "offered"  -> "second"
              [] OTHER -> tpc
  /\ UNCHANGED <<xpc, execVars, failures>>

Triage == StartTriage \/ PipelineEnds \/ RegisterStep

-----------------------------------------------------------------------------
(* The worker threads: handle_action, and inside it the executor.          *)

Answer(w) ==
  /\ xpc[w] = "no"
  /\ \E r \in Requests, kind \in {"approve", "reject"} : Callback(w, r, kind)
  /\ UNCHANGED <<triageVars, xpc, execVars, failures>>

\* A step of handle_action; its last one calls execute.
HandleStep(w) ==
  /\ Handle(w)
  /\ xpc' = [xpc EXCEPT ![w] = IF runs' # runs THEN "called" ELSE @]
  /\ UNCHANGED <<triageVars, execVars, failures>>

Enter(w, place) == xpc' = [xpc EXCEPT ![w] = place]

\* Mutation: the executor does not ask whether the key was done.
BeginAgain(w) ==
  /\ xpc[w] = "called" /\ Enter(w, "running")
  /\ attempts = {} /\ attempts' = {[report |-> "report", next |-> 1, turn |-> "preview"]}
  /\ UNCHANGED <<vars, triageVars, status, done, applied, failures>>

\* The lock is free and nothing speaks against running the report.
Begin(w) ==
  /\ xpc[w] = "called" /\ Enter(w, "running")
  /\ UNCHANGED <<vars, triageVars, failures>>
  /\ X!Begin("report")

\* The lock is free, but the report was done or the incident was settled.
Skip(w) ==
  /\ xpc[w] = "called" /\ Enter(w, "no")
  /\ attempts = {}
  /\ "report" \in done \/ status \in {"mitigated", "resolved"}
  /\ UNCHANGED <<vars, triageVars, execVars, failures>>

\* The next preview or command, which may act; or the execution ends early: a step
\* fails with or without having acted.
RunStep(w) ==
  /\ xpc[w] = "running"
  /\ UNCHANGED <<vars, triageVars>>
  /\ X!Stop \/ \E i \in 1..Steps : X!Preview("report", i) \/ X!Act("report", i)
  /\ IF attempts' = {} THEN Enter(w, "no") /\ failures' = failures + 1
                       ELSE UNCHANGED <<xpc, failures>>

Finish(w) ==
  /\ xpc[w] = "running" /\ Enter(w, "no")
  /\ UNCHANGED <<vars, triageVars, failures>>
  /\ X!Finish("report")

Work(w) == HandleStep(w) \/ Begin(w) \/ Skip(w) \/ RunStep(w) \/ Finish(w)

-----------------------------------------------------------------------------
Ticks == Schedule /\ UNCHANGED <<triageVars, xpc, execVars, failures>>

\* A human settles the incident.
Mitigate ==
  /\ status = "open" /\ status' = "mitigated"
  /\ UNCHANGED <<vars, triageVars, xpc, done, attempts, applied, failures>>

\* The process dies: the triage is not taken up again, an execution under way
\* leaves its key without done_at.
Die ==
  /\ Restart
  /\ tpc' = IF tpc = "idle" THEN "idle" ELSE IF tpc = "answered" THEN tpc ELSE "failed"
  /\ xpc' = [w \in Workers |-> "no"]
  /\ attempts' = {}
  /\ failures' = IF attempts = {} THEN failures ELSE failures + 1
  /\ UNCHANGED <<status, done, applied>>

RNext ==
  \/ Triage
  \/ \E w \in Workers : Answer(w) \/ Work(w)
  \/ Ticks \/ Mitigate \/ Die

\* Threads inside a call finish it and the scheduler keeps ticking; users owe
\* no answer, and no alert has to arrive.
RSpec == RInit /\ [][RNext]_remedyVars
               /\ WF_remedyVars(PipelineEnds \/ RegisterStep)
               /\ \A w \in Workers : WF_remedyVars(Work(w))
               /\ WF_remedyVars(Ticks)

-----------------------------------------------------------------------------
\* Memory and table part only in known ways.  An open request that no tick can
\* reach failed to register or met a reject after it was escalated; a pending
\* row that no answer can reach is decided, or being decided, or the process died.
TableMatchesMemory ==
  \A r \in Requests :
    /\ r \in live /\ row[r] # "pending" =>
         \/ reg[r] \in {"submitted", "requested", "failed"}
         \/ row[r] = "rejected" /\ obj[r].state # "pending"
    /\ r \notin live /\ row[r] = "pending" =>
         \/ Decisions(r) > 0 \/ crashes > 0
         \/ \E w \in Workers : wreq[w] = r /\ wpc[w] = "decide"
         \/ cur = r /\ spc = "abandoned"

\* Every attempt of a step on production is paid for by an approval of its own, and
\* a second one by a failure besides: two registrations of one report, racing
\* presses and restarts never try a step more often than people said yes, nor again
\* unless an execution had failed or was cut short.  One attempt is one act, or two
\* where the dry-run is the command itself.
Times(i) == IF i \in Unpreviewed THEN 2 ELSE 1
EveryActIsPaidFor ==
  \A i \in 1..Steps :
    /\ applied["report"][i] <= Times(i) * Cardinality({r \in Requests : Granted(r)})
    /\ applied["report"][i] <= Times(i) * (1 + failures)
=============================================================================
