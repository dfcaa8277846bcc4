---------------------------- MODULE ApprovalFlow ----------------------------
(***************************************************************************)
(* The human approval of a mutating remediation step: ApprovalGate with    *)
(* its in-memory dictionary _pending, ApprovalOrchestrator with the        *)
(* persistent table approval_requests, the gRPC worker threads that run    *)
(* handle_action and the scheduler thread that runs tick_timeouts.         *)
(*                                                                         *)
(* A step of the model is one access to shared state: one operation on     *)
(* _pending or on a PendingApproval object, one store call (the store      *)
(* serialises calls with its lock, not sequences of calls), or one call to *)
(* a collaborator.  Between two steps of a thread any other thread may     *)
(* run, and the process may die and restart with an empty _pending.        *)
(***************************************************************************)
EXTENDS Naturals, Sequences, FiniteSets

CONSTANTS
  Requests,       \* the request ids uuid4 will hand out, one per submit
  Workers,        \* gRPC worker threads that can run handle_action
  LastTarget,     \* the escalation chain is 0..LastTarget; 0 = FixedAdminEscalation
  TimeoutTicks,   \* timeout_seconds, in intervals of the scheduler
  NotifierFails,  \* TRUE when the notifier's notify may raise
  ButtonsFail,    \* TRUE when its deliver_buttons may raise
  HasRunner,      \* FALSE when the orchestrator was built with runner=None
  MaxCalls,       \* bound: callbacks delivered to handle_action
  MaxCrashes      \* bound: deaths of the process

ASSUME FlowAssumption ==
  /\ LastTarget \in Nat
  /\ TimeoutTicks \in Nat \ {0}
  /\ NotifierFails \in BOOLEAN /\ ButtonsFail \in BOOLEAN
  /\ HasRunner \in BOOLEAN
  /\ MaxCalls \in Nat
  /\ MaxCrashes \in Nat

VARIABLES
  live,      \* the keys of ApprovalGate._pending
  obj,       \* the PendingApproval objects; a thread may hold one that left _pending
  trail,     \* per request, how many timeline events of each kind name it
  row,       \* approval_requests.state, "none" before the INSERT
  created,   \* the requests in the order of approval_requests.created_at
  age,       \* ticks since created_at, capped at the timeout
  reg,       \* where register_from_report stands for each request
  wpc,       \* where each worker thread stands in handle_action
  wreq,      \* the request_id the worker was called with
  wkind,     \* the kind it was called with
  spc,       \* where the scheduler thread stands in tick_timeouts
  due,       \* the due rows the current tick still has to handle
  cur,       \* the row it is handling
  runs,      \* how often ExecutorRunner.execute was called for a request
  calls,     \* callbacks delivered so far
  crashes    \* deaths so far

gateVars   == <<live, obj, trail>>
rowVars    == <<row, created, age>>
workerVars == <<wpc, wreq, wkind, runs, calls>>
schedVars  == <<spc, due, cur>>
vars == <<live, obj, trail, row, created, age, reg, wpc, wreq, wkind,
          spc, due, cur, runs, calls, crashes>>

Kinds == {"approval_auto_approved", "approval_requested", "approval_granted",
          "approval_rejected", "override_indexed_to_rag",
          "approval_escalated", "approval_abandoned"}

ObjStates == {"pending", "approved", "escalated", "abandoned"}

NewObject == [state |-> "pending", timeouts |-> 0, target |-> 0]

Init ==
  /\ live = {}
  /\ obj = [r \in Requests |-> NewObject]
  /\ trail = [r \in Requests |-> [k \in Kinds |-> 0]]
  /\ row = [r \in Requests |-> "none"]
  /\ created = <<>>
  /\ age = [r \in Requests |-> 0]
  /\ reg = [r \in Requests |-> "idle"]
  /\ wpc = [w \in Workers |-> "idle"]
  /\ \E r \in Requests : cur = r /\ wreq = [w \in Workers |-> r]  \* not read before set
  /\ wkind = [w \in Workers |-> "approve"]
  /\ spc = "idle"
  /\ due = {}
  /\ runs = [r \in Requests |-> 0]
  /\ calls = 0
  /\ crashes = 0

Log(r, kind) == trail' = [trail EXCEPT ![r][kind] = @ + 1]

-----------------------------------------------------------------------------
(* Registration: ApprovalGate.submit and register_from_report.             *)

\* submit of a read-only step: the event is the whole effect.
SubmitReadOnly(r) ==
  /\ reg[r] = "idle"
  /\ reg' = [reg EXCEPT ![r] = "auto"]
  /\ Log(r, "approval_auto_approved")
  /\ UNCHANGED <<live, obj, rowVars, workerVars, schedVars, crashes>>

\* submit of a mutating step, up to the entry in _pending.
Submit(r) ==
  /\ reg[r] = "idle"
  /\ reg' = [reg EXCEPT ![r] = "submitted"]
  /\ live' = live \cup {r}
  /\ obj' = [obj EXCEPT ![r] = NewObject]
  /\ UNCHANGED <<trail, rowVars, workerVars, schedVars, crashes>>

\* submit, its second half: _notify, then the event approval_requested.
NotifyRequested(r) ==
  /\ reg[r] = "submitted"
  /\ reg' = [reg EXCEPT ![r] = "requested"]
  /\ Log(r, "approval_requested")
  /\ UNCHANGED <<live, obj, rowVars, workerVars, schedVars, crashes>>

\* record_pending_approval: the row exists only from here on.
RecordPending(r) ==
  /\ reg[r] = "requested"
  /\ reg' = [reg EXCEPT ![r] = "recorded"]
  /\ row' = [row EXCEPT ![r] = "pending"]
  /\ created' = Append(created, r)
  /\ UNCHANGED <<age, gateVars, workerVars, schedVars, crashes>>

\* deliver_buttons: only now can a user answer.
DeliverButtons(r) ==
  /\ reg[r] = "recorded"
  /\ reg' = [reg EXCEPT ![r] = "offered"]
  /\ UNCHANGED <<gateVars, rowVars, workerVars, schedVars, crashes>>

\* The notifier raises: register_from_report is left where it stands.
RegisterFails(r) ==
  /\ \/ reg[r] = "submitted" /\ NotifierFails
     \/ reg[r] = "recorded" /\ ButtonsFail
  /\ reg' = [reg EXCEPT ![r] = "failed"]
  /\ UNCHANGED <<gateVars, rowVars, workerVars, schedVars, crashes>>

Register(r) == \/ NotifyRequested(r) \/ RecordPending(r)
               \/ DeliverButtons(r) \/ RegisterFails(r)

-----------------------------------------------------------------------------
(* handle_action in a worker thread.                                       *)

\* Mutation: handle_action goes on to the executor whatever on_approve answered.
CallbackUnchecked(w, r, kind) ==
  /\ wpc[w] = "idle"
  /\ reg[r] = "offered"
  /\ calls < MaxCalls
  /\ calls' = calls + 1
  /\ wreq' = [wreq EXCEPT ![w] = r]
  /\ wkind' = [wkind EXCEPT ![w] = kind]
  /\ LET found == r \in live /\ obj[r].state = "pending"
     IN wpc' = [wpc EXCEPT ![w] = IF found THEN "take"
                                  ELSE IF kind = "reject" THEN "close" ELSE "report"]
  /\ UNCHANGED <<gateVars, rowVars, reg, schedVars, runs, crashes>>

\* Mutation: handle_action closes the row whatever on_reject will answer.
CallbackClosing(w, r, kind) ==
  /\ wpc[w] = "idle"
  /\ reg[r] = "offered"
  /\ calls < MaxCalls
  /\ calls' = calls + 1
  /\ wreq' = [wreq EXCEPT ![w] = r]
  /\ wkind' = [wkind EXCEPT ![w] = kind]
  /\ LET found == r \in live /\ obj[r].state = "pending"
     IN wpc' = [wpc EXCEPT ![w] = IF kind = "reject" THEN "close"
                                  ELSE IF found THEN "take" ELSE "idle"]
  /\ UNCHANGED <<gateVars, rowVars, reg, schedVars, runs, crashes>>

\* A callback arrives for a request whose buttons were delivered; _take looks
\* the request up and checks that its state is PENDING.
Callback(w, r, kind) ==
  /\ wpc[w] = "idle"
  /\ reg[r] = "offered"
  /\ calls < MaxCalls
  /\ calls' = calls + 1
  /\ wreq' = [wreq EXCEPT ![w] = r]
  /\ wkind' = [wkind EXCEPT ![w] = kind]
  /\ LET found == r \in live /\ obj[r].state = "pending"
     IN wpc' = [wpc EXCEPT ![w] = IF found THEN "take"
                                  ELSE IF kind = "reject" THEN "close" ELSE "idle"]
  /\ UNCHANGED <<gateVars, rowVars, reg, schedVars, runs, crashes>>

\* Mutation: _take ends with self._pending.pop(request_id, None).
TakePop(w) ==
  /\ wpc[w] = "take"
  /\ live' = live \ {wreq[w]}
  /\ wpc' = [wpc EXCEPT ![w] = "decide"]
  /\ UNCHANGED <<obj, trail, rowVars, reg, wreq, wkind, runs, calls, schedVars, crashes>>

\* del self._pending[request_id] of _take: a KeyError when it is gone.
Take(w) ==
  /\ wpc[w] = "take"
  /\ \/ /\ wreq[w] \in live
        /\ live' = live \ {wreq[w]}
        /\ obj' = IF wkind[w] = "approve"
                  THEN [obj EXCEPT ![wreq[w]].state = "approved"] ELSE obj
        /\ wpc' = [wpc EXCEPT ![w] = "decide"]
     \/ /\ wreq[w] \notin live
        /\ wpc' = [wpc EXCEPT ![w] = "idle"]
        /\ UNCHANGED <<live, obj>>
  /\ UNCHANGED <<trail, rowVars, reg, wreq, wkind, runs, calls, schedVars, crashes>>

\* on_approve / on_reject record the decision in the timeline.
Decide(w) ==
  /\ wpc[w] = "decide"
  /\ \/ /\ wkind[w] = "approve"
        /\ Log(wreq[w], "approval_granted")
        /\ wpc' = [wpc EXCEPT ![w] = "report"]
     \/ /\ wkind[w] = "reject"
        /\ Log(wreq[w], "approval_rejected")
        /\ wpc' = [wpc EXCEPT ![w] = "index"]
  /\ UNCHANGED <<live, obj, rowVars, reg, wreq, wkind, runs, calls, schedVars, crashes>>

\* on_reject hands the reason to the knowledge index and records that it did.
IndexOverride(w) ==
  /\ wpc[w] = "index"
  /\ Log(wreq[w], "override_indexed_to_rag")
  /\ wpc' = [wpc EXCEPT ![w] = "close"]
  /\ UNCHANGED <<live, obj, rowVars, reg, wreq, wkind, runs, calls, schedVars, crashes>>

\* handle_action closes the row of a reject: on_reject answers REJECTED both
\* for a request it rejected and for one it did not find.
MarkRejected(w) ==
  /\ wpc[w] = "close"
  /\ row' = [row EXCEPT ![wreq[w]] = "rejected"]
  /\ wpc' = [wpc EXCEPT ![w] = "idle"]
  /\ UNCHANGED <<gateVars, created, age, reg, wreq, wkind, runs, calls, schedVars, crashes>>

\* _execute_approved: get_pending_report answers only while the row is pending.
GetReport(w) ==
  /\ wpc[w] = "report"
  /\ wpc' = [wpc EXCEPT ![w] = IF row[wreq[w]] = "pending" THEN "execute" ELSE "idle"]
  /\ UNCHANGED <<gateVars, rowVars, reg, wreq, wkind, runs, calls, schedVars, crashes>>

\* _execute_approved: the runner is called; the row stays as it is.  Without
\* a runner the row is closed and nothing runs.
ExecuteApproved(w) ==
  /\ wpc[w] = "execute"
  /\ wpc' = [wpc EXCEPT ![w] = "idle"]
  /\ IF HasRunner
     THEN runs' = [runs EXCEPT ![wreq[w]] = @ + 1] /\ row' = row
     ELSE row' = [row EXCEPT ![wreq[w]] = "approved_no_executor"] /\ runs' = runs
  /\ UNCHANGED <<gateVars, created, age, reg, wreq, wkind, calls, schedVars, crashes>>

Handle(w) == \/ Take(w) \/ Decide(w) \/ IndexOverride(w) \/ MarkRejected(w)
             \/ GetReport(w) \/ ExecuteApproved(w)

-----------------------------------------------------------------------------
(* tick_timeouts in the scheduler thread.                                  *)

\* The interval has passed: every row is one tick older, and the tick works
\* on the rows that are pending and old enough at this moment.
Tick ==
  /\ spc = "idle"
  /\ age' = [r \in Requests |->
               IF row[r] # "none" /\ age[r] < TimeoutTicks THEN age[r] + 1 ELSE age[r]]
  /\ due' = {r \in Requests : row[r] = "pending" /\ age'[r] >= TimeoutTicks}
  /\ spc' = IF due' = {} THEN "idle" ELSE "lookup"
  /\ UNCHANGED <<gateVars, row, created, cur, reg, workerVars, crashes>>

\* The loop goes on with the row after r, or the tick is over.
NextRow(r) ==
  /\ due' = due \ {r}
  /\ spc' = IF due \subseteq {r} THEN "idle" ELSE "lookup"

\* An exception inside tick_timeouts: the scheduler logs it and drops the tick.
DropTick == due' = {} /\ spc' = "idle"

\* list_pending_approvals returns the rows ORDER BY created_at.
NotNewer(r, q) ==
  \E i, j \in DOMAIN created : i <= j /\ created[i] = r /\ created[j] = q

\* Mutation: on_timeout only accepts a request in state PENDING.
LookupPendingOnly(r) ==
  /\ spc = "lookup"
  /\ r \in due /\ \A q \in due : NotNewer(r, q)
  /\ IF r \in live /\ obj[r].state = "pending"
     THEN spc' = "expire" /\ due' = due
     ELSE NextRow(r)
  /\ cur' = r
  /\ UNCHANGED <<gateVars, rowVars, reg, workerVars, crashes>>

\* The next row of the loop; on_timeout passes over a request that is not in
\* _pending.
Lookup(r) ==
  /\ spc = "lookup"
  /\ r \in due /\ \A q \in due : NotNewer(r, q)
  /\ IF r \in live /\ obj[r].state \in {"pending", "escalated"}
     THEN spc' = "expire" /\ due' = due
     ELSE NextRow(r)
  /\ cur' = r
  /\ UNCHANGED <<gateVars, rowVars, reg, workerVars, crashes>>

\* Mutation: on_timeout escalates only while the chain has a next target.
ExpireNoReminder ==
  LET hasNext == obj[cur].target < LastTarget
  IN /\ spc = "expire"
     /\ obj' = [obj EXCEPT ![cur] =
          [state |-> IF hasNext THEN "escalated" ELSE "abandoned",
           timeouts |-> @.timeouts + 1,
           target |-> IF hasNext THEN @.target + 1 ELSE @.target]]
     /\ spc' = IF hasNext THEN "escalated" ELSE "abandon"
     /\ UNCHANGED <<live, trail, rowVars, reg, workerVars, due, cur, crashes>>

\* on_timeout on the object it holds: the first timeout, or one with somebody
\* left in the chain, escalates; otherwise the request is to be abandoned.
\* The reminder may raise, after the object has changed.
Expire ==
  LET o == obj[cur]
      hasNext == o.target < LastTarget
  IN /\ spc = "expire"
     /\ \/ /\ o.timeouts = 0 \/ hasNext
           /\ obj' = [obj EXCEPT ![cur] =
                [state |-> "escalated", timeouts |-> o.timeouts + 1,
                 target |-> IF hasNext THEN o.target + 1 ELSE o.target]]
           /\ \/ spc' = "escalated" /\ due' = due
              \/ NotifierFails /\ DropTick
        \/ /\ o.timeouts # 0 /\ ~hasNext
           /\ obj' = [obj EXCEPT ![cur] =
                [state |-> "abandoned", timeouts |-> o.timeouts + 1, target |-> o.target]]
           /\ spc' = "abandon" /\ due' = due
     /\ UNCHANGED <<live, trail, rowVars, reg, workerVars, cur, crashes>>

\* The event approval_escalated.
LogEscalated ==
  /\ spc = "escalated"
  /\ Log(cur, "approval_escalated")
  /\ NextRow(cur)
  /\ UNCHANGED <<live, obj, rowVars, reg, workerVars, cur, crashes>>

\* del self._pending[request_id] of on_timeout: a KeyError drops the tick.
Abandon ==
  /\ spc = "abandon"
  /\ \/ /\ cur \in live
        /\ live' = live \ {cur}
        /\ spc' = "abandoned" /\ due' = due
     \/ /\ cur \notin live
        /\ DropTick /\ live' = live
  /\ UNCHANGED <<obj, trail, rowVars, cur, reg, workerVars, crashes>>

\* The event approval_abandoned.
LogAbandoned ==
  /\ spc = "abandoned"
  /\ Log(cur, "approval_abandoned")
  /\ spc' = "closerow"
  /\ UNCHANGED <<live, obj, rowVars, due, cur, reg, workerVars, crashes>>

\* tick_timeouts closes the row of an abandoned request.
MarkAbandoned ==
  /\ spc = "closerow"
  /\ row' = [row EXCEPT ![cur] = "abandoned"]
  /\ NextRow(cur)
  /\ UNCHANGED <<gateVars, created, age, cur, reg, workerVars, crashes>>

Schedule == \/ Tick \/ \E r \in Requests : Lookup(r)
            \/ Expire \/ LogEscalated \/ Abandon \/ LogAbandoned \/ MarkAbandoned

-----------------------------------------------------------------------------
\* The process dies and starts again: the database stays, _pending and every
\* thread are gone.  A request that was being registered is never finished;
\* delivered buttons stay in the chat.
Restart ==
  /\ crashes < MaxCrashes
  /\ crashes' = crashes + 1
  /\ live' = {}
  /\ reg' = [r \in Requests |-> IF reg[r] \in {"submitted", "requested", "recorded"}
                                THEN "failed" ELSE reg[r]]
  /\ wpc' = [w \in Workers |-> "idle"]
  /\ DropTick
  /\ UNCHANGED <<obj, trail, rowVars, wreq, wkind, runs, calls, cur>>

Next ==
  \/ \E r \in Requests : SubmitReadOnly(r) \/ Submit(r) \/ Register(r)
  \/ \E w \in Workers, r \in Requests, kind \in {"approve", "reject"} : Callback(w, r, kind)
  \/ \E w \in Workers : Handle(w)
  \/ Schedule
  \/ Restart

Spec == Init /\ [][Next]_vars

-----------------------------------------------------------------------------
GateType ==
  /\ live \subseteq Requests
  /\ obj \in [Requests -> [state : ObjStates, timeouts : Nat, target : 0..LastTarget]]
  /\ trail \in [Requests -> [Kinds -> Nat]]

RowType ==
  /\ row \in [Requests -> {"none", "pending", "rejected", "abandoned", "approved_no_executor"}]
  /\ created \in Seq(Requests)
  /\ age \in [Requests -> 0..TimeoutTicks]
  /\ reg \in [Requests -> {"idle", "auto", "submitted", "requested", "recorded",
                           "offered", "failed"}]

WorkerType ==
  /\ wpc \in [Workers -> {"idle", "take", "decide", "index", "close", "report", "execute"}]
  /\ wreq \in [Workers -> Requests]
  /\ wkind \in [Workers -> {"approve", "reject"}]
  /\ runs \in [Requests -> Nat]
  /\ calls \in 0..MaxCalls

SchedType ==
  /\ spc \in {"idle", "lookup", "expire", "escalated", "abandon", "abandoned", "closerow"}
  /\ due \subseteq Requests
  /\ cur \in Requests
  /\ spc = "lookup" => due # {}
  /\ crashes \in 0..MaxCrashes

TypeOK == GateType /\ RowType /\ WorkerType /\ SchedType

Decisions(r) == trail[r]["approval_granted"] + trail[r]["approval_rejected"]
                  + trail[r]["approval_abandoned"]
Occurs(r, kind) == trail[r][kind] > 0

\* However approve, reject and timeout race, and wherever the process dies,
\* the timeline of a request records at most one decision about it.
DecidedOnce == \A r \in Requests : Decisions(r) <= 1

\* The executor is called at most once for a request, never for one that the
\* timeline shows as rejected or abandoned, and only once it shows the grant.
ExecutedWasGranted ==
  \A r \in Requests : runs[r] > 0 =>
    /\ runs[r] = 1
    /\ Occurs(r, "approval_granted")
    /\ ~Occurs(r, "approval_rejected") /\ ~Occurs(r, "approval_abandoned")

\* One reminder per further target, and one even when the chain has nobody else.
Reminders == IF LastTarget = 0 THEN 1 ELSE LastTarget

\* A request is abandoned only after everybody in the chain was reminded; it
\* holds while the notifier works (run with NotifierFails = FALSE).
WholeChainReminded ==
  \A r \in Requests :
    Occurs(r, "approval_abandoned") => trail[r]["approval_escalated"] >= Reminders

\* A request nobody answers does not stay open: the scheduler, tick by tick,
\* brings it to a decision in the timeline, or a callback closed its row - as
\* long as the process that knows the request lives.
UnansweredIsClosed ==
  \A r \in Requests : (r \in live /\ row[r] = "pending")
                       ~> (Decisions(r) > 0 \/ row[r] # "pending" \/ crashes > 0)

\* The contract of an approval, met by this interleaving of threads: the
\* decision is the one the timeline shows.
Decision(r) == IF Occurs(r, "approval_granted") THEN "granted"
               ELSE IF Occurs(r, "approval_rejected") THEN "rejected"
               ELSE IF Occurs(r, "approval_abandoned") THEN "abandoned"
               ELSE "open"

Contract == INSTANCE ApprovalContract WITH
  MinReminders <- Reminders,
  decision     <- [r \in Requests |-> Decision(r)],
  reminders    <- [r \in Requests |-> trail[r]["approval_escalated"]],
  ran          <- runs

\* Every step of the threads is a step of the contract or none of it.
MeetsContract == Contract!Spec
=============================================================================
