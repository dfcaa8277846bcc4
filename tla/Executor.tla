------------------------------ MODULE Executor ------------------------------
(***************************************************************************)
(* ExecutorRunner.execute for the reports of one incident (the locks, the  *)
(* timeline and the status are per incident, and an action key begins with *)
(* the incident id, so incidents share nothing).  Several threads may call *)
(* it; a call holds the incident's lock while it checks, runs the commands *)
(* one by one and records what happened.  Commands act on production: what *)
(* they changed survives the death of the process, as the store does.      *)
(***************************************************************************)
EXTENDS Naturals, Sequences, FiniteSets

CONSTANTS
  Threads,     \* threads that call execute
  Reports,     \* what they may pass to it
  Validated,   \* those that are a TriageReport with validated = True
  Risks,       \* per report, the risks of its suggested_actions in order
  Unpreviewed, \* per report, its mutating steps whose dry-run is the command itself:
               \* with the shell adapter all that are not a single kubectl command
  KeyOf,       \* per report, its action key
  NoThread,    \* nobody holds the lock
  AuditFails,  \* TRUE when writing the audit file may raise
  MaxCalls,    \* bound: calls of execute
  MaxCrashes   \* bound: deaths of the process

ASSUME ExecutorAssumption ==
  /\ Validated \subseteq Reports
  /\ NoThread \notin Threads
  /\ \A r \in Reports : Risks[r] \in Seq({"read-only", "mutating"})
  /\ \A r \in Reports :
       Unpreviewed[r] \subseteq {i \in 1..Len(Risks[r]) : Risks[r][i] = "mutating"}
  /\ MaxCalls \in Nat /\ MaxCrashes \in Nat /\ AuditFails \in BOOLEAN

VARIABLES
  status,    \* incidents.status
  granted,   \* the timeline has an approval_granted
  started,   \* the action keys in executed_actions
  done,      \* those whose done_at is set
  lock,      \* the holder of the incident's lock
  pc,        \* where each thread stands in execute
  rep,       \* the report it was called with
  step,      \* the position of its loop over the actions
  previews,  \* per report and step, dry-runs that returned
  applied,   \* per report and step, how often the command acted
  completed, \* per report and step, its step_completed events
  events,    \* how many other events of each kind the executor recorded
  calls, crashes

envVars  == <<status, granted>>
keyVars  == <<started, done>>
prodVars == <<previews, applied>>
logVars  == <<completed, events>>
vars == <<status, granted, started, done, lock, pc, rep, step, previews, applied,
          completed, events, calls, crashes>>

StepCount(r) == Len(Risks[r])
Zero == [r \in Reports |-> [i \in 1..StepCount(r) |-> 0]]
Kinds == {"execution_skipped", "execution_started", "step_failed", "execution_finished"}

Init ==
  /\ status = "open"
  /\ granted = FALSE
  /\ started = {} /\ done = {}
  /\ lock = NoThread
  /\ pc = [t \in Threads |-> "idle"]
  /\ rep \in [Threads -> Validated]          \* not read before it is set
  /\ step = [t \in Threads |-> 1]
  /\ previews = Zero /\ applied = Zero /\ completed = Zero
  /\ events = [k \in Kinds |-> 0]
  /\ calls = 0 /\ crashes = 0

Goto(t, label) == pc' = [pc EXCEPT ![t] = label]
\* The with-block ends, by a return or by an exception.
Release(t) == lock' = NoThread /\ Goto(t, "idle")
Record(kind) == events' = [events EXCEPT ![kind] = @ + 1]
Count(f, t) == [f EXCEPT ![rep[t]][step[t]] = @ + 1]

-----------------------------------------------------------------------------
\* Mutation: the type and the validated flag of the report are not checked.
CallAnything(t, r) ==
  /\ pc[t] = "idle" /\ calls < MaxCalls
  /\ calls' = calls + 1
  /\ rep' = [rep EXCEPT ![t] = r]
  /\ Goto(t, "lock")
  /\ UNCHANGED <<envVars, keyVars, prodVars, logVars, lock, step, crashes>>

\* execute: ExecutorRejected unless the report is a validated TriageReport.
Call(t, r) ==
  /\ pc[t] = "idle" /\ calls < MaxCalls
  /\ calls' = calls + 1
  /\ IF r \in Validated
     THEN rep' = [rep EXCEPT ![t] = r] /\ Goto(t, "lock")
     ELSE UNCHANGED <<rep, pc>>
  /\ UNCHANGED <<envVars, keyVars, prodVars, logVars, lock, step, crashes>>

\* Mutation: execute does not take the lock of the incident.
AcquireUnlocked(t) ==
  /\ pc[t] = "lock"
  /\ lock' = t
  /\ Goto(t, "executed?")
  /\ UNCHANGED <<envVars, keyVars, prodVars, logVars, rep, step, calls, crashes>>

Acquire(t) ==
  /\ pc[t] = "lock" /\ lock = NoThread
  /\ lock' = t
  /\ Goto(t, "executed?")
  /\ UNCHANGED <<envVars, keyVars, prodVars, logVars, rep, step, calls, crashes>>

\* The store asks for done_at, not for started_at.
has_executed_action(r) == KeyOf[r] \in done

CheckExecuted(t) ==
  /\ pc[t] = "executed?"
  /\ IF has_executed_action(rep[t])
     THEN Record("execution_skipped") /\ Release(t)
     ELSE Goto(t, "status?") /\ UNCHANGED <<events, lock>>
  /\ UNCHANGED <<envVars, keyVars, prodVars, completed, rep, step, calls, crashes>>

\* Nothing is run for an incident a human already marked.
CheckStatus(t) ==
  /\ pc[t] = "status?"
  /\ IF status \in {"mitigated", "resolved"}
     THEN Record("execution_skipped") /\ Release(t)
     ELSE Goto(t, "granted?") /\ UNCHANGED <<events, lock>>
  /\ UNCHANGED <<envVars, keyVars, prodVars, completed, rep, step, calls, crashes>>

IsMutating(r) == \E i \in 1..StepCount(r) : Risks[r][i] = "mutating"

\* A report that mutates needs an approval_granted of the incident, or it is
\* rejected.
CheckGranted(t) ==
  /\ pc[t] = "granted?"
  /\ IF IsMutating(rep[t]) /\ ~granted
     THEN Release(t) ELSE Goto(t, "start") /\ lock' = lock
  /\ UNCHANGED <<envVars, keyVars, prodVars, logVars, rep, step, calls, crashes>>

\* record_action_started.
RecordStarted(t) ==
  /\ pc[t] = "start"
  /\ started' = started \cup {KeyOf[rep[t]]}
  /\ Goto(t, "started")
  /\ UNCHANGED <<envVars, done, prodVars, logVars, lock, rep, step, calls, crashes>>

\* The event execution_started; the loop begins.
LogStarted(t) ==
  /\ pc[t] = "started"
  /\ Record("execution_started")
  /\ step' = [step EXCEPT ![t] = 1]
  /\ Goto(t, "step")
  /\ UNCHANGED <<envVars, keyVars, prodVars, completed, lock, rep, calls, crashes>>

-----------------------------------------------------------------------------
(* The loop over suggested_actions.                                        *)

HasStep(t) == step[t] <= StepCount(rep[t])
StepRisk(t) == Risks[rep[t]][step[t]]

\* A command that was started acts on production, or it does not: an exit code
\* other than 0 is part of its output like any other.
MayAct(t) == applied' \in {applied, Count(applied, t)}

\* A mutating step is previewed first.  The adapter adds --dry-run=server to a
\* kubectl command and runs any other as it is.  Only a preview that raises, on a
\* timeout or because it cannot be started or read, fails the step.
DryRun(t) ==
  /\ pc[t] = "step" /\ HasStep(t)
  /\ \/ StepRisk(t) = "read-only" /\ Goto(t, "run") /\ UNCHANGED prodVars
     \/ /\ StepRisk(t) = "mutating"
        /\ IF step[t] \in Unpreviewed[rep[t]] THEN MayAct(t) ELSE UNCHANGED applied
        /\ \/ Goto(t, "run") /\ previews' = Count(previews, t)
           \/ Goto(t, "failed") /\ UNCHANGED previews
  /\ UNCHANGED <<envVars, keyVars, logVars, lock, rep, step, calls, crashes>>

\* The command runs and returns, whatever its exit code, or it raises; after a
\* step timeout, too, it may have acted: the pool of _run_with_timeout waits for
\* the command to end before it raises.
Run(t) ==
  /\ pc[t] = "run"
  /\ MayAct(t)
  /\ Goto(t, "ran") \/ Goto(t, "failed")
  /\ UNCHANGED <<envVars, keyVars, previews, logVars, lock, rep, step, calls, crashes>>

\* The event step_completed; on to the next action.
LogCompleted(t) ==
  /\ pc[t] = "ran"
  /\ completed' = Count(completed, t)
  /\ step' = [step EXCEPT ![t] = @ + 1]
  /\ Goto(t, "step")
  /\ UNCHANGED <<envVars, keyVars, prodVars, events, lock, rep, calls, crashes>>

\* Mutation: a failed step does not stop the loop.
LogFailedContinue(t) ==
  /\ pc[t] = "failed"
  /\ Record("step_failed")
  /\ step' = [step EXCEPT ![t] = @ + 1]
  /\ Goto(t, "step")
  /\ UNCHANGED <<envVars, keyVars, prodVars, completed, lock, rep, calls, crashes>>

\* The event step_failed.  The action key stays without done_at.
LogFailed(t) ==
  /\ pc[t] = "failed"
  /\ Record("step_failed")
  /\ Goto(t, "archive failure")
  /\ UNCHANGED <<envVars, keyVars, prodVars, completed, lock, rep, step, calls, crashes>>

\* The audit file of a failed execution, and the return (or the exception).
ArchiveFailure(t) ==
  /\ pc[t] = "archive failure"
  /\ Release(t)
  /\ UNCHANGED <<envVars, keyVars, prodVars, logVars, rep, step, calls, crashes>>

\* Every action completed: mark_action_done.
MarkDone(t) ==
  /\ pc[t] = "step" /\ ~HasStep(t)
  /\ done' = done \cup {KeyOf[rep[t]]}
  /\ Goto(t, "archive")
  /\ UNCHANGED <<envVars, started, prodVars, logVars, lock, rep, step, calls, crashes>>

\* The audit file, none for a report without actions; when it cannot be written
\* the exception ends the call.
Archive(t) ==
  /\ pc[t] = "archive"
  /\ \/ Goto(t, "finish") /\ lock' = lock
     \/ AuditFails /\ StepCount(rep[t]) > 0 /\ Release(t)
  /\ UNCHANGED <<envVars, keyVars, prodVars, logVars, rep, step, calls, crashes>>

LogFinished(t) ==
  /\ pc[t] = "finish"
  /\ Record("execution_finished")
  /\ Release(t)
  /\ UNCHANGED <<envVars, keyVars, prodVars, completed, rep, step, calls, crashes>>

Execute(t) ==
  \/ Acquire(t) \/ CheckExecuted(t) \/ CheckStatus(t) \/ CheckGranted(t)
  \/ RecordStarted(t) \/ LogStarted(t) \/ DryRun(t) \/ Run(t) \/ LogCompleted(t)
  \/ LogFailed(t) \/ ArchiveFailure(t) \/ MarkDone(t) \/ Archive(t) \/ LogFinished(t)

-----------------------------------------------------------------------------
(* What others do to the incident meanwhile.                               *)

\* on_approve records the grant.
Grant ==
  /\ ~granted /\ granted' = TRUE
  /\ UNCHANGED <<status, keyVars, prodVars, logVars, lock, pc, rep, step, calls, crashes>>

\* A human moves the incident along TRANSITIONS: "open" is investigating as well,
\* "mitigated" resolved as well, and nothing leads back.
MoveStatus ==
  /\ status = "open" /\ status' = "mitigated"
  /\ UNCHANGED <<granted, keyVars, prodVars, logVars, lock, pc, rep, step, calls, crashes>>

\* The process dies: the locks and the threads are gone, the store stays.
Crash ==
  /\ crashes < MaxCrashes /\ crashes' = crashes + 1
  /\ lock' = NoThread
  /\ pc' = [t \in Threads |-> "idle"]
  /\ UNCHANGED <<envVars, keyVars, prodVars, logVars, rep, step, calls>>

Next ==
  \/ \E t \in Threads, r \in Reports : Call(t, r)
  \/ \E t \in Threads : Execute(t)
  \/ Grant \/ MoveStatus \/ Crash

Spec == Init /\ [][Next]_vars

-----------------------------------------------------------------------------
Labels == {"idle", "lock", "executed?", "status?", "granted?", "start", "started", "step",
           "run", "ran", "failed", "archive failure", "archive", "finish"}

Counts(f) == DOMAIN f = Reports /\ \A r \in Reports : f[r] \in [1..StepCount(r) -> Nat]

TypeOK ==
  /\ status \in {"open", "mitigated"}
  /\ granted \in BOOLEAN
  /\ started \subseteq {KeyOf[r] : r \in Reports} /\ done \subseteq started
  /\ lock \in Threads \cup {NoThread}
  /\ pc \in [Threads -> Labels]
  /\ rep \in [Threads -> Validated]
  /\ step \in [Threads -> Nat \ {0}]
  /\ Counts(previews) /\ Counts(applied) /\ Counts(completed)
  /\ events \in [Kinds -> Nat]
  /\ calls \in 0..MaxCalls /\ crashes \in 0..MaxCrashes

\* However the calls race and wherever the process dies, what reaches
\* production is one attempt after another as ExecutorContract has it: a thread
\* that waited for the lock does not repeat what is done, and nobody acts on
\* a stale answer to one of the checks.
UnderWay(t) == pc[t] \in {"granted?", "start", "started", "step", "run", "ran"}
NextStep(t) == IF pc[t] \in {"step", "run"} THEN step[t]
               ELSE IF pc[t] = "ran" THEN step[t] + 1 ELSE 1
Turn(t) == IF pc[t] = "run" THEN "act" ELSE "preview"
AttemptBy(t) == [report |-> rep[t], next |-> NextStep(t), turn |-> Turn(t)]

Attempts == {AttemptBy(t) : t \in {u \in Threads : UnderWay(u)}}

Contract == INSTANCE ExecutorContract WITH
  StepsOf  <- [r \in Reports |-> StepCount(r)],
  Mutating <- {r \in Reports : IsMutating(r)},
  attempts <- Attempts

MeetsContract == Contract!Spec

\* How often a step may act in one attempt: when its dry-run is the command
\* itself it acts there and once more when it is run.
Times(r, i) == IF i \in Unpreviewed[r] THEN 2 ELSE 1

\* A step that raises stops the execution: a command acts in no more attempts than
\* the one before it was recorded as completed, also when the report was tried
\* before.  (A command that returns is recorded as completed, whatever it says.)
FailureStops ==
  \A r \in Reports : \A i \in 2..StepCount(r) :
    applied[r][i] <= Times(r, i) * completed[r][i - 1]

\* Only a validated report acts on production, a mutating one only after a
\* grant, and a mutating command that can be previewed never more often than its
\* previews returned.
ActsAuthorised ==
  \A r \in Reports : \A i \in 1..StepCount(r) :
    applied[r][i] > 0 =>
      /\ r \in Validated
      /\ IsMutating(r) => granted
      /\ Risks[r][i] = "mutating" /\ i \notin Unpreviewed[r] => applied[r][i] <= previews[r][i]
=============================================================================
