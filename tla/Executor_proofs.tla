-------------------------- MODULE Executor_proofs --------------------------
(***************************************************************************)
(* Proofs about Executor, for every set of threads and reports, every      *)
(* sequence of risks, every action key and every bound on calls and        *)
(* crashes: the lock makes an execution one sequential attempt.            *)
(***************************************************************************)
EXTENDS Executor, TLAPS

-----------------------------------------------------------------------------
(* The inductive invariant.                                                *)

\* The labels between the acquisition and the release of the lock.
Inside == Labels \ {"idle", "lock"}

\* Who is inside holds the lock: nobody else is there.
HolderOnly == \A t \in Threads : pc[t] \in Inside => lock = t

\* The key of an execution under way has been recorded as started.
KeyStarted ==
  \A t \in Threads : pc[t] \in {"started", "step", "run", "ran"} => KeyOf[rep[t]] \in started

\* A loop stays within the actions of its report.
LoopRange ==
  \A t \in Threads :
    /\ pc[t] = "step" => step[t] \in 1..StepCount(rep[t]) + 1
    /\ pc[t] \in {"run", "ran"} => step[t] \in 1..StepCount(rep[t])

\* The answers to the checks are still true when they are acted on.
ChecksHold ==
  \A t \in Threads :
    /\ pc[t] \in {"status?", "granted?", "start", "started", "step", "run", "ran"} =>
         KeyOf[rep[t]] \notin done
    /\ pc[t] \in {"start", "started", "step", "run", "ran"} /\ IsMutating(rep[t]) => granted

\* Before a mutating command that can be previewed runs, there is a successful
\* preview it has not used up yet.
PreviewAhead ==
  \A t \in Threads :
    pc[t] = "run" /\ StepRisk(t) = "mutating" /\ step[t] \notin Unpreviewed[rep[t]] =>
      applied[rep[t]][step[t]] < previews[rep[t]][step[t]]

\* Before a command after the first is previewed, a completion of the one before
\* it is left for all it may do, and before it runs, for one act.
CompletionAhead ==
  \A t \in Threads : step[t] \in 2..StepCount(rep[t]) =>
    LET r == rep[t]
        i == step[t]
        allowed == Times(r, i) * completed[r][i - 1]
    IN  /\ pc[t] = "step" => applied[r][i] + Times(r, i) <= allowed
        /\ pc[t] = "run" => applied[r][i] + 1 <= allowed

LockInv == TypeOK /\ HolderOnly /\ KeyStarted /\ LoopRange /\ ChecksHold
CountsInv == PreviewAhead /\ CompletionAhead /\ FailureStops /\ ActsAuthorised
ExecInv == LockInv /\ CountsInv

-----------------------------------------------------------------------------
(* Lemmas about the operators of the model.                                *)

\* A report has a natural number of actions.
LEMMA StepCountType == \A r \in Validated : r \in Reports /\ StepCount(r) \in Nat
BY ExecutorAssumption DEF StepCount

\* A step acts once or, when its dry-run acts, twice in an attempt.
LEMMA TimesOf ==
  ASSUME NEW r, NEW i, NEW n \in Nat
  PROVE  \/ i \notin Unpreviewed[r] /\ Times(r, i) = 1 /\ Times(r, i) * n = n
         \/ i \in Unpreviewed[r] /\ Times(r, i) = 2 /\ Times(r, i) * n = n + n
<1>1. CASE i \in Unpreviewed[r]
  <2>1. Times(r, i) = 2 /\ 2 * n = n + n
    BY <1>1 DEF Times
  <2> QED
    BY <1>1, <2>1
<1>2. CASE i \notin Unpreviewed[r]
  <2>1. Times(r, i) = 1 /\ 1 * n = n
    BY <1>2 DEF Times
  <2> QED
    BY <1>2, <2>1
<1> QED
  BY <1>1, <1>2

\* Counting one occurrence at a thread's step raises that count alone.
LEMMA CountOne ==
  ASSUME NEW f, Counts(f), NEW t \in Threads, rep[t] \in Reports,
         step[t] \in 1..StepCount(rep[t])
  PROVE  /\ Counts(Count(f, t))
         /\ \A r \in Reports : \A i \in 1..StepCount(r) :
              Count(f, t)[r][i] = IF r = rep[t] /\ i = step[t] THEN f[r][i] + 1 ELSE f[r][i]
<1> DEFINE q == rep[t]
           n == step[t]
           D == 1..StepCount(q)
           h == f[q]
           g == [h EXCEPT ![n] = h[n] + 1]
<1>1. h \in [D -> Nat] /\ n \in D
  BY DEF Counts
<1>2. Count(f, t) = [f EXCEPT ![q] = g]
  BY DEF Count
<1> HIDE DEF D, h, n
<1>3. g \in [D -> Nat] /\ \A i \in D : g[i] = IF i = n THEN h[i] + 1 ELSE h[i]
  BY <1>1
<1> HIDE DEF g
<1>4. DOMAIN Count(f, t) = Reports
  BY <1>2 DEF Counts
<1>5. \A r \in Reports : Count(f, t)[r] = IF r = q THEN g ELSE f[r]
  BY <1>2 DEF Counts
<1> QED
  BY <1>3, <1>4, <1>5 DEF Counts, D, h, n

\* Recording an event keeps the counts of events natural numbers.
LEMMA RecordType ==
  ASSUME events \in [Kinds -> Nat], NEW kind \in Kinds, Record(kind)
  PROVE  events' \in [Kinds -> Nat]
<1>1. events[kind] + 1 \in Nat
  OBVIOUS
<1> QED
  BY <1>1 DEF Record

\* While a thread is inside, the others are idle or wait for the lock.
LEMMA Alone ==
  ASSUME TypeOK, HolderOnly, NEW t \in Threads, pc[t] \in Inside,
         NEW u \in Threads, u # t
  PROVE  pc[u] \notin Inside
BY DEF HolderOnly

-----------------------------------------------------------------------------
(* Types.                                                                  *)

\* Every step of an execution keeps the variables in their types; a command
\* that acts does so within the actions of its report.
LEMMA TypeExecute ==
  ASSUME LockInv, NEW t \in Threads, Execute(t)
  PROVE  TypeOK'
<1>0. rep[t] \in Validated /\ rep[t] \in Reports /\ StepCount(rep[t]) \in Nat
  BY StepCountType DEF LockInv, TypeOK
<1> USE DEF envVars, keyVars, prodVars, logVars, Goto, Release, Labels
<1>k. {"execution_skipped", "execution_started", "step_failed", "execution_finished"} \subseteq Kinds
  BY DEF Kinds
<1>1. ASSUME Acquire(t) PROVE TypeOK'
  BY <1>0, <1>1 DEF LockInv, TypeOK, KeyStarted, Acquire
<1>2. ASSUME CheckExecuted(t) PROVE TypeOK'
  BY <1>0, <1>2, RecordType, <1>k DEF LockInv, TypeOK, CheckExecuted
<1>3. ASSUME CheckStatus(t) PROVE TypeOK'
  BY <1>0, <1>3, RecordType, <1>k DEF LockInv, TypeOK, CheckStatus
<1>4. ASSUME CheckGranted(t) PROVE TypeOK'
  BY <1>0, <1>4 DEF LockInv, TypeOK, KeyStarted, CheckGranted
<1>5. ASSUME RecordStarted(t) PROVE TypeOK'
  BY <1>0, <1>5 DEF LockInv, TypeOK, KeyStarted, RecordStarted
<1>6. ASSUME LogStarted(t) PROVE TypeOK'
  <2>1. events' \in [Kinds -> Nat]
    BY <1>6, <1>k, RecordType DEF LockInv, TypeOK, LogStarted
  <2>2. step \in [Threads -> Nat \ {0}] /\ step' = [step EXCEPT ![t] = 1]
    BY <1>6 DEF LockInv, TypeOK, LogStarted
  <2>3. step' \in [Threads -> Nat \ {0}]
    BY <2>2
  <2> QED
    BY <1>6, <2>1, <2>3 DEF LockInv, TypeOK, LogStarted
<1>7. ASSUME DryRun(t) PROVE TypeOK'
  <2>1. step[t] \in 1..StepCount(rep[t])
    <3>1. pc[t] = "step" /\ step[t] <= StepCount(rep[t])
      BY <1>7 DEF DryRun, HasStep
    <3> QED
      BY <1>0, <3>1 DEF LockInv, LoopRange
  <2>2. Counts(previews) /\ Counts(Count(previews, t))
    BY <1>0, <2>1, CountOne DEF LockInv, TypeOK
  <2>a. Counts(applied) /\ Counts(Count(applied, t))
    BY <1>0, <2>1, CountOne DEF LockInv, TypeOK
  <2>3. Counts(previews') /\ Counts(applied')
    BY <1>7, <2>2, <2>a DEF DryRun, MayAct
  <2> QED
    BY <1>7, <2>3 DEF LockInv, TypeOK, DryRun
<1>8. ASSUME Run(t) PROVE TypeOK'
  <2>1. step[t] \in 1..StepCount(rep[t])
    BY <1>0, <1>8 DEF LockInv, LoopRange, Run
  <2>2. Counts(applied) /\ Counts(Count(applied, t))
    BY <1>0, <2>1, CountOne DEF LockInv, TypeOK
  <2>3. Counts(applied')
    BY <1>8, <2>2 DEF Run, MayAct
  <2> QED
    BY <1>8, <2>3 DEF LockInv, TypeOK, Run
<1>9. ASSUME LogCompleted(t) PROVE TypeOK'
  <2>1. step[t] \in 1..StepCount(rep[t])
    BY <1>0, <1>9 DEF LockInv, LoopRange, LogCompleted
  <2>2. Counts(completed')
    BY <1>0, <1>9, <2>1, CountOne DEF LockInv, TypeOK, LogCompleted
  <2>3. step \in [Threads -> Nat \ {0}] /\ step' = [step EXCEPT ![t] = step[t] + 1]
    BY <1>9 DEF LockInv, TypeOK, LogCompleted
  <2>4. step[t] + 1 \in Nat \ {0}
    BY <2>3
  <2>5. step' \in [Threads -> Nat \ {0}]
    BY <2>3, <2>4
  <2> QED
    BY <1>9, <2>2, <2>5 DEF LockInv, TypeOK, LogCompleted
<1>10. ASSUME LogFailed(t) PROVE TypeOK'
  BY <1>0, <1>10, RecordType, <1>k DEF LockInv, TypeOK, LogFailed
<1>11. ASSUME ArchiveFailure(t) PROVE TypeOK'
  BY <1>0, <1>11 DEF LockInv, TypeOK, KeyStarted, ArchiveFailure
<1>12. ASSUME MarkDone(t) PROVE TypeOK'
  BY <1>0, <1>12 DEF LockInv, TypeOK, KeyStarted, MarkDone
<1>13. ASSUME Archive(t) PROVE TypeOK'
  BY <1>0, <1>13 DEF LockInv, TypeOK, KeyStarted, Archive
<1>14. ASSUME LogFinished(t) PROVE TypeOK'
  BY <1>0, <1>14, RecordType, <1>k DEF LockInv, TypeOK, LogFinished
<1> QED
  BY <1>1, <1>2, <1>3, <1>4, <1>5, <1>6, <1>7, <1>8, <1>9, <1>10, <1>11, <1>12, <1>13, <1>14 DEF Execute

\* So do the calls, the grant, the humans and a crash.
LEMMA TypeStep == LockInv /\ [Next]_vars => TypeOK'
<1> SUFFICES ASSUME LockInv, [Next]_vars PROVE TypeOK'
  OBVIOUS
<1> USE DEF envVars, keyVars, prodVars, logVars
<1>1. ASSUME NEW t \in Threads, NEW r \in Reports, Call(t, r) PROVE TypeOK'
  <2>1. calls' \in 0..MaxCalls
    BY <1>1, ExecutorAssumption DEF LockInv, TypeOK, Call
  <2>2. rep' \in [Threads -> Validated] /\ pc' \in [Threads -> Labels]
    BY <1>1 DEF LockInv, TypeOK, Call, Goto, Labels
  <2> QED
    BY <1>1, <2>1, <2>2 DEF LockInv, TypeOK, Call
<1>2. ASSUME NEW t \in Threads, Execute(t) PROVE TypeOK'
  BY <1>2, TypeExecute
<1>3. ASSUME Grant PROVE TypeOK'
  BY <1>3 DEF LockInv, TypeOK, Grant
<1>4. ASSUME MoveStatus PROVE TypeOK'
  BY <1>4 DEF LockInv, TypeOK, MoveStatus
<1>5. ASSUME Crash PROVE TypeOK'
  <2>1. crashes' \in 0..MaxCrashes
    BY <1>5, ExecutorAssumption DEF LockInv, TypeOK, Crash
  <2>2. pc' \in [Threads -> Labels] /\ lock' \in Threads \cup {NoThread}
    BY <1>5 DEF Crash, Labels
  <2> QED
    BY <1>5, <2>1, <2>2 DEF LockInv, TypeOK, Crash
<1>6. ASSUME UNCHANGED vars PROVE TypeOK'
  BY <1>6 DEF LockInv, TypeOK, vars
<1> QED
  BY <1>1, <1>2, <1>3, <1>4, <1>5, <1>6 DEF Next

-----------------------------------------------------------------------------
(* The lock.                                                               *)

\* A step of an execution is taken inside the lock, or takes it: the other
\* threads are outside and stay where they are.
LEMMA MovesAlone ==
  ASSUME LockInv, NEW t \in Threads, Execute(t)
  PROVE  /\ \A u \in Threads : u # t => pc[u] \notin Inside
         /\ \A u \in Threads : u # t => pc'[u] = pc[u]
         /\ lock' = IF pc'[t] \in Inside THEN t ELSE NoThread
         /\ rep' = rep
<1> USE DEF Goto, Release
<1>1. \A u \in Threads : u # t => pc'[u] = pc[u]
  BY DEF LockInv, TypeOK, Execute, Acquire, CheckExecuted, CheckStatus, CheckGranted, RecordStarted, LogStarted, DryRun, Run, LogCompleted, LogFailed, ArchiveFailure, MarkDone, Archive, LogFinished
<1>2. rep' = rep
  BY DEF Execute, Acquire, CheckExecuted, CheckStatus, CheckGranted, RecordStarted, LogStarted, DryRun, Run, LogCompleted, LogFailed, ArchiveFailure, MarkDone, Archive, LogFinished
<1>3. /\ pc[t] \in Inside \/ (pc[t] = "lock" /\ lock = NoThread)
      /\ lock' = IF pc'[t] \in Inside THEN t ELSE NoThread
  <2>1. CASE Acquire(t)
    BY <2>1 DEF LockInv, TypeOK, HolderOnly, Inside, Labels, Acquire
  <2>2. CASE CheckExecuted(t)
    BY <2>2 DEF LockInv, TypeOK, HolderOnly, Inside, Labels, CheckExecuted
  <2>3. CASE CheckStatus(t)
    BY <2>3 DEF LockInv, TypeOK, HolderOnly, Inside, Labels, CheckStatus
  <2>4. CASE CheckGranted(t)
    BY <2>4 DEF LockInv, TypeOK, HolderOnly, Inside, Labels, CheckGranted
  <2>5. CASE RecordStarted(t)
    BY <2>5 DEF LockInv, TypeOK, HolderOnly, Inside, Labels, RecordStarted
  <2>6. CASE LogStarted(t)
    BY <2>6 DEF LockInv, TypeOK, HolderOnly, Inside, Labels, LogStarted
  <2>7. CASE DryRun(t)
    BY <2>7 DEF LockInv, TypeOK, HolderOnly, Inside, Labels, DryRun
  <2>8. CASE Run(t)
    BY <2>8 DEF LockInv, TypeOK, HolderOnly, Inside, Labels, Run
  <2>9. CASE LogCompleted(t)
    BY <2>9 DEF LockInv, TypeOK, HolderOnly, Inside, Labels, LogCompleted
  <2>10. CASE LogFailed(t)
    BY <2>10 DEF LockInv, TypeOK, HolderOnly, Inside, Labels, LogFailed
  <2>11. CASE ArchiveFailure(t)
    BY <2>11 DEF LockInv, TypeOK, HolderOnly, Inside, Labels, ArchiveFailure
  <2>12. CASE MarkDone(t)
    BY <2>12 DEF LockInv, TypeOK, HolderOnly, Inside, Labels, MarkDone
  <2>13. CASE Archive(t)
    BY <2>13 DEF LockInv, TypeOK, HolderOnly, Inside, Labels, Archive
  <2>14. CASE LogFinished(t)
    BY <2>14 DEF LockInv, TypeOK, HolderOnly, Inside, Labels, LogFinished
  <2> QED
    BY <2>1, <2>2, <2>3, <2>4, <2>5, <2>6, <2>7, <2>8, <2>9, <2>10, <2>11, <2>12, <2>13, <2>14 DEF Execute
<1>4. \A u \in Threads : u # t => pc[u] \notin Inside
  BY <1>3, ExecutorAssumption DEF LockInv, HolderOnly
<1> QED
  BY <1>1, <1>2, <1>3, <1>4

\* What the thread that moves must know of itself afterwards.
KnowsKey(t) == pc[t] \in {"started", "step", "run", "ran"} => KeyOf[rep[t]] \in started
KnowsRange(t) ==
  /\ pc[t] = "step" => step[t] \in 1..StepCount(rep[t]) + 1
  /\ pc[t] \in {"run", "ran"} => step[t] \in 1..StepCount(rep[t])
KnowsChecks(t) ==
  /\ pc[t] \in {"status?", "granted?", "start", "started", "step", "run", "ran"} =>
       KeyOf[rep[t]] \notin done
  /\ pc[t] \in {"start", "started", "step", "run", "ran"} /\ IsMutating(rep[t]) => granted

LEMMA LockExecute ==
  ASSUME LockInv, NEW t \in Threads, Execute(t)
  PROVE  HolderOnly' /\ KeyStarted' /\ LoopRange' /\ ChecksHold'
<1>0. rep[t] \in Validated /\ rep[t] \in Reports /\ StepCount(rep[t]) \in Nat /\ pc[t] \in Labels
  BY StepCountType DEF LockInv, TypeOK
<1>1. HolderOnly'
  BY MovesAlone DEF HolderOnly
<1>2. ASSUME NEW u \in Threads, u # t PROVE pc'[u] \in {"idle", "lock"}
  BY <1>2, MovesAlone DEF Inside, LockInv, TypeOK
<1> USE DEF Goto, Release, envVars, keyVars, prodVars, logVars
<1>3. KnowsKey(t)' /\ KnowsRange(t)' /\ KnowsChecks(t)'
  <2>1. CASE Acquire(t)
    BY <1>0, <2>1 DEF LockInv, TypeOK, KeyStarted, LoopRange, ChecksHold,
         KnowsKey, KnowsRange, KnowsChecks, Acquire
  <2>2. CASE CheckExecuted(t)
    BY <1>0, <2>2 DEF LockInv, TypeOK, KeyStarted, LoopRange, ChecksHold,
         KnowsKey, KnowsRange, KnowsChecks, CheckExecuted, has_executed_action
  <2>3. CASE CheckStatus(t)
    BY <1>0, <2>3 DEF LockInv, TypeOK, KeyStarted, LoopRange, ChecksHold,
         KnowsKey, KnowsRange, KnowsChecks, CheckStatus
  <2>4. CASE CheckGranted(t)
    BY <1>0, <2>4 DEF LockInv, TypeOK, KeyStarted, LoopRange, ChecksHold,
         KnowsKey, KnowsRange, KnowsChecks, CheckGranted
  <2>5. CASE RecordStarted(t)
    BY <1>0, <2>5 DEF LockInv, TypeOK, KeyStarted, LoopRange, ChecksHold,
         KnowsKey, KnowsRange, KnowsChecks, RecordStarted
  <2>6. CASE LogStarted(t)
    BY <1>0, <2>6 DEF LockInv, TypeOK, KeyStarted, LoopRange, ChecksHold,
         KnowsKey, KnowsRange, KnowsChecks, LogStarted
  <2>7. CASE DryRun(t)
    BY <1>0, <2>7 DEF LockInv, TypeOK, KeyStarted, LoopRange, ChecksHold,
         KnowsKey, KnowsRange, KnowsChecks, DryRun, HasStep
  <2>8. CASE Run(t)
    BY <1>0, <2>8 DEF LockInv, TypeOK, KeyStarted, LoopRange, ChecksHold,
         KnowsKey, KnowsRange, KnowsChecks, Run
  <2>9. CASE LogCompleted(t)
    BY <1>0, <2>9 DEF LockInv, TypeOK, KeyStarted, LoopRange, ChecksHold,
         KnowsKey, KnowsRange, KnowsChecks, LogCompleted
  <2>10. CASE LogFailed(t)
    BY <1>0, <2>10 DEF LockInv, TypeOK, KeyStarted, LoopRange, ChecksHold,
         KnowsKey, KnowsRange, KnowsChecks, LogFailed
  <2>11. CASE ArchiveFailure(t)
    BY <1>0, <2>11 DEF LockInv, TypeOK, KeyStarted, LoopRange, ChecksHold,
         KnowsKey, KnowsRange, KnowsChecks, ArchiveFailure
  <2>12. CASE MarkDone(t)
    BY <1>0, <2>12 DEF LockInv, TypeOK, KeyStarted, LoopRange, ChecksHold,
         KnowsKey, KnowsRange, KnowsChecks, MarkDone
  <2>13. CASE Archive(t)
    BY <1>0, <2>13 DEF LockInv, TypeOK, KeyStarted, LoopRange, ChecksHold,
         KnowsKey, KnowsRange, KnowsChecks, Archive
  <2>14. CASE LogFinished(t)
    BY <1>0, <2>14 DEF LockInv, TypeOK, KeyStarted, LoopRange, ChecksHold,
         KnowsKey, KnowsRange, KnowsChecks, LogFinished
  <2> QED
    BY <2>1, <2>2, <2>3, <2>4, <2>5, <2>6, <2>7, <2>8, <2>9, <2>10, <2>11, <2>12, <2>13, <2>14 DEF Execute
<1>4. KeyStarted' /\ LoopRange' /\ ChecksHold'
  BY <1>2, <1>3 DEF KeyStarted, LoopRange, ChecksHold, KnowsKey, KnowsRange, KnowsChecks
<1> QED
  BY <1>1, <1>4

LEMMA LockStep == LockInv /\ [Next]_vars => LockInv'
<1> SUFFICES ASSUME LockInv, [Next]_vars
             PROVE  HolderOnly' /\ KeyStarted' /\ LoopRange' /\ ChecksHold'
  BY TypeStep DEF LockInv
<1> USE DEF LockInv, HolderOnly, KeyStarted, LoopRange, ChecksHold,
            envVars, keyVars, prodVars, logVars
<1>1. ASSUME NEW t \in Threads, NEW r \in Reports, Call(t, r)
      PROVE  HolderOnly' /\ KeyStarted' /\ LoopRange' /\ ChecksHold'
  BY <1>1 DEF TypeOK, Call, Goto, Inside
<1>2. ASSUME NEW t \in Threads, Execute(t)
      PROVE  HolderOnly' /\ KeyStarted' /\ LoopRange' /\ ChecksHold'
  BY <1>2, LockExecute
<1>3. ASSUME Grant PROVE HolderOnly' /\ KeyStarted' /\ LoopRange' /\ ChecksHold'
  BY <1>3 DEF Grant
<1>4. ASSUME MoveStatus PROVE HolderOnly' /\ KeyStarted' /\ LoopRange' /\ ChecksHold'
  BY <1>4 DEF MoveStatus
<1>5. ASSUME Crash PROVE HolderOnly' /\ KeyStarted' /\ LoopRange' /\ ChecksHold'
  BY <1>5 DEF Crash, Inside
<1>6. ASSUME UNCHANGED vars PROVE HolderOnly' /\ KeyStarted' /\ LoopRange' /\ ChecksHold'
  BY <1>6 DEF vars
<1> QED
  BY <1>1, <1>2, <1>3, <1>4, <1>5, <1>6 DEF Next

LEMMA InitType == Init => TypeOK
<1> SUFFICES ASSUME Init PROVE TypeOK
  OBVIOUS
<1>1. Counts(Zero)
  <2>1. \A r \in Reports : Zero[r] = [i \in 1..StepCount(r) |-> 0]
    BY DEF Zero
  <2> QED
    BY <2>1 DEF Counts, Zero
<1>2. events \in [Kinds -> Nat]
  BY DEF Init
<1>3. pc \in [Threads -> Labels] /\ step \in [Threads -> Nat \ {0}]
  BY DEF Init, Labels
<1>4. Counts(previews) /\ Counts(applied) /\ Counts(completed)
  BY <1>1 DEF Init
<1>5. calls \in 0..MaxCalls /\ crashes \in 0..MaxCrashes
  BY ExecutorAssumption DEF Init
<1> QED
  BY <1>2, <1>3, <1>4, <1>5 DEF Init, TypeOK

\* The variables stay in their types: in particular the lock has one holder or
\* none, and a key is recorded as done only after it was recorded as started.
THEOREM TypeCorrect == Spec => []TypeOK
<1>1. Init => LockInv
  BY InitType DEF Init, LockInv, HolderOnly, KeyStarted, LoopRange, ChecksHold, Inside
<1>2. LockInv => TypeOK
  BY DEF LockInv
<1> QED
  BY <1>1, <1>2, LockStep, PTL DEF Spec

-----------------------------------------------------------------------------
(* What reaches production.                                                *)

\* Steps that leave the counts alone and take nobody to a command.
LEMMA CountsFrame ==
  ASSUME CountsInv, UNCHANGED <<previews, applied, completed, rep>>, granted => granted',
         \A t \in Threads : pc'[t] \in {"step", "run"} => pc'[t] = pc[t] /\ step'[t] = step[t]
  PROVE  CountsInv'
BY DEF CountsInv, PreviewAhead, CompletionAhead, FailureStops, ActsAuthorised, StepRisk, Times

LEMMA CountsExecute ==
  ASSUME LockInv, CountsInv, NEW t \in Threads, Execute(t)
  PROVE  CountsInv'
<1>0. rep[t] \in Validated /\ rep[t] \in Reports /\ StepCount(rep[t]) \in Nat
  BY StepCountType DEF LockInv, TypeOK
<1>1. ASSUME NEW u \in Threads, u # t PROVE pc'[u] \in {"idle", "lock"}
  BY <1>1, MovesAlone DEF Inside, LockInv, TypeOK
<1>2. rep' = rep
  BY MovesAlone
<1>3. Counts(previews) /\ Counts(applied) /\ Counts(completed) /\ pc \in [Threads -> Labels]
  BY DEF LockInv, TypeOK
<1> USE DEF Goto, envVars, keyVars, prodVars, logVars
<1>4. CASE DryRun(t)
  <2>1. step[t] \in 1..StepCount(rep[t]) /\ pc[t] = "step"
    BY <1>0, <1>4 DEF LockInv, LoopRange, DryRun, HasStep
  <2>2. UNCHANGED <<completed, step, granted>> /\ pc'[t] \in {"run", "failed"}
    BY <1>3, <1>4 DEF DryRun
  <2>3. \/ previews' = previews /\ (pc'[t] = "run" => StepRisk(t) = "read-only")
        \/ previews' = Count(previews, t)
    BY <1>3, <1>4 DEF DryRun
  <2>a. \/ applied' = applied
        \/ applied' = Count(applied, t) /\ step[t] \in Unpreviewed[rep[t]]
    BY <1>4 DEF DryRun, MayAct
  <2>c. /\ \A r \in Reports : \A i \in 1..StepCount(r) :
             Count(previews, t)[r][i] =
               IF r = rep[t] /\ i = step[t] THEN previews[r][i] + 1 ELSE previews[r][i]
        /\ \A r \in Reports : \A i \in 1..StepCount(r) :
             Count(applied, t)[r][i] =
               IF r = rep[t] /\ i = step[t] THEN applied[r][i] + 1 ELSE applied[r][i]
    BY <1>0, <1>3, <2>1, CountOne
  <2>n. \A r \in Reports : \A i \in 1..StepCount(r) :
          applied[r][i] \in Nat /\ previews[r][i] \in Nat /\ completed[r][i] \in Nat
    BY <1>3 DEF Counts
  <2>4. \A r \in Reports : \A i \in 1..StepCount(r) :
          /\ previews[r][i] <= previews'[r][i]
          /\ \/ applied'[r][i] = applied[r][i]
             \/ /\ r = rep[t] /\ i = step[t] /\ i \in Unpreviewed[r]
                /\ applied'[r][i] = applied[r][i] + 1
    BY <2>3, <2>a, <2>c, <2>n
  <2>5. PreviewAhead'
    <3> SUFFICES ASSUME pc'[t] = "run", StepRisk(t)' = "mutating",
                        step[t] \notin Unpreviewed[rep[t]]
                 PROVE  applied'[rep[t]][step[t]] < previews'[rep[t]][step[t]]
      BY <1>1, <1>2, <2>2 DEF PreviewAhead
    <3>1. StepRisk(t) = "mutating"
      BY <1>2, <2>2 DEF StepRisk
    <3>2. applied[rep[t]][step[t]] <= previews[rep[t]][step[t]]
      BY <1>0, <2>1, <2>n, <3>1 DEF CountsInv, ActsAuthorised, StepRisk
    <3>3. previews'[rep[t]][step[t]] = previews[rep[t]][step[t]] + 1
      BY <1>0, <2>1, <2>3, <2>c, <3>1
    <3>4. applied'[rep[t]][step[t]] = applied[rep[t]][step[t]]
      BY <1>0, <2>1, <2>4
    <3> QED
      BY <1>0, <2>1, <2>n, <3>2, <3>3, <3>4
  <2>f. ASSUME NEW r \in Reports, NEW i \in 2..StepCount(r)
        PROVE  /\ i \in 1..StepCount(r) /\ i - 1 \in 1..StepCount(r)
               /\ applied[r][i] <= Times(r, i) * completed[r][i - 1]
    BY ExecutorAssumption DEF StepCount, CountsInv, FailureStops
  <2>g. step[t] \in 2..StepCount(rep[t]) =>
          applied[rep[t]][step[t]] + Times(rep[t], step[t])
            <= Times(rep[t], step[t]) * completed[rep[t]][step[t] - 1]
    BY <2>1 DEF CountsInv, CompletionAhead
  <2>6. CompletionAhead'
    <3> SUFFICES ASSUME step[t] \in 2..StepCount(rep[t])
                 PROVE  applied'[rep[t]][step[t]] + 1
                          <= Times(rep[t], step[t]) * completed[rep[t]][step[t] - 1]
      BY <1>1, <1>2, <2>2 DEF CompletionAhead, Times
    <3> DEFINE c == completed[rep[t]][step[t] - 1]
               a == applied[rep[t]][step[t]]
    <3>1. c \in Nat /\ a \in Nat
      BY <1>0, <2>f, <2>n
    <3>2. \/ applied'[rep[t]][step[t]] = a
          \/ applied'[rep[t]][step[t]] = a + 1 /\ step[t] \in Unpreviewed[rep[t]]
      BY <1>0, <2>1, <2>4
    <3> HIDE DEF a, c
    <3>3. \/ step[t] \notin Unpreviewed[rep[t]] /\ a + 1 <= c /\ Times(rep[t], step[t]) * c = c
          \/ a + 2 <= c + c /\ Times(rep[t], step[t]) * c = c + c
      BY <2>g, <3>1, TimesOf DEF a, c
    <3> QED
      BY <3>1, <3>2, <3>3 DEF c
  <2>7. FailureStops'
    <3> SUFFICES ASSUME NEW r \in Reports, NEW i \in 2..StepCount(r)
                 PROVE  applied'[r][i] <= Times(r, i) * completed[r][i - 1]
      BY <2>2 DEF FailureStops, Times
    <3> DEFINE k == Times(r, i) * completed[r][i - 1]
    <3>1. applied[r][i] \in Nat /\ k \in Nat
      BY <2>f, <2>n, TimesOf
    <3>2. CASE applied'[r][i] = applied[r][i]
      BY <2>f, <3>2
    <3>3. CASE /\ r = rep[t] /\ i = step[t] /\ i \in Unpreviewed[r]
               /\ applied'[r][i] = applied[r][i] + 1
      <4>1. Times(r, i) = 2 /\ applied[r][i] + Times(r, i) <= k
        BY <2>g, <3>3 DEF Times
      <4> HIDE DEF k
      <4>2. applied'[r][i] <= k
        BY <3>1, <3>3, <4>1
      <4> QED
        BY <4>2 DEF k
    <3> QED
      BY <2>4, <2>f, <3>2, <3>3
  <2>8. ActsAuthorised'
    <3> SUFFICES ASSUME NEW r \in Reports, NEW i \in 1..StepCount(r), applied'[r][i] > 0
                 PROVE  /\ r \in Validated
                        /\ IsMutating(r) => granted
                        /\ Risks[r][i] = "mutating" /\ i \notin Unpreviewed[r] =>
                             applied'[r][i] <= previews'[r][i]
      BY <2>2 DEF ActsAuthorised
    <3>1. CASE applied'[r][i] = applied[r][i]
      <4>1. applied[r][i] <= previews[r][i] => applied'[r][i] <= previews'[r][i]
        <5>1. /\ applied[r][i] \in Nat /\ previews[r][i] \in Nat
              /\ previews'[r][i] \in {previews[r][i], previews[r][i] + 1}
          BY <2>3, <2>c, <2>n
        <5> QED
          BY <3>1, <5>1
      <4> QED
        BY <3>1, <4>1 DEF CountsInv, ActsAuthorised
    <3>2. CASE r = rep[t] /\ i = step[t] /\ i \in Unpreviewed[r]
      BY <1>0, <2>1, <3>2 DEF LockInv, ChecksHold
    <3> QED
      BY <2>4, <3>1, <3>2
  <2> QED
    BY <2>5, <2>6, <2>7, <2>8 DEF CountsInv
<1>5. CASE Run(t)
  <2>1. step[t] \in 1..StepCount(rep[t]) /\ pc[t] = "run"
    BY <1>5 DEF LockInv, LoopRange, Run
  <2>2. UNCHANGED <<previews, completed, step, granted>> /\ pc'[t] \in {"ran", "failed"}
    BY <1>3, <1>5 DEF Run
  <2>3. applied' = applied \/ applied' = Count(applied, t)
    BY <1>5 DEF Run, MayAct
  <2>4. PreviewAhead' /\ CompletionAhead'
    BY <1>1, <2>2 DEF PreviewAhead, CompletionAhead
  <2>c. \A r \in Reports : \A i \in 1..StepCount(r) :
          Count(applied, t)[r][i] =
            IF r = rep[t] /\ i = step[t] THEN applied[r][i] + 1 ELSE applied[r][i]
    BY <1>0, <1>3, <2>1, CountOne
  <2>n. \A r \in Reports : \A i \in 1..StepCount(r) :
          applied[r][i] \in Nat /\ previews[r][i] \in Nat /\ completed[r][i] \in Nat
    BY <1>3 DEF Counts
  <2>5. FailureStops'
    <3> SUFFICES ASSUME NEW r \in Reports, NEW i \in 2..StepCount(r)
                 PROVE  applied'[r][i] <= Times(r, i) * completed[r][i - 1]
      BY <2>2 DEF FailureStops, Times
    <3>1. /\ i \in 1..StepCount(r) /\ i - 1 \in 1..StepCount(r)
          /\ applied[r][i] <= Times(r, i) * completed[r][i - 1]
      BY ExecutorAssumption DEF StepCount, CountsInv, FailureStops
    <3>2. r = rep[t] /\ i = step[t] => applied[r][i] + 1 <= Times(r, i) * completed[r][i - 1]
      BY <2>1 DEF CountsInv, CompletionAhead
    <3> QED
      BY <2>3, <2>c, <3>1, <3>2
  <2>6. ActsAuthorised'
    <3> SUFFICES ASSUME NEW r \in Reports, NEW i \in 1..StepCount(r), applied'[r][i] > 0
                 PROVE  /\ r \in Validated
                        /\ IsMutating(r) => granted
                        /\ Risks[r][i] = "mutating" /\ i \notin Unpreviewed[r] =>
                             applied'[r][i] <= previews[r][i]
      BY <2>2 DEF ActsAuthorised
    <3>1. CASE applied'[r][i] = applied[r][i]
      BY <3>1 DEF CountsInv, ActsAuthorised
    <3>2. CASE r = rep[t] /\ i = step[t] /\ applied'[r][i] = applied[r][i] + 1
      <4>1. IsMutating(r) => granted
        BY <2>1, <3>2 DEF LockInv, ChecksHold
      <4>2. Risks[r][i] = "mutating" /\ i \notin Unpreviewed[r] => applied[r][i] < previews[r][i]
        BY <2>1, <3>2 DEF CountsInv, PreviewAhead, StepRisk
      <4> QED
        BY <1>0, <2>n, <3>2, <4>1, <4>2
    <3> QED
      BY <2>3, <2>c, <3>1, <3>2
  <2> QED
    BY <2>4, <2>5, <2>6 DEF CountsInv
<1>6. CASE LogCompleted(t)
  <2>1. step[t] \in 1..StepCount(rep[t]) /\ pc[t] = "ran"
    BY <1>6 DEF LockInv, LoopRange, LogCompleted
  <2>2. /\ UNCHANGED <<previews, applied, granted>> /\ pc'[t] = "step"
        /\ completed' = Count(completed, t) /\ step' = [step EXCEPT ![t] = step[t] + 1]
    BY <1>3, <1>6 DEF LogCompleted
  <2>3. PreviewAhead'
    BY <1>1, <2>2 DEF PreviewAhead
  <2>c. \A r \in Reports : \A i \in 1..StepCount(r) :
          completed'[r][i] =
            IF r = rep[t] /\ i = step[t] THEN completed[r][i] + 1 ELSE completed[r][i]
    BY <1>0, <1>3, <2>1, <2>2, CountOne
  <2>n. \A r \in Reports : \A i \in 1..StepCount(r) :
          applied[r][i] \in Nat /\ completed[r][i] \in Nat
    BY <1>3 DEF Counts
  <2>s. step'[t] = step[t] + 1 /\ step[t] \in Nat \ {0}
    BY <2>2 DEF LockInv, TypeOK
  <2>r. ASSUME NEW r \in Reports, NEW i \in 2..StepCount(r)
        PROVE  /\ i \in 1..StepCount(r) /\ i - 1 \in 1..StepCount(r)
               /\ applied[r][i] <= Times(r, i) * completed[r][i - 1]
    BY ExecutorAssumption DEF StepCount, CountsInv, FailureStops
  <2>4. CompletionAhead'
    <3> DEFINE k == step[t] + 1
               c == completed[rep[t]][step[t]]
               a == applied[rep[t]][k]
    <3> SUFFICES ASSUME k \in 2..StepCount(rep[t])
                 PROVE  a + Times(rep[t], k) <= Times(rep[t], k) * (c + 1)
      <4>1. k - 1 = step[t] /\ completed'[rep[t]][step[t]] = c + 1
        BY <1>0, <2>1, <2>c, <2>s
      <4> HIDE DEF c
      <4> QED
        BY <1>1, <1>2, <2>2, <2>s, <4>1 DEF CompletionAhead, Times
    <3>1. k \in 1..StepCount(rep[t]) /\ k - 1 = step[t] /\ a <= Times(rep[t], k) * c
      BY <1>0, <2>r, <2>s
    <3>2. a \in Nat /\ c \in Nat
      BY <1>0, <2>1, <2>n, <3>1
    <3> HIDE DEF a, c, k
    <3>3. c + 1 \in Nat
      BY <3>2
    <3>4. \/ Times(rep[t], k) = 1 /\ Times(rep[t], k) * c = c /\ Times(rep[t], k) * (c + 1) = c + 1
          \/ /\ Times(rep[t], k) = 2 /\ Times(rep[t], k) * c = c + c
             /\ Times(rep[t], k) * (c + 1) = (c + 1) + (c + 1)
      BY <3>2, <3>3, TimesOf
    <3> QED
      BY <3>1, <3>2, <3>4
  <2>5. FailureStops'
    <3> SUFFICES ASSUME NEW r \in Reports, NEW i \in 2..StepCount(r)
                 PROVE  applied[r][i] <= Times(r, i) * completed'[r][i - 1]
      BY <2>2 DEF FailureStops, Times
    <3> DEFINE c == completed[r][i - 1]
               d == completed'[r][i - 1]
               a == applied[r][i]
    <3>1. c \in Nat /\ d \in {c, c + 1} /\ a \in Nat /\ a <= Times(r, i) * c
      BY <2>c, <2>n, <2>r
    <3> HIDE DEF a, c, d
    <3>2. d \in Nat
      BY <3>1
    <3>3. \/ Times(r, i) * c = c /\ Times(r, i) * d = d
          \/ Times(r, i) * c = c + c /\ Times(r, i) * d = d + d
      BY <3>1, <3>2, TimesOf
    <3>4. a <= Times(r, i) * d
      BY <3>1, <3>2, <3>3
    <3> QED
      BY <3>4 DEF a, d
  <2>6. ActsAuthorised'
    BY <2>2 DEF CountsInv, ActsAuthorised
  <2> QED
    BY <2>3, <2>4, <2>5, <2>6 DEF CountsInv
<1>7. CASE LogStarted(t)
  <2>1. UNCHANGED <<previews, applied, completed, granted>> /\ pc'[t] = "step" /\ step'[t] = 1
    BY <1>3, <1>7 DEF LogStarted, LockInv, TypeOK
  <2>2. PreviewAhead' /\ CompletionAhead'
    BY <1>1, <2>1 DEF PreviewAhead, CompletionAhead
  <2> QED
    BY <2>1, <2>2 DEF CountsInv, FailureStops, ActsAuthorised
<1>8. ASSUME ~DryRun(t), ~Run(t), ~LogCompleted(t), ~LogStarted(t) PROVE CountsInv'
  <2>1. UNCHANGED <<previews, applied, completed, granted>>
    BY <1>8 DEF Execute, Acquire, CheckExecuted, CheckStatus, CheckGranted, RecordStarted, LogFailed, ArchiveFailure, MarkDone, Archive, LogFinished
  <2>2. pc'[t] \notin {"step", "run"}
    BY <1>3, <1>8 DEF Execute, Release, Acquire, CheckExecuted, CheckStatus, CheckGranted, RecordStarted, LogFailed, ArchiveFailure, MarkDone, Archive, LogFinished
  <2> QED
    BY <1>1, <1>2, <2>1, <2>2, CountsFrame
<1> QED
  BY <1>4, <1>5, <1>6, <1>7, <1>8

LEMMA ExecStep == ExecInv /\ [Next]_vars => ExecInv'
<1> SUFFICES ASSUME LockInv, CountsInv, [Next]_vars PROVE CountsInv'
  BY LockStep DEF ExecInv
<1> USE DEF envVars, keyVars, prodVars, logVars
<1>1. ASSUME NEW t \in Threads, NEW r \in Reports, Call(t, r) PROVE CountsInv'
  BY <1>1 DEF Call, Goto, LockInv, TypeOK, CountsInv, PreviewAhead, CompletionAhead,
              FailureStops, ActsAuthorised, StepRisk, Times
<1>2. ASSUME NEW t \in Threads, Execute(t) PROVE CountsInv'
  BY <1>2, CountsExecute
<1>3. ASSUME Grant PROVE CountsInv'
  BY <1>3, CountsFrame DEF Grant
<1>4. ASSUME MoveStatus PROVE CountsInv'
  BY <1>4, CountsFrame DEF MoveStatus
<1>5. ASSUME Crash PROVE CountsInv'
  BY <1>5, CountsFrame DEF Crash
<1>6. ASSUME UNCHANGED vars PROVE CountsInv'
  BY <1>6, CountsFrame DEF vars
<1> QED
  BY <1>1, <1>2, <1>3, <1>4, <1>5, <1>6 DEF Next

LEMMA ExecAlways == Spec => []ExecInv
<1>1. Init => LockInv
  BY InitType DEF Init, LockInv, HolderOnly, KeyStarted, LoopRange, ChecksHold, Inside
<1>2. Init => CountsInv
  <2> SUFFICES ASSUME Init PROVE CountsInv
    OBVIOUS
  <2>1. \A r \in Reports : \A i \in 1..StepCount(r) : Zero[r][i] = 0
    BY DEF Zero
  <2>2. \A r \in Reports : \A i \in 2..StepCount(r) : i \in 1..StepCount(r) /\ i - 1 \in 1..StepCount(r)
    BY ExecutorAssumption DEF StepCount
  <2>3. \A r \in Reports : \A i \in 2..StepCount(r) : Times(r, i) * 0 = 0
    BY TimesOf
  <2>4. FailureStops
    BY <2>1, <2>2, <2>3 DEF Init, FailureStops
  <2> QED
    BY <2>1, <2>4 DEF Init, CountsInv, PreviewAhead, CompletionAhead, ActsAuthorised
<1> QED
  BY <1>1, <1>2, ExecStep, PTL DEF Spec, ExecInv

\* A step that raises stops the execution, for every report however often it is
\* tried again and wherever the process died before: no command acts in more
\* attempts than the one before it was recorded as completed, once in each or,
\* when its dry-run is the command itself, twice.
THEOREM SequenceSafety == Spec => []FailureStops
<1>1. ExecInv => FailureStops
  BY DEF ExecInv, CountsInv
<1> QED
  BY <1>1, ExecAlways, PTL

\* Production is acted on, by commands and by previews that are the command
\* itself, for validated reports alone and for a mutating one only after a grant;
\* a mutating command that can be previewed never acts more often than it was.
THEOREM AuthoritySafety == Spec => []ActsAuthorised
<1>1. ExecInv => ActsAuthorised
  BY DEF ExecInv, CountsInv
<1> QED
  BY <1>1, ExecAlways, PTL

-----------------------------------------------------------------------------
(* The refinement of ExecutorContract.                                     *)

\* The attempt a thread makes, if any; while it moves it is the only one.
AttemptOf(t) == IF UnderWay(t) THEN {AttemptBy(t)} ELSE {}

LEMMA OneAttempt ==
  ASSUME LockInv, NEW t \in Threads, Execute(t)
  PROVE  Attempts = AttemptOf(t) /\ Attempts' = AttemptOf(t)'
<1>1. \A u \in Threads : u # t => ~UnderWay(u) /\ ~UnderWay(u)'
  BY MovesAlone DEF UnderWay, Inside, Labels
<1> QED
  BY <1>1 DEF Attempts, AttemptOf

\* The contract's count of an act is the executor's.
LEMMA ContractCount ==
  ASSUME NEW t \in Threads PROVE Contract!Acted(rep[t], step[t]) = Count(applied, t)
BY DEF Contract!Acted, Count

LEMMA ContractExecute ==
  ASSUME LockInv, NEW t \in Threads, Execute(t)
  PROVE  Contract!Next \/ UNCHANGED Contract!cvars
<1> DEFINE r == rep[t]
           i == step[t]
<1>0. /\ r \in Reports /\ StepCount(r) \in Nat /\ i \in Nat \ {0}
      /\ pc \in [Threads -> Labels] /\ step \in [Threads -> Nat \ {0}]
  BY StepCountType DEF LockInv, TypeOK
<1>1. Attempts = AttemptOf(t) /\ Attempts' = AttemptOf(t)' /\ rep' = rep
  BY OneAttempt, MovesAlone
<1>2. UNCHANGED <<status, granted>>
  BY DEF Execute, envVars, Acquire, CheckExecuted, CheckStatus, CheckGranted, RecordStarted,
         LogStarted, DryRun, Run, LogCompleted, LogFailed, ArchiveFailure, MarkDone, Archive,
         LogFinished
<1> USE DEF Goto, Release, keyVars, prodVars
<1>3. CASE CheckStatus(t)
  <2>1. CASE status \in {"mitigated", "resolved"}
    BY <1>0, <1>1, <1>2, <1>3, <2>1 DEF CheckStatus, AttemptOf, UnderWay, Contract!cvars
  <2>2. CASE status \notin {"mitigated", "resolved"}
    <3>1. /\ Attempts = {} /\ Attempts' = {Contract!Attempt(r, 1, "preview")}
          /\ UNCHANGED <<done, applied>>
      BY <1>0, <1>1, <1>3, <2>2 DEF CheckStatus, AttemptOf, AttemptBy, UnderWay, NextStep, Turn,
                                    Contract!Attempt
    <3>2. KeyOf[r] \notin done
      BY <1>3 DEF CheckStatus, LockInv, ChecksHold
    <3>3. Contract!Begin(r)
      BY <1>2, <2>2, <3>1, <3>2 DEF Contract!Begin
    <3> QED
      BY <1>0, <3>3 DEF Contract!Next
  <2> QED
    BY <2>1, <2>2
<1>4. CASE DryRun(t)
  <2>1. pc[t] = "step" /\ i <= StepCount(r) /\ (IsMutating(r) => granted) /\ UNCHANGED done
    BY <1>4 DEF LockInv, ChecksHold, DryRun, HasStep
  <2>2. i \in 1..StepCount(r)
    BY <1>0, <2>1
  <2>3. Attempts = {Contract!Attempt(r, i, "preview")}
    BY <1>1, <2>1 DEF AttemptOf, AttemptBy, UnderWay, NextStep, Turn, Contract!Attempt
  <2>4. Attempts' \in {{Contract!Attempt(r, i, "act")}, {}}
    <3>1. step' = step /\ pc'[t] \in {"run", "failed"}
      BY <1>0, <1>4 DEF DryRun
    <3> QED
      BY <1>1, <3>1 DEF AttemptOf, AttemptBy, UnderWay, NextStep, Turn, Contract!Attempt
  <2>5. applied' \in IF i \in Unpreviewed[r] THEN {applied, Contract!Acted(r, i)} ELSE {applied}
    BY <1>4, ContractCount DEF DryRun, MayAct
  <2>6. Contract!Preview(r, i)
    BY <1>0, <1>2, <2>1, <2>3, <2>4, <2>5 DEF Contract!Preview
  <2> QED
    BY <1>0, <2>2, <2>6 DEF Contract!Next
<1>5. CASE Run(t)
  <2>1. i \in 1..StepCount(r) /\ (IsMutating(r) => granted) /\ UNCHANGED done
    BY <1>5 DEF LockInv, LoopRange, ChecksHold, Run
  <2>2. Attempts = {Contract!Attempt(r, i, "act")}
    BY <1>1, <1>5 DEF Run, AttemptOf, AttemptBy, UnderWay, NextStep, Turn, Contract!Attempt
  <2>3. Attempts' \in {{Contract!Attempt(r, i + 1, "preview")}, {}}
    <3>1. step' = step /\ pc'[t] \in {"ran", "failed"}
      BY <1>0, <1>5 DEF Run
    <3> QED
      BY <1>1, <3>1 DEF AttemptOf, AttemptBy, UnderWay, NextStep, Turn, Contract!Attempt
  <2>4. applied' \in {applied, Contract!Acted(r, i)}
    BY <1>5, ContractCount DEF Run, MayAct
  <2>5. Contract!Act(r, i)
    BY <1>0, <1>2, <2>1, <2>2, <2>3, <2>4 DEF Contract!Act
  <2> QED
    BY <1>0, <2>1, <2>5 DEF Contract!Next
<1>6. CASE MarkDone(t)
  <2>1. i = StepCount(r) + 1
    BY <1>0, <1>6 DEF MarkDone, HasStep, LockInv, LoopRange
  <2>2. Attempts = {Contract!Attempt(r, i, "preview")} /\ Attempts' = {}
    BY <1>0, <1>1, <1>6 DEF MarkDone, AttemptOf, AttemptBy, UnderWay, NextStep, Turn, Contract!Attempt
  <2>3. Contract!Finish(r)
    BY <1>0, <1>2, <1>6, <2>1, <2>2 DEF MarkDone, Contract!Finish
  <2> QED
    BY <1>0, <2>3 DEF Contract!Next
<1>7. ASSUME ~CheckStatus(t), ~DryRun(t), ~Run(t), ~MarkDone(t)
      PROVE  Contract!Next \/ UNCHANGED Contract!cvars
  <2>1. UNCHANGED <<done, applied>>
    BY <1>7 DEF Execute, Acquire, CheckExecuted, CheckGranted, RecordStarted, LogStarted,
                LogCompleted, LogFailed, ArchiveFailure, Archive, LogFinished
  <2>2. Attempts' \in {Attempts, {}}
    <3> USE <1>0, <1>1 DEF AttemptOf, AttemptBy, UnderWay, NextStep, Turn
    <3>1. CASE Acquire(t)
      BY <3>1 DEF Acquire
    <3>2. CASE CheckExecuted(t)
      BY <3>2 DEF CheckExecuted
    <3>3. CASE CheckGranted(t)
      BY <3>3 DEF CheckGranted
    <3>4. CASE RecordStarted(t)
      BY <3>4 DEF RecordStarted
    <3>5. CASE LogStarted(t)
      BY <3>5 DEF LogStarted
    <3>7. CASE LogCompleted(t)
      BY <3>7 DEF LogCompleted
    <3>8. CASE LogFailed(t)
      BY <3>8 DEF LogFailed
    <3>9. CASE ArchiveFailure(t)
      BY <3>9 DEF ArchiveFailure
    <3>10. CASE Archive(t)
      BY <3>10 DEF Archive
    <3>11. CASE LogFinished(t)
      BY <3>11 DEF LogFinished
    <3> QED
      BY <1>7, <3>1, <3>2, <3>3, <3>4, <3>5, <3>7, <3>8, <3>9, <3>10, <3>11 DEF Execute
  <2>3. CASE Attempts' = Attempts
    BY <1>2, <2>1, <2>3 DEF Contract!cvars
  <2>4. CASE Attempts' = {} /\ Attempts # {}
    BY <1>2, <2>1, <2>4 DEF Contract!Stop, Contract!Next
  <2> QED
    BY <2>2, <2>3, <2>4
<1> QED
  BY <1>3, <1>4, <1>5, <1>6, <1>7

LEMMA ContractStep ==
  ASSUME LockInv, [Next]_vars
  PROVE  Contract!Next \/ UNCHANGED Contract!cvars
<1> USE DEF keyVars, prodVars
<1>1. ASSUME NEW t \in Threads, NEW r \in Reports, Call(t, r)
      PROVE  UNCHANGED Contract!cvars
  <2>1. \A u \in Threads : UnderWay(u) => u # t
    BY <1>1 DEF Call, UnderWay
  <2>2. \A u \in Threads : u # t => pc'[u] = pc[u] /\ rep'[u] = rep[u] /\ step'[u] = step[u]
    BY <1>1 DEF Call, Goto, LockInv, TypeOK
  <2>3. ~UnderWay(t)'
    BY <1>1 DEF Call, Goto, LockInv, TypeOK, UnderWay
  <2>4. Attempts' = Attempts
    BY <2>1, <2>2, <2>3 DEF Attempts, AttemptBy, UnderWay, NextStep, Turn
  <2> QED
    BY <1>1, <2>4 DEF Call, envVars, Contract!cvars
<1>2. ASSUME NEW t \in Threads, Execute(t) PROVE Contract!Next \/ UNCHANGED Contract!cvars
  BY <1>2, ContractExecute
<1>3. ASSUME Grant PROVE Contract!Outside
  BY <1>3 DEF Grant, Contract!Outside, Attempts, AttemptBy, UnderWay, NextStep, Turn
<1>4. ASSUME MoveStatus PROVE Contract!Outside
  BY <1>4 DEF MoveStatus, Contract!Outside, Attempts, AttemptBy, UnderWay, NextStep, Turn
<1>5. ASSUME Crash PROVE Contract!Stop \/ UNCHANGED Contract!cvars
  <2>1. Attempts' = {}
    BY <1>5 DEF Crash, Attempts, UnderWay
  <2> QED
    BY <1>5, <2>1 DEF Crash, envVars, Contract!Stop, Contract!cvars
<1>6. ASSUME UNCHANGED vars PROVE UNCHANGED Contract!cvars
  BY <1>6 DEF vars, Contract!cvars, Attempts, AttemptBy, UnderWay, NextStep, Turn
<1> QED
  BY <1>1, <1>2, <1>3, <1>4, <1>5, <1>6 DEF Next, Contract!Next

\* ExecutorRunner.execute keeps the contract: whatever threads call it, whatever
\* raises and wherever the process dies, one attempt at a time previews and runs
\* the steps of a report in their order, with a grant if it mutates, and none
\* starts once the steps behind its action key are done.
THEOREM ContractMet == Spec => MeetsContract
<1>1. Init => Contract!Init
  BY DEF Init, Zero, Contract!Init, Attempts, UnderWay
<1>2. LockInv /\ [Next]_vars => [Contract!Next]_Contract!cvars
  BY ContractStep
<1>3. ExecInv => LockInv
  BY DEF ExecInv
<1> QED
  BY <1>1, <1>2, <1>3, ExecAlways, PTL DEF Spec, MeetsContract, Contract!Spec
=============================================================================
