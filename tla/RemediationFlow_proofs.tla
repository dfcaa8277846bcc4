----------------------- MODULE RemediationFlow_proofs -----------------------
(***************************************************************************)
(* Proofs about ApprovalFlow and about RemediationFlow, which extends it,  *)
(* for every set of requests and workers, every escalation chain, timeout  *)
(* and bound and every number of steps.  First the approvals alone, under  *)
(* Spec; then the daemon, under RSpec: its threads do nothing to the       *)
(* approvals that ApprovalFlow does not do, so what is proved of those     *)
(* holds of it, and on top of it come the table of requests and the acts   *)
(* on production.                                                          *)
(***************************************************************************)
EXTENDS RemediationFlow, FiniteSetTheorems, TLAPS

-----------------------------------------------------------------------------
(* The approvals alone.                                                    *)

\* Recording an event keeps the timeline counts natural numbers.
LEMMA LogType ==
  ASSUME GateType, NEW r \in Requests, NEW kind \in Kinds, Log(r, kind),
         UNCHANGED <<live, obj>>
  PROVE  GateType'
BY DEF GateType, Log

\* Every action keeps the variables in their types.
LEMMA TypeStep == TypeOK /\ [Next]_vars => TypeOK'
<1> SUFFICES ASSUME TypeOK, [Next]_vars PROVE TypeOK'
  OBVIOUS
<1> USE FlowAssumption DEF gateVars, rowVars, workerVars, schedVars
<1>1. ASSUME NEW r \in Requests, SubmitReadOnly(r) PROVE TypeOK'
  <2>1. GateType'
    BY <1>1, LogType DEF TypeOK, WorkerType, SchedType, Kinds, SubmitReadOnly
  <2>2. RowType'
    BY <1>1 DEF TypeOK, RowType, SubmitReadOnly
  <2>3. WorkerType'
    BY <1>1 DEF TypeOK, WorkerType, SubmitReadOnly
  <2>4. SchedType'
    BY <1>1 DEF TypeOK, SchedType, SubmitReadOnly
  <2> QED
    BY <2>1, <2>2, <2>3, <2>4 DEF TypeOK
<1>2. ASSUME NEW r \in Requests, Submit(r) PROVE TypeOK'
  <2>1. GateType'
    BY <1>2 DEF TypeOK, GateType, ObjStates, SchedType, Submit, NewObject
  <2>2. RowType'
    BY <1>2 DEF TypeOK, RowType, Submit, NewObject
  <2>3. WorkerType'
    BY <1>2 DEF TypeOK, WorkerType, Submit, NewObject
  <2>4. SchedType'
    BY <1>2 DEF TypeOK, SchedType, Submit, NewObject
  <2> QED
    BY <2>1, <2>2, <2>3, <2>4 DEF TypeOK
<1>3. ASSUME NEW r \in Requests, NotifyRequested(r) PROVE TypeOK'
  <2>1. GateType'
    BY <1>3, LogType DEF TypeOK, WorkerType, SchedType, Kinds, NotifyRequested
  <2>2. RowType'
    BY <1>3 DEF TypeOK, RowType, NotifyRequested
  <2>3. WorkerType'
    BY <1>3 DEF TypeOK, WorkerType, NotifyRequested
  <2>4. SchedType'
    BY <1>3 DEF TypeOK, SchedType, NotifyRequested
  <2> QED
    BY <2>1, <2>2, <2>3, <2>4 DEF TypeOK
<1>4. ASSUME NEW r \in Requests, RecordPending(r) PROVE TypeOK'
  <2>1. GateType'
    BY <1>4 DEF TypeOK, GateType, ObjStates, SchedType, RecordPending
  <2>2. RowType'
    BY <1>4 DEF TypeOK, RowType, RecordPending
  <2>3. WorkerType'
    BY <1>4 DEF TypeOK, WorkerType, RecordPending
  <2>4. SchedType'
    BY <1>4 DEF TypeOK, SchedType, RecordPending
  <2> QED
    BY <2>1, <2>2, <2>3, <2>4 DEF TypeOK
<1>5. ASSUME NEW r \in Requests, DeliverButtons(r) PROVE TypeOK'
  <2>1. GateType'
    BY <1>5 DEF TypeOK, GateType, ObjStates, SchedType, DeliverButtons
  <2>2. RowType'
    BY <1>5 DEF TypeOK, RowType, DeliverButtons
  <2>3. WorkerType'
    BY <1>5 DEF TypeOK, WorkerType, DeliverButtons
  <2>4. SchedType'
    BY <1>5 DEF TypeOK, SchedType, DeliverButtons
  <2> QED
    BY <2>1, <2>2, <2>3, <2>4 DEF TypeOK
<1>6. ASSUME NEW r \in Requests, RegisterFails(r) PROVE TypeOK'
  <2>1. GateType'
    BY <1>6 DEF TypeOK, GateType, ObjStates, SchedType, RegisterFails
  <2>2. RowType'
    BY <1>6 DEF TypeOK, RowType, RegisterFails
  <2>3. WorkerType'
    BY <1>6 DEF TypeOK, WorkerType, RegisterFails
  <2>4. SchedType'
    BY <1>6 DEF TypeOK, SchedType, RegisterFails
  <2> QED
    BY <2>1, <2>2, <2>3, <2>4 DEF TypeOK
<1>7. ASSUME NEW w \in Workers, NEW r \in Requests,
             NEW kind \in {"approve", "reject"}, Callback(w, r, kind)
      PROVE TypeOK'
  <2>1. GateType'
    BY <1>7 DEF TypeOK, GateType, ObjStates, SchedType, Callback
  <2>2. RowType'
    BY <1>7 DEF TypeOK, RowType, Callback
  <2>3. WorkerType'
    BY <1>7 DEF TypeOK, WorkerType, Callback
  <2>4. SchedType'
    BY <1>7 DEF TypeOK, SchedType, Callback
  <2> QED
    BY <2>1, <2>2, <2>3, <2>4 DEF TypeOK
<1>8. ASSUME NEW w \in Workers, Take(w) PROVE TypeOK'
  <2>1. GateType'
    <3>1. wreq[w] \in Requests /\ obj[wreq[w]] \in [state : ObjStates, timeouts : Nat, target : 0..LastTarget]
      BY DEF TypeOK, GateType, WorkerType
    <3>2. obj' = obj \/ obj' = [obj EXCEPT ![wreq[w]].state = "approved"]
      BY <1>8 DEF Take
    <3> DEFINE o == [obj[wreq[w]] EXCEPT !.state = "approved"]
    <3>4. o \in [state : ObjStates, timeouts : Nat, target : 0..LastTarget]
      BY <3>1 DEF ObjStates
    <3>5. obj' = obj \/ obj' = [obj EXCEPT ![wreq[w]] = o]
      BY <3>2
    <3> HIDE DEF o
    <3>3. obj' \in [Requests -> [state : ObjStates, timeouts : Nat, target : 0..LastTarget]]
      BY <3>1, <3>4, <3>5 DEF TypeOK, GateType
    <3> QED
      BY <1>8, <3>3 DEF TypeOK, GateType, Take
  <2>2. RowType'
    BY <1>8 DEF TypeOK, RowType, Take
  <2>3. WorkerType'
    BY <1>8 DEF TypeOK, WorkerType, Take
  <2>4. SchedType'
    BY <1>8 DEF TypeOK, SchedType, Take
  <2> QED
    BY <2>1, <2>2, <2>3, <2>4 DEF TypeOK
<1>9. ASSUME NEW w \in Workers, Decide(w) PROVE TypeOK'
  <2>1. GateType'
    BY <1>9, LogType DEF TypeOK, WorkerType, SchedType, Kinds, Decide
  <2>2. RowType'
    BY <1>9 DEF TypeOK, RowType, Decide
  <2>3. WorkerType'
    BY <1>9 DEF TypeOK, WorkerType, Decide
  <2>4. SchedType'
    BY <1>9 DEF TypeOK, SchedType, Decide
  <2> QED
    BY <2>1, <2>2, <2>3, <2>4 DEF TypeOK
<1>10. ASSUME NEW w \in Workers, IndexOverride(w) PROVE TypeOK'
  <2>1. GateType'
    BY <1>10, LogType DEF TypeOK, WorkerType, SchedType, Kinds, IndexOverride
  <2>2. RowType'
    BY <1>10 DEF TypeOK, RowType, IndexOverride
  <2>3. WorkerType'
    BY <1>10 DEF TypeOK, WorkerType, IndexOverride
  <2>4. SchedType'
    BY <1>10 DEF TypeOK, SchedType, IndexOverride
  <2> QED
    BY <2>1, <2>2, <2>3, <2>4 DEF TypeOK
<1>11. ASSUME NEW w \in Workers, MarkRejected(w) PROVE TypeOK'
  <2>1. GateType'
    BY <1>11 DEF TypeOK, GateType, ObjStates, SchedType, MarkRejected
  <2>2. RowType'
    BY <1>11 DEF TypeOK, RowType, WorkerType, MarkRejected
  <2>3. WorkerType'
    BY <1>11 DEF TypeOK, WorkerType, MarkRejected
  <2>4. SchedType'
    BY <1>11 DEF TypeOK, SchedType, MarkRejected
  <2> QED
    BY <2>1, <2>2, <2>3, <2>4 DEF TypeOK
<1>12. ASSUME NEW w \in Workers, GetReport(w) PROVE TypeOK'
  <2>1. GateType'
    BY <1>12 DEF TypeOK, GateType, ObjStates, SchedType, GetReport
  <2>2. RowType'
    BY <1>12 DEF TypeOK, RowType, GetReport
  <2>3. WorkerType'
    BY <1>12 DEF TypeOK, WorkerType, GetReport
  <2>4. SchedType'
    BY <1>12 DEF TypeOK, SchedType, GetReport
  <2> QED
    BY <2>1, <2>2, <2>3, <2>4 DEF TypeOK
<1>13. ASSUME NEW w \in Workers, ExecuteApproved(w) PROVE TypeOK'
  <2>1. GateType'
    BY <1>13 DEF TypeOK, GateType, ObjStates, SchedType, ExecuteApproved
  <2>2. RowType'
    BY <1>13 DEF TypeOK, RowType, WorkerType, ExecuteApproved
  <2>3. WorkerType'
    BY <1>13 DEF TypeOK, WorkerType, ExecuteApproved
  <2>4. SchedType'
    BY <1>13 DEF TypeOK, SchedType, ExecuteApproved
  <2> QED
    BY <2>1, <2>2, <2>3, <2>4 DEF TypeOK
<1>14. ASSUME Tick PROVE TypeOK'
  <2>1. GateType'
    BY <1>14 DEF TypeOK, GateType, ObjStates, SchedType, Tick
  <2>2. RowType'
    BY <1>14 DEF TypeOK, RowType, Tick
  <2>3. WorkerType'
    BY <1>14 DEF TypeOK, WorkerType, Tick
  <2>4. SchedType'
    BY <1>14 DEF TypeOK, SchedType, Tick
  <2> QED
    BY <2>1, <2>2, <2>3, <2>4 DEF TypeOK
<1>15. ASSUME NEW r \in Requests, Lookup(r) PROVE TypeOK'
  <2>1. GateType'
    BY <1>15 DEF TypeOK, GateType, ObjStates, SchedType, Lookup, NextRow
  <2>2. RowType'
    BY <1>15 DEF TypeOK, RowType, Lookup, NextRow
  <2>3. WorkerType'
    BY <1>15 DEF TypeOK, WorkerType, Lookup, NextRow
  <2>4. SchedType'
    BY <1>15 DEF TypeOK, SchedType, Lookup, NextRow
  <2> QED
    BY <2>1, <2>2, <2>3, <2>4 DEF TypeOK
<1>16. ASSUME Expire PROVE TypeOK'
  <2>1. GateType'
    <3>1. cur \in Requests /\ obj[cur].timeouts \in Nat /\ obj[cur].target \in 0..LastTarget
      BY DEF TypeOK, GateType, SchedType
    <3>2. ASSUME obj[cur].target < LastTarget PROVE obj[cur].target + 1 \in 0..LastTarget
      BY <3>1, <3>2
    <3>3. PICK st \in {"escalated", "abandoned"}, t \in 0..LastTarget :
             obj' = [obj EXCEPT ![cur] =
                       [state |-> st, timeouts |-> obj[cur].timeouts + 1, target |-> t]]
      <4>1. CASE obj[cur].timeouts = 0 \/ obj[cur].target < LastTarget
        BY <1>16, <3>1, <3>2, <4>1 DEF Expire
      <4>2. CASE ~(obj[cur].timeouts = 0 \/ obj[cur].target < LastTarget)
        BY <1>16, <3>1, <4>2 DEF Expire
      <4> QED
        BY <4>1, <4>2
    <3> QED
      BY <1>16, <3>1, <3>3 DEF TypeOK, GateType, ObjStates, Expire
  <2>2. RowType'
    BY <1>16 DEF TypeOK, RowType, Expire, DropTick
  <2>3. WorkerType'
    BY <1>16 DEF TypeOK, WorkerType, Expire, DropTick
  <2>4. SchedType'
    BY <1>16 DEF TypeOK, SchedType, Expire, DropTick
  <2> QED
    BY <2>1, <2>2, <2>3, <2>4 DEF TypeOK
<1>17. ASSUME LogEscalated PROVE TypeOK'
  <2>1. GateType'
    BY <1>17, LogType DEF TypeOK, WorkerType, SchedType, Kinds, LogEscalated, NextRow
  <2>2. RowType'
    BY <1>17 DEF TypeOK, RowType, LogEscalated, NextRow
  <2>3. WorkerType'
    BY <1>17 DEF TypeOK, WorkerType, LogEscalated, NextRow
  <2>4. SchedType'
    BY <1>17 DEF TypeOK, SchedType, LogEscalated, NextRow
  <2> QED
    BY <2>1, <2>2, <2>3, <2>4 DEF TypeOK
<1>18. ASSUME Abandon PROVE TypeOK'
  <2>1. GateType'
    BY <1>18 DEF TypeOK, GateType, ObjStates, SchedType, Abandon, DropTick
  <2>2. RowType'
    BY <1>18 DEF TypeOK, RowType, Abandon, DropTick
  <2>3. WorkerType'
    BY <1>18 DEF TypeOK, WorkerType, Abandon, DropTick
  <2>4. SchedType'
    BY <1>18 DEF TypeOK, SchedType, Abandon, DropTick
  <2> QED
    BY <2>1, <2>2, <2>3, <2>4 DEF TypeOK
<1>19. ASSUME LogAbandoned PROVE TypeOK'
  <2>1. GateType'
    BY <1>19, LogType DEF TypeOK, WorkerType, SchedType, Kinds, LogAbandoned
  <2>2. RowType'
    BY <1>19 DEF TypeOK, RowType, LogAbandoned
  <2>3. WorkerType'
    BY <1>19 DEF TypeOK, WorkerType, LogAbandoned
  <2>4. SchedType'
    BY <1>19 DEF TypeOK, SchedType, LogAbandoned
  <2> QED
    BY <2>1, <2>2, <2>3, <2>4 DEF TypeOK
<1>20. ASSUME MarkAbandoned PROVE TypeOK'
  <2>1. GateType'
    BY <1>20 DEF TypeOK, GateType, ObjStates, SchedType, MarkAbandoned, NextRow
  <2>2. RowType'
    BY <1>20 DEF TypeOK, RowType, SchedType, MarkAbandoned, NextRow
  <2>3. WorkerType'
    BY <1>20 DEF TypeOK, WorkerType, MarkAbandoned, NextRow
  <2>4. SchedType'
    BY <1>20 DEF TypeOK, SchedType, MarkAbandoned, NextRow
  <2> QED
    BY <2>1, <2>2, <2>3, <2>4 DEF TypeOK
<1>21. ASSUME Restart PROVE TypeOK'
  <2>1. GateType'
    BY <1>21 DEF TypeOK, GateType, ObjStates, SchedType, Restart, DropTick
  <2>2. RowType'
    BY <1>21 DEF TypeOK, RowType, Restart, DropTick
  <2>3. WorkerType'
    BY <1>21 DEF TypeOK, WorkerType, Restart, DropTick
  <2>4. SchedType'
    BY <1>21 DEF TypeOK, SchedType, Restart, DropTick
  <2> QED
    BY <2>1, <2>2, <2>3, <2>4 DEF TypeOK
<1>22. CASE UNCHANGED vars
  BY <1>22 DEF vars, TypeOK, GateType, RowType, WorkerType, SchedType
<1> QED
  BY <1>1, <1>2, <1>3, <1>4, <1>5, <1>6, <1>7, <1>8, <1>9, <1>10, <1>11, <1>12, <1>13, <1>14, <1>15, <1>16, <1>17, <1>18, <1>19, <1>20, <1>21, <1>22 DEF Next, Register, Handle, Schedule

\* The variables of the approval flow keep their types.
THEOREM TypeCorrect == Spec => []TypeOK
<1>1. Init => TypeOK
  BY FlowAssumption DEF Init, TypeOK, GateType, RowType, WorkerType, SchedType,
                        Kinds, ObjStates, NewObject
<1> QED
  BY <1>1, TypeStep, PTL DEF Spec

-----------------------------------------------------------------------------
(* Who may decide.  A request is in at most one pair of hands: in _pending, *)
(* or taken out of it by one worker that has not recorded its decision yet, *)
(* or by the scheduler that is abandoning it; once a decision is recorded   *)
(* it is in nobody's.  The del of _take and of on_timeout passes it on.     *)

Taken(w, r) == wpc[w] = "decide" /\ wreq[w] = r
GivenUp(r)  == spc = "abandoned" /\ cur = r
Runner(w, r) == wpc[w] \in {"report", "execute"} /\ wreq[w] = r

OneOwner ==
  \A r \in Requests :
    /\ r \in live => ~GivenUp(r) /\ \A w \in Workers : ~Taken(w, r)
    /\ GivenUp(r) => \A w \in Workers : ~Taken(w, r)
    /\ \A v, w \in Workers : Taken(v, r) /\ Taken(w, r) => v = w

Held(r) == r \in live \/ GivenUp(r) \/ \E w \in Workers : Taken(w, r)

OwnedUndecided ==
  \A r \in Requests :
    /\ Held(r) => Decisions(r) = 0 /\ reg[r] # "idle"
    /\ Decisions(r) <= 1
    /\ reg[r] = "idle" => Decisions(r) = 0

OwnerInv == TypeOK /\ OneOwner /\ OwnedUndecided

\* Recording a kind of event for one request counts towards the decisions of
\* that request alone, and only if the kind is a decision.
Verdicts == {"approval_granted", "approval_rejected", "approval_abandoned"}

LEMMA LogDecisions ==
  ASSUME GateType, NEW r \in Requests, NEW kind \in Kinds, Log(r, kind),
         NEW q \in Requests
  PROVE  /\ Decisions(q) \in Nat
         /\ Decisions(q)' = Decisions(q) + (IF q = r /\ kind \in Verdicts THEN 1 ELSE 0)
<1>1. \A k \in Kinds : trail[q][k] \in Nat
  BY DEF GateType
<1>2. \A k \in Kinds : trail'[q][k] = trail[q][k] + (IF q = r /\ k = kind THEN 1 ELSE 0)
  BY <1>1 DEF GateType, Log
<1> QED
  BY <1>1, <1>2 DEF Decisions, Verdicts, Kinds

\* No step loses the single owner, or lets a decided request be owned.
LEMMA OwnerStep == OwnerInv /\ [Next]_vars => OneOwner' /\ OwnedUndecided'
<1> SUFFICES ASSUME OwnerInv, [Next]_vars PROVE OneOwner' /\ OwnedUndecided'
  OBVIOUS
<1>0. TypeOK
  BY DEF OwnerInv
<1>a. \A r \in Requests : Decisions(r) \in Nat
  BY <1>0 DEF TypeOK, GateType, Decisions, Kinds
<1> USE DEF gateVars, rowVars, workerVars, schedVars
<1>1. ASSUME NEW r \in Requests, SubmitReadOnly(r) PROVE OneOwner' /\ OwnedUndecided'
  <2>1. OneOwner'
    BY <1>1, <1>0 DEF OwnerInv, OneOwner, Taken, GivenUp, TypeOK, WorkerType, SchedType, RowType, SubmitReadOnly
  <2>2. OwnedUndecided'
    <3>1. \A q \in Requests : Decisions(q)' = Decisions(q)
      <4>1. Log(r, "approval_auto_approved") /\ GateType
        BY <1>1, <1>0 DEF SubmitReadOnly, TypeOK
      <4>2. "approval_auto_approved" \in Kinds \ Verdicts
        BY DEF Kinds, Verdicts
      <4> QED
        BY <1>a, <4>1, <4>2, LogDecisions
    <3> QED
      BY <1>1, <1>0, <3>1 DEF OwnerInv, OwnedUndecided, Held, Taken, GivenUp,
                              TypeOK, RowType, SubmitReadOnly
  <2> QED
    BY <2>1, <2>2
<1>2. ASSUME NEW r \in Requests, Submit(r) PROVE OneOwner' /\ OwnedUndecided'
  <2>1. OneOwner'
    BY <1>2, <1>0 DEF OwnerInv, OneOwner, OwnedUndecided, Held, Taken, GivenUp, TypeOK, RowType, Submit
  <2>2. OwnedUndecided'
    BY <1>2, <1>0, <1>a DEF OwnerInv, OneOwner, OwnedUndecided, Held, Taken, GivenUp, Decisions, TypeOK, WorkerType, SchedType, RowType, Submit, NewObject
  <2> QED
    BY <2>1, <2>2
<1>3. ASSUME NEW r \in Requests, NotifyRequested(r) PROVE OneOwner' /\ OwnedUndecided'
  <2>1. OneOwner'
    BY <1>3, <1>0 DEF OwnerInv, OneOwner, Taken, GivenUp, TypeOK, WorkerType, SchedType, RowType, NotifyRequested
  <2>2. OwnedUndecided'
    BY <1>3, <1>0, <1>a, LogDecisions DEF OwnerInv, OneOwner, OwnedUndecided, Held, Taken, GivenUp, Verdicts, Kinds, TypeOK, WorkerType, SchedType, RowType, NotifyRequested
  <2> QED
    BY <2>1, <2>2
<1>4. ASSUME NEW r \in Requests, RecordPending(r) PROVE OneOwner' /\ OwnedUndecided'
  <2>1. OneOwner'
    BY <1>4, <1>0 DEF OwnerInv, OneOwner, Taken, GivenUp, TypeOK, WorkerType, SchedType, RowType, RecordPending
  <2>2. OwnedUndecided'
    BY <1>4, <1>0, <1>a DEF OwnerInv, OneOwner, OwnedUndecided, Held, Taken, GivenUp, Decisions, TypeOK, WorkerType, SchedType, RowType, RecordPending
  <2> QED
    BY <2>1, <2>2
<1>5. ASSUME NEW r \in Requests, DeliverButtons(r) PROVE OneOwner' /\ OwnedUndecided'
  <2>1. OneOwner'
    BY <1>5, <1>0 DEF OwnerInv, OneOwner, Taken, GivenUp, TypeOK, WorkerType, SchedType, RowType, DeliverButtons
  <2>2. OwnedUndecided'
    BY <1>5, <1>0, <1>a DEF OwnerInv, OneOwner, OwnedUndecided, Held, Taken, GivenUp, Decisions, TypeOK, WorkerType, SchedType, RowType, DeliverButtons
  <2> QED
    BY <2>1, <2>2
<1>6. ASSUME NEW r \in Requests, RegisterFails(r) PROVE OneOwner' /\ OwnedUndecided'
  <2>1. OneOwner'
    BY <1>6, <1>0 DEF OwnerInv, OneOwner, Taken, GivenUp, TypeOK, WorkerType, SchedType, RowType, RegisterFails
  <2>2. OwnedUndecided'
    BY <1>6, <1>0, <1>a DEF OwnerInv, OneOwner, OwnedUndecided, Held, Taken, GivenUp, Decisions, TypeOK, WorkerType, SchedType, RowType, RegisterFails
  <2> QED
    BY <2>1, <2>2
<1>7. ASSUME NEW w \in Workers, NEW r \in Requests,
             NEW kind \in {"approve", "reject"}, Callback(w, r, kind)
      PROVE OneOwner' /\ OwnedUndecided'
  <2>1. OneOwner'
    BY <1>7, <1>0 DEF OwnerInv, OneOwner, Taken, GivenUp, TypeOK, WorkerType, SchedType, RowType, Callback
  <2>2. OwnedUndecided'
    BY <1>7, <1>0, <1>a DEF OwnerInv, OneOwner, OwnedUndecided, Held, Taken, GivenUp, Decisions, TypeOK, WorkerType, SchedType, RowType, Callback
  <2> QED
    BY <2>1, <2>2
<1>8. ASSUME NEW w \in Workers, Take(w) PROVE OneOwner' /\ OwnedUndecided'
  <2>1. OneOwner'
    <3>1. CASE wreq[w] \notin live
      BY <1>8, <1>0, <3>1 DEF OwnerInv, OneOwner, Taken, GivenUp, TypeOK, WorkerType, Take
    <3>2. CASE wreq[w] \in live
      <4>1. /\ live' = live \ {wreq[w]} /\ wreq' = wreq /\ spc' = spc /\ cur' = cur
            /\ wpc' = [wpc EXCEPT ![w] = "decide"]
        BY <1>8, <3>2 DEF Take
      <4>2. \A v \in Workers, q \in Requests :
               Taken(v, q)' <=> Taken(v, q) \/ (v = w /\ q = wreq[w])
        BY <1>0, <1>8, <4>1 DEF Taken, Take, TypeOK, WorkerType
      <4> QED
        BY <1>0, <3>2, <4>1, <4>2 DEF OwnerInv, OneOwner, GivenUp, TypeOK, WorkerType
    <3> QED
      BY <3>1, <3>2
  <2>2. OwnedUndecided'
    BY <1>8, <1>0, <1>a DEF OwnerInv, OneOwner, OwnedUndecided, Held, Taken, GivenUp, Decisions, TypeOK, WorkerType, SchedType, RowType, Take
  <2> QED
    BY <2>1, <2>2
<1>9. ASSUME NEW w \in Workers, Decide(w) PROVE OneOwner' /\ OwnedUndecided'
  <2>1. OneOwner'
    <3>1. \A v \in Workers, q \in Requests : Taken(v, q)' => Taken(v, q)
      BY <1>9, <1>0 DEF Taken, Decide, TypeOK, WorkerType
    <3>2. live' = live /\ spc' = spc /\ cur' = cur
      BY <1>9 DEF Decide
    <3> QED
      BY <3>1, <3>2 DEF OwnerInv, OneOwner, GivenUp
  <2>2. OwnedUndecided'
    BY SMTT(30), <1>9, <1>0, <1>a, LogDecisions DEF OwnerInv, OneOwner, OwnedUndecided, Held, Taken, GivenUp, Verdicts, Kinds, TypeOK, WorkerType, SchedType, RowType, Decide
  <2> QED
    BY <2>1, <2>2
<1>10. ASSUME NEW w \in Workers, IndexOverride(w) PROVE OneOwner' /\ OwnedUndecided'
  <2>1. OneOwner'
    BY <1>10, <1>0 DEF OwnerInv, OneOwner, Taken, GivenUp, TypeOK, WorkerType, SchedType, RowType, IndexOverride
  <2>2. OwnedUndecided'
    BY <1>10, <1>0, <1>a, LogDecisions DEF OwnerInv, OneOwner, OwnedUndecided, Held, Taken, GivenUp, Verdicts, Kinds, TypeOK, WorkerType, SchedType, RowType, IndexOverride
  <2> QED
    BY <2>1, <2>2
<1>11. ASSUME NEW w \in Workers, MarkRejected(w) PROVE OneOwner' /\ OwnedUndecided'
  <2>1. OneOwner'
    BY <1>11, <1>0 DEF OwnerInv, OneOwner, Taken, GivenUp, TypeOK, WorkerType, SchedType, RowType, MarkRejected
  <2>2. OwnedUndecided'
    BY <1>11, <1>0, <1>a DEF OwnerInv, OneOwner, OwnedUndecided, Held, Taken, GivenUp, Decisions, TypeOK, WorkerType, SchedType, RowType, MarkRejected
  <2> QED
    BY <2>1, <2>2
<1>12. ASSUME NEW w \in Workers, GetReport(w) PROVE OneOwner' /\ OwnedUndecided'
  <2>1. OneOwner'
    BY <1>12, <1>0 DEF OwnerInv, OneOwner, Taken, GivenUp, TypeOK, WorkerType, SchedType, RowType, GetReport
  <2>2. OwnedUndecided'
    BY <1>12, <1>0, <1>a DEF OwnerInv, OneOwner, OwnedUndecided, Held, Taken, GivenUp, Decisions, TypeOK, WorkerType, SchedType, RowType, GetReport
  <2> QED
    BY <2>1, <2>2
<1>13. ASSUME NEW w \in Workers, ExecuteApproved(w) PROVE OneOwner' /\ OwnedUndecided'
  <2>1. OneOwner'
    BY <1>13, <1>0 DEF OwnerInv, OneOwner, Taken, GivenUp, TypeOK, WorkerType, SchedType, RowType, ExecuteApproved
  <2>2. OwnedUndecided'
    BY <1>13, <1>0, <1>a DEF OwnerInv, OneOwner, OwnedUndecided, Held, Taken, GivenUp, Decisions, TypeOK, WorkerType, SchedType, RowType, ExecuteApproved
  <2> QED
    BY <2>1, <2>2
<1>14. ASSUME Tick PROVE OneOwner' /\ OwnedUndecided'
  <2>1. OneOwner'
    BY <1>14, <1>0 DEF OwnerInv, OneOwner, Taken, GivenUp, TypeOK, WorkerType, SchedType, RowType, Tick
  <2>2. OwnedUndecided'
    BY <1>14, <1>0, <1>a DEF OwnerInv, OneOwner, OwnedUndecided, Held, Taken, GivenUp, Decisions, TypeOK, WorkerType, SchedType, RowType, Tick
  <2> QED
    BY <2>1, <2>2
<1>15. ASSUME NEW r \in Requests, Lookup(r) PROVE OneOwner' /\ OwnedUndecided'
  <2>1. OneOwner'
    BY <1>15, <1>0 DEF OwnerInv, OneOwner, Taken, GivenUp, TypeOK, WorkerType, SchedType, RowType, Lookup, NextRow
  <2>2. OwnedUndecided'
    BY <1>15, <1>0, <1>a DEF OwnerInv, OneOwner, OwnedUndecided, Held, Taken, GivenUp, Decisions, TypeOK, WorkerType, SchedType, RowType, Lookup, NextRow
  <2> QED
    BY <2>1, <2>2
<1>16. ASSUME Expire PROVE OneOwner' /\ OwnedUndecided'
  <2>1. OneOwner'
    BY <1>16, <1>0 DEF OwnerInv, OneOwner, Taken, GivenUp, TypeOK, WorkerType, SchedType, RowType, Expire, DropTick
  <2>2. OwnedUndecided'
    BY <1>16, <1>0, <1>a DEF OwnerInv, OneOwner, OwnedUndecided, Held, Taken, GivenUp, Decisions, TypeOK, WorkerType, SchedType, RowType, Expire, DropTick
  <2> QED
    BY <2>1, <2>2
<1>17. ASSUME LogEscalated PROVE OneOwner' /\ OwnedUndecided'
  <2>1. OneOwner'
    BY <1>17, <1>0 DEF OwnerInv, OneOwner, Taken, GivenUp, TypeOK, WorkerType, SchedType, RowType, LogEscalated, NextRow
  <2>2. OwnedUndecided'
    BY <1>17, <1>0, <1>a, LogDecisions DEF OwnerInv, OneOwner, OwnedUndecided, Held, Taken, GivenUp, Verdicts, Kinds, TypeOK, WorkerType, SchedType, RowType, LogEscalated, NextRow
  <2> QED
    BY <2>1, <2>2
<1>18. ASSUME Abandon PROVE OneOwner' /\ OwnedUndecided'
  <2>1. OneOwner'
    BY <1>18, <1>0 DEF OwnerInv, OneOwner, Taken, GivenUp, TypeOK, WorkerType, SchedType, RowType, Abandon, DropTick
  <2>2. OwnedUndecided'
    BY <1>18, <1>0, <1>a DEF OwnerInv, OneOwner, OwnedUndecided, Held, Taken, GivenUp, Decisions, TypeOK, WorkerType, SchedType, RowType, Abandon, DropTick
  <2> QED
    BY <2>1, <2>2
<1>19. ASSUME LogAbandoned PROVE OneOwner' /\ OwnedUndecided'
  <2>1. OneOwner'
    BY <1>19, <1>0 DEF OwnerInv, OneOwner, Taken, GivenUp, TypeOK, WorkerType, SchedType, RowType, LogAbandoned
  <2>2. OwnedUndecided'
    BY <1>19, <1>0, <1>a, LogDecisions DEF OwnerInv, OneOwner, OwnedUndecided, Held, Taken, GivenUp, Verdicts, Kinds, TypeOK, WorkerType, SchedType, RowType, LogAbandoned
  <2> QED
    BY <2>1, <2>2
<1>20. ASSUME MarkAbandoned PROVE OneOwner' /\ OwnedUndecided'
  <2>1. OneOwner'
    BY <1>20, <1>0 DEF OwnerInv, OneOwner, Taken, GivenUp, TypeOK, WorkerType, SchedType, RowType, MarkAbandoned, NextRow
  <2>2. OwnedUndecided'
    BY <1>20, <1>0, <1>a DEF OwnerInv, OneOwner, OwnedUndecided, Held, Taken, GivenUp, Decisions, TypeOK, WorkerType, SchedType, RowType, MarkAbandoned, NextRow
  <2> QED
    BY <2>1, <2>2
<1>21. ASSUME Restart PROVE OneOwner' /\ OwnedUndecided'
  <2>1. OneOwner'
    BY <1>21, <1>0 DEF OwnerInv, OneOwner, Taken, GivenUp, TypeOK, WorkerType, SchedType, RowType, Restart, DropTick
  <2>2. OwnedUndecided'
    BY <1>21, <1>0, <1>a DEF OwnerInv, OneOwner, OwnedUndecided, Held, Taken, GivenUp, Decisions, TypeOK, WorkerType, SchedType, RowType, Restart, DropTick
  <2> QED
    BY <2>1, <2>2
<1>22. CASE UNCHANGED vars
  BY <1>22 DEF vars, OwnerInv, OneOwner, OwnedUndecided, Held, Taken, GivenUp, Decisions
<1> QED
  BY <1>1, <1>2, <1>3, <1>4, <1>5, <1>6, <1>7, <1>8, <1>9, <1>10, <1>11, <1>12, <1>13, <1>14, <1>15, <1>16, <1>17, <1>18, <1>19, <1>20, <1>21, <1>22 DEF Next, Register, Handle, Schedule

\* The owner invariant holds throughout.
\* A request is in at most one pair of hands, always.
LEMMA Owner == Spec => []OwnerInv
<1>1. Init => OneOwner /\ OwnedUndecided
  BY FlowAssumption DEF Init, OneOwner, OwnedUndecided, Held, Taken, GivenUp, Decisions, Kinds
<1> QED
  BY <1>1, TypeCorrect, OwnerStep, PTL DEF Spec, OwnerInv

\* The timeline of a request holds at most one decision, whatever threads race
\* and wherever the process dies.
THEOREM DecisionSafety == Spec => []DecidedOnce
<1>1. OwnerInv => DecidedOnce
  BY DEF OwnerInv, OwnedUndecided, DecidedOnce
<1> QED
  BY <1>1, Owner, PTL

-----------------------------------------------------------------------------
(* Who may execute.  A worker that goes on to the executor    *)
(* recorded the grant itself, and nobody else is on that way or was before: *)
(* the request was undecided while the worker held it.                      *)

RunOnce ==
  \A r \in Requests :
    /\ runs[r] <= 1
    /\ runs[r] = 1 => Occurs(r, "approval_granted")
    /\ \A w \in Workers : Runner(w, r) => runs[r] = 0 /\ Occurs(r, "approval_granted")
    /\ \A v, w \in Workers : Runner(v, r) /\ Runner(w, r) => v = w

RunInv == OwnerInv /\ RunOnce

\* A recorded event stays recorded.
LEMMA LogGrows ==
  ASSUME GateType, NEW r \in Requests, NEW kind \in Kinds, Log(r, kind)
  PROVE  \A q \in Requests : Occurs(q, "approval_granted") => Occurs(q, "approval_granted")'
BY DEF GateType, Log, Occurs, Kinds

\* A step that sends no worker to the executor, calls none and forgets no grant
\* keeps RunOnce.
LEMMA RunFrame ==
  ASSUME RunOnce, runs' = runs,
         \A v \in Workers, q \in Requests : Runner(v, q)' => Runner(v, q),
         \A q \in Requests : Occurs(q, "approval_granted") => Occurs(q, "approval_granted")'
  PROVE  RunOnce'
BY DEF RunOnce

\* Every step keeps RunOnce.
LEMMA OnceStep == RunInv /\ [Next]_vars => RunOnce'
<1> SUFFICES ASSUME RunInv, [Next]_vars PROVE RunOnce'
  OBVIOUS
<1>0. TypeOK /\ RunOnce /\ OwnerInv
  BY DEF RunInv, OwnerInv
<1>a. GateType
  BY <1>0 DEF TypeOK
<1> USE DEF gateVars, rowVars, workerVars, schedVars
<1>1. ASSUME NEW r \in Requests, SubmitReadOnly(r) PROVE RunOnce'
  <2>1. \A v \in Workers, q \in Requests : Runner(v, q)' => Runner(v, q)
    BY <1>1, <1>0 DEF SubmitReadOnly, Runner, TypeOK, WorkerType
  <2>2. runs' = runs /\ \A q \in Requests : Occurs(q, "approval_granted") => Occurs(q, "approval_granted")'
    BY <1>1, <1>0, <1>a, LogGrows DEF SubmitReadOnly, Kinds, WorkerType, SchedType, TypeOK
  <2> QED
    BY <1>0, <2>1, <2>2, RunFrame
<1>2. ASSUME NEW r \in Requests, Submit(r) PROVE RunOnce'
  <2>1. \A v \in Workers, q \in Requests : Runner(v, q)' => Runner(v, q)
    BY <1>2, <1>0 DEF Submit, Runner, TypeOK, WorkerType
  <2>2. runs' = runs /\ \A q \in Requests : Occurs(q, "approval_granted") => Occurs(q, "approval_granted")'
    BY <1>2, <1>0, <1>a DEF Submit, Occurs
  <2> QED
    BY <1>0, <2>1, <2>2, RunFrame
<1>3. ASSUME NEW r \in Requests, NotifyRequested(r) PROVE RunOnce'
  <2>1. \A v \in Workers, q \in Requests : Runner(v, q)' => Runner(v, q)
    BY <1>3, <1>0 DEF NotifyRequested, Runner, TypeOK, WorkerType
  <2>2. runs' = runs /\ \A q \in Requests : Occurs(q, "approval_granted") => Occurs(q, "approval_granted")'
    BY <1>3, <1>0, <1>a, LogGrows DEF NotifyRequested, Kinds, WorkerType, SchedType, TypeOK
  <2> QED
    BY <1>0, <2>1, <2>2, RunFrame
<1>4. ASSUME NEW r \in Requests, RecordPending(r) PROVE RunOnce'
  <2>1. \A v \in Workers, q \in Requests : Runner(v, q)' => Runner(v, q)
    BY <1>4, <1>0 DEF RecordPending, Runner, TypeOK, WorkerType
  <2>2. runs' = runs /\ \A q \in Requests : Occurs(q, "approval_granted") => Occurs(q, "approval_granted")'
    BY <1>4, <1>0, <1>a DEF RecordPending, Occurs
  <2> QED
    BY <1>0, <2>1, <2>2, RunFrame
<1>5. ASSUME NEW r \in Requests, DeliverButtons(r) PROVE RunOnce'
  <2>1. \A v \in Workers, q \in Requests : Runner(v, q)' => Runner(v, q)
    BY <1>5, <1>0 DEF DeliverButtons, Runner, TypeOK, WorkerType
  <2>2. runs' = runs /\ \A q \in Requests : Occurs(q, "approval_granted") => Occurs(q, "approval_granted")'
    BY <1>5, <1>0, <1>a DEF DeliverButtons, Occurs
  <2> QED
    BY <1>0, <2>1, <2>2, RunFrame
<1>6. ASSUME NEW r \in Requests, RegisterFails(r) PROVE RunOnce'
  <2>1. \A v \in Workers, q \in Requests : Runner(v, q)' => Runner(v, q)
    BY <1>6, <1>0 DEF RegisterFails, Runner, TypeOK, WorkerType
  <2>2. runs' = runs /\ \A q \in Requests : Occurs(q, "approval_granted") => Occurs(q, "approval_granted")'
    BY <1>6, <1>0, <1>a DEF RegisterFails, Occurs
  <2> QED
    BY <1>0, <2>1, <2>2, RunFrame
<1>7. ASSUME NEW w \in Workers, NEW r \in Requests,
             NEW kind \in {"approve", "reject"}, Callback(w, r, kind)
      PROVE RunOnce'
  <2>1. \A v \in Workers, q \in Requests : Runner(v, q)' => Runner(v, q)
    BY <1>7, <1>0 DEF Callback, Runner, TypeOK, WorkerType
  <2>2. runs' = runs /\ \A q \in Requests : Occurs(q, "approval_granted") => Occurs(q, "approval_granted")'
    BY <1>7, <1>0, <1>a DEF Callback, Occurs
  <2> QED
    BY <1>0, <2>1, <2>2, RunFrame
<1>8. ASSUME NEW w \in Workers, Take(w) PROVE RunOnce'
  <2>1. \A v \in Workers, q \in Requests : Runner(v, q)' => Runner(v, q)
    BY <1>8, <1>0 DEF Take, Runner, TypeOK, WorkerType
  <2>2. runs' = runs /\ \A q \in Requests : Occurs(q, "approval_granted") => Occurs(q, "approval_granted")'
    BY <1>8, <1>0, <1>a DEF Take, Occurs
  <2> QED
    BY <1>0, <2>1, <2>2, RunFrame
<1>9. ASSUME NEW w \in Workers, IndexOverride(w) PROVE RunOnce'
  <2>1. \A v \in Workers, q \in Requests : Runner(v, q)' => Runner(v, q)
    BY <1>9, <1>0 DEF IndexOverride, Runner, TypeOK, WorkerType
  <2>2. runs' = runs /\ \A q \in Requests : Occurs(q, "approval_granted") => Occurs(q, "approval_granted")'
    BY <1>9, <1>0, <1>a, LogGrows DEF IndexOverride, Kinds, WorkerType, SchedType, TypeOK
  <2> QED
    BY <1>0, <2>1, <2>2, RunFrame
<1>10. ASSUME NEW w \in Workers, MarkRejected(w) PROVE RunOnce'
  <2>1. \A v \in Workers, q \in Requests : Runner(v, q)' => Runner(v, q)
    BY <1>10, <1>0 DEF MarkRejected, Runner, TypeOK, WorkerType
  <2>2. runs' = runs /\ \A q \in Requests : Occurs(q, "approval_granted") => Occurs(q, "approval_granted")'
    BY <1>10, <1>0, <1>a DEF MarkRejected, Occurs
  <2> QED
    BY <1>0, <2>1, <2>2, RunFrame
<1>11. ASSUME NEW w \in Workers, GetReport(w) PROVE RunOnce'
  <2>1. \A v \in Workers, q \in Requests : Runner(v, q)' => Runner(v, q)
    BY <1>11, <1>0 DEF GetReport, Runner, TypeOK, WorkerType
  <2>2. runs' = runs /\ \A q \in Requests : Occurs(q, "approval_granted") => Occurs(q, "approval_granted")'
    BY <1>11, <1>0, <1>a DEF GetReport, Occurs
  <2> QED
    BY <1>0, <2>1, <2>2, RunFrame
<1>12. ASSUME Tick PROVE RunOnce'
  <2>1. \A v \in Workers, q \in Requests : Runner(v, q)' => Runner(v, q)
    BY <1>12, <1>0 DEF Tick, Runner, TypeOK, WorkerType
  <2>2. runs' = runs /\ \A q \in Requests : Occurs(q, "approval_granted") => Occurs(q, "approval_granted")'
    BY <1>12, <1>0, <1>a DEF Tick, Occurs
  <2> QED
    BY <1>0, <2>1, <2>2, RunFrame
<1>13. ASSUME NEW r \in Requests, Lookup(r) PROVE RunOnce'
  <2>1. \A v \in Workers, q \in Requests : Runner(v, q)' => Runner(v, q)
    BY <1>13, <1>0 DEF Lookup, Runner, TypeOK, WorkerType
  <2>2. runs' = runs /\ \A q \in Requests : Occurs(q, "approval_granted") => Occurs(q, "approval_granted")'
    BY <1>13, <1>0, <1>a DEF Lookup, Occurs
  <2> QED
    BY <1>0, <2>1, <2>2, RunFrame
<1>14. ASSUME Expire PROVE RunOnce'
  <2>1. \A v \in Workers, q \in Requests : Runner(v, q)' => Runner(v, q)
    BY <1>14, <1>0 DEF Expire, Runner, TypeOK, WorkerType
  <2>2. runs' = runs /\ \A q \in Requests : Occurs(q, "approval_granted") => Occurs(q, "approval_granted")'
    BY <1>14, <1>0, <1>a DEF Expire, Occurs
  <2> QED
    BY <1>0, <2>1, <2>2, RunFrame
<1>15. ASSUME LogEscalated PROVE RunOnce'
  <2>1. \A v \in Workers, q \in Requests : Runner(v, q)' => Runner(v, q)
    BY <1>15, <1>0 DEF LogEscalated, Runner, TypeOK, WorkerType
  <2>2. runs' = runs /\ \A q \in Requests : Occurs(q, "approval_granted") => Occurs(q, "approval_granted")'
    BY <1>15, <1>0, <1>a, LogGrows DEF LogEscalated, Kinds, WorkerType, SchedType, TypeOK
  <2> QED
    BY <1>0, <2>1, <2>2, RunFrame
<1>16. ASSUME Abandon PROVE RunOnce'
  <2>1. \A v \in Workers, q \in Requests : Runner(v, q)' => Runner(v, q)
    BY <1>16, <1>0 DEF Abandon, Runner, TypeOK, WorkerType
  <2>2. runs' = runs /\ \A q \in Requests : Occurs(q, "approval_granted") => Occurs(q, "approval_granted")'
    BY <1>16, <1>0, <1>a DEF Abandon, Occurs
  <2> QED
    BY <1>0, <2>1, <2>2, RunFrame
<1>17. ASSUME LogAbandoned PROVE RunOnce'
  <2>1. \A v \in Workers, q \in Requests : Runner(v, q)' => Runner(v, q)
    BY <1>17, <1>0 DEF LogAbandoned, Runner, TypeOK, WorkerType
  <2>2. runs' = runs /\ \A q \in Requests : Occurs(q, "approval_granted") => Occurs(q, "approval_granted")'
    BY <1>17, <1>0, <1>a, LogGrows DEF LogAbandoned, Kinds, WorkerType, SchedType, TypeOK
  <2> QED
    BY <1>0, <2>1, <2>2, RunFrame
<1>18. ASSUME MarkAbandoned PROVE RunOnce'
  <2>1. \A v \in Workers, q \in Requests : Runner(v, q)' => Runner(v, q)
    BY <1>18, <1>0 DEF MarkAbandoned, Runner, TypeOK, WorkerType
  <2>2. runs' = runs /\ \A q \in Requests : Occurs(q, "approval_granted") => Occurs(q, "approval_granted")'
    BY <1>18, <1>0, <1>a DEF MarkAbandoned, Occurs
  <2> QED
    BY <1>0, <2>1, <2>2, RunFrame
<1>19. ASSUME Restart PROVE RunOnce'
  <2>1. \A v \in Workers, q \in Requests : Runner(v, q)' => Runner(v, q)
    BY <1>19, <1>0 DEF Restart, Runner, TypeOK, WorkerType
  <2>2. runs' = runs /\ \A q \in Requests : Occurs(q, "approval_granted") => Occurs(q, "approval_granted")'
    BY <1>19, <1>0, <1>a DEF Restart, Occurs
  <2> QED
    BY <1>0, <2>1, <2>2, RunFrame
<1>20. ASSUME NEW w \in Workers, Decide(w) PROVE RunOnce'
  <2>1. wreq[w] \in Requests /\ Taken(w, wreq[w])
    BY <1>20, <1>0 DEF Decide, Taken, TypeOK, WorkerType
  <2>2. Decisions(wreq[w]) = 0
    BY <1>0, <2>1 DEF OwnerInv, OwnedUndecided, Held
  <2>3. ~Occurs(wreq[w], "approval_granted")
    BY <2>1, <2>2, <1>a DEF GateType, Kinds, Decisions, Occurs
  <2>4. runs[wreq[w]] = 0 /\ \A v \in Workers : ~Runner(v, wreq[w])
    BY <1>0, <2>1, <2>3 DEF RunOnce, TypeOK, WorkerType
  <2>5. runs' = runs /\ \A q \in Requests : Occurs(q, "approval_granted") => Occurs(q, "approval_granted")'
    BY <1>20, <1>0, <1>a, LogGrows DEF Decide, Kinds, TypeOK, WorkerType
  <2>6. CASE wkind[w] = "reject"
    <3>1. \A v \in Workers, q \in Requests : Runner(v, q)' => Runner(v, q)
      BY <1>20, <1>0, <2>6 DEF Decide, Runner, TypeOK, WorkerType
    <3> QED
      BY <1>0, <2>5, <3>1, RunFrame
  <2>7. CASE wkind[w] = "approve"
    <3>1. \A v \in Workers, q \in Requests :
             Runner(v, q)' => Runner(v, q) \/ (v = w /\ q = wreq[w])
      BY <1>20, <1>0, <2>7 DEF Decide, Runner, TypeOK, WorkerType
    <3>2. \A q \in Requests : q = wreq[w] => Occurs(q, "approval_granted")'
      BY <1>20, <1>a, <2>1, <2>7 DEF Decide, Log, GateType, Kinds, Occurs
    <3> QED
      BY <1>0, <2>4, <2>5, <3>1, <3>2 DEF RunOnce
  <2> QED
    BY <1>20, <2>6, <2>7 DEF Decide
<1>21. ASSUME NEW w \in Workers, ExecuteApproved(w) PROVE RunOnce'
  <2>1. /\ wreq[w] \in Requests /\ Runner(w, wreq[w])
        /\ trail' = trail
        /\ runs' = runs \/ runs' = [runs EXCEPT ![wreq[w]] = @ + 1]
    BY <1>21, <1>0 DEF ExecuteApproved, Runner, TypeOK, WorkerType
  <2>2. \A v \in Workers, q \in Requests : Runner(v, q)' <=> Runner(v, q) /\ v # w
    BY <1>21, <1>0 DEF ExecuteApproved, Runner, TypeOK, WorkerType
  <2> QED
    BY <1>0, <2>1, <2>2 DEF RunOnce, Occurs, TypeOK, WorkerType
<1>22. CASE UNCHANGED vars
  BY <1>0, <1>22 DEF vars, RunOnce, Runner, Occurs
<1> QED
  BY <1>1, <1>2, <1>3, <1>4, <1>5, <1>6, <1>7, <1>8, <1>9, <1>10, <1>11, <1>12, <1>13, <1>14, <1>15, <1>16, <1>17, <1>18, <1>19, <1>20, <1>21, <1>22 DEF Next, Register, Handle, Schedule

\* A runner call follows the worker's own grant, once.
LEMMA RunAlways == Spec => []RunOnce
<1>1. Init => RunOnce
  BY FlowAssumption DEF Init, RunOnce, Runner, Occurs, Kinds
<1> QED
  BY <1>1, Owner, OnceStep, PTL DEF Spec, RunInv

\* The executor is called at most once for a request, after its grant, and never
\* for one that was rejected or abandoned.
THEOREM ExecutionSafety == Spec => []ExecutedWasGranted
<1>1. RunInv => ExecutedWasGranted
  <2> SUFFICES ASSUME RunInv, NEW r \in Requests, runs[r] > 0
               PROVE  /\ runs[r] = 1
                      /\ Occurs(r, "approval_granted")
                      /\ ~Occurs(r, "approval_rejected") /\ ~Occurs(r, "approval_abandoned")
    BY DEF ExecutedWasGranted
  <2>1. runs[r] = 1 /\ Occurs(r, "approval_granted") /\ Decisions(r) <= 1 /\ GateType
    BY DEF RunInv, OwnerInv, OwnedUndecided, RunOnce, TypeOK, WorkerType
  <2> QED
    BY <2>1 DEF Occurs, Decisions, GateType, Kinds
<1> QED
  BY <1>1, RunAlways, Owner, PTL DEF RunInv

-----------------------------------------------------------------------------
(* Who was reminded.  With a notifier that works, every timeout an   *)
(* object counted is a reminder in the timeline, except the one in progress. *)

RemindersBehind ==
  \A r \in Requests :
    /\ /\ r \in live \/ (cur = r /\ spc = "expire")
       /\ ~(cur = r /\ spc \in {"escalated", "abandon"})
       => obj[r].target <= obj[r].timeouts /\ obj[r].timeouts <= trail[r]["approval_escalated"]
    /\ cur = r /\ spc = "escalated" =>
         /\ obj[r].target <= obj[r].timeouts
         /\ obj[r].timeouts <= trail[r]["approval_escalated"] + 1
    /\ cur = r /\ spc \in {"abandon", "abandoned"} =>
         trail[r]["approval_escalated"] >= Reminders
    /\ Occurs(r, "approval_abandoned") => trail[r]["approval_escalated"] >= Reminders

\* What an event does to the counts RemindersBehind speaks of.
LEMMA LogReminders ==
  ASSUME GateType, NEW r \in Requests, NEW kind \in Kinds, Log(r, kind), NEW q \in Requests
  PROVE  /\ trail[q]["approval_escalated"] \in Nat
         /\ trail'[q]["approval_escalated"] = trail[q]["approval_escalated"]
              + (IF q = r /\ kind = "approval_escalated" THEN 1 ELSE 0)
         /\ Occurs(q, "approval_abandoned")'
              <=> Occurs(q, "approval_abandoned") \/ (q = r /\ kind = "approval_abandoned")
BY DEF GateType, Log, Kinds, Occurs

\* Every step keeps RemindersBehind, if the notifier does not raise.
LEMMA RemindStep ==
  ASSUME NotifierFails = FALSE
  PROVE  TypeOK /\ RemindersBehind /\ [Next]_vars => RemindersBehind'
<1> SUFFICES ASSUME TypeOK, RemindersBehind, [Next]_vars PROVE RemindersBehind'
  OBVIOUS
<1>a. GateType /\ WorkerType /\ SchedType
  BY DEF TypeOK
<1>b. \A r \in Requests : /\ obj[r].timeouts \in Nat /\ obj[r].target \in 0..LastTarget
                          /\ trail[r]["approval_escalated"] \in Nat
  BY <1>a DEF GateType, Kinds
<1>c. LastTarget \in Nat /\ Reminders \in Nat /\ (LastTarget = 0 => Reminders = 1)
      /\ (LastTarget # 0 => Reminders = LastTarget)
  BY FlowAssumption DEF Reminders
<1> USE DEF gateVars, rowVars, workerVars, schedVars
<1>1. ASSUME NEW r \in Requests, SubmitReadOnly(r) PROVE RemindersBehind'
  BY <1>1, <1>a, <1>b, <1>c, LogReminders DEF RemindersBehind, WorkerType, SchedType, Kinds, SubmitReadOnly
<1>2. ASSUME NEW r \in Requests, Submit(r) PROVE RemindersBehind'
  BY <1>2, <1>a, <1>b, <1>c DEF RemindersBehind, Occurs, GateType, WorkerType, SchedType, Submit, NewObject
<1>3. ASSUME NEW r \in Requests, NotifyRequested(r) PROVE RemindersBehind'
  BY <1>3, <1>a, <1>b, <1>c, LogReminders DEF RemindersBehind, WorkerType, SchedType, Kinds, NotifyRequested
<1>4. ASSUME NEW r \in Requests, RecordPending(r) PROVE RemindersBehind'
  BY <1>4, <1>a, <1>b, <1>c DEF RemindersBehind, Occurs, GateType, WorkerType, SchedType, RecordPending
<1>5. ASSUME NEW r \in Requests, DeliverButtons(r) PROVE RemindersBehind'
  BY <1>5, <1>a, <1>b, <1>c DEF RemindersBehind, Occurs, GateType, WorkerType, SchedType, DeliverButtons
<1>6. ASSUME NEW r \in Requests, RegisterFails(r) PROVE RemindersBehind'
  BY <1>6, <1>a, <1>b, <1>c DEF RemindersBehind, Occurs, GateType, WorkerType, SchedType, RegisterFails
<1>7. ASSUME NEW w \in Workers, NEW r \in Requests,
             NEW kind \in {"approve", "reject"}, Callback(w, r, kind)
      PROVE RemindersBehind'
  BY <1>7, <1>a, <1>b, <1>c DEF RemindersBehind, Occurs, GateType, WorkerType, SchedType, Callback
<1>8. ASSUME NEW w \in Workers, Take(w) PROVE RemindersBehind'
  <2>1. live' \subseteq live /\ UNCHANGED <<trail, spc, cur>>
    BY <1>8 DEF Take
  <2>2. \A r \in Requests : obj'[r].timeouts = obj[r].timeouts /\ obj'[r].target = obj[r].target
    BY <1>8, <1>a DEF Take, GateType
  <2> QED
    BY <2>1, <2>2 DEF RemindersBehind, Occurs
<1>9. ASSUME NEW w \in Workers, Decide(w) PROVE RemindersBehind'
  BY <1>9, <1>a, <1>b, <1>c, LogReminders DEF RemindersBehind, WorkerType, SchedType, Kinds, Decide
<1>10. ASSUME NEW w \in Workers, IndexOverride(w) PROVE RemindersBehind'
  BY <1>10, <1>a, <1>b, <1>c, LogReminders DEF RemindersBehind, WorkerType, SchedType, Kinds, IndexOverride
<1>11. ASSUME NEW w \in Workers, MarkRejected(w) PROVE RemindersBehind'
  BY <1>11, <1>a, <1>b, <1>c DEF RemindersBehind, Occurs, GateType, WorkerType, SchedType, MarkRejected
<1>12. ASSUME NEW w \in Workers, GetReport(w) PROVE RemindersBehind'
  BY <1>12, <1>a, <1>b, <1>c DEF RemindersBehind, Occurs, GateType, WorkerType, SchedType, GetReport
<1>13. ASSUME NEW w \in Workers, ExecuteApproved(w) PROVE RemindersBehind'
  BY <1>13, <1>a, <1>b, <1>c DEF RemindersBehind, Occurs, GateType, WorkerType, SchedType, ExecuteApproved
<1>14. ASSUME Tick PROVE RemindersBehind'
  BY <1>14, <1>a, <1>b, <1>c DEF RemindersBehind, Occurs, GateType, WorkerType, SchedType, Tick
<1>15. ASSUME NEW r \in Requests, Lookup(r) PROVE RemindersBehind'
  BY <1>15, <1>a, <1>b, <1>c DEF RemindersBehind, Occurs, GateType, WorkerType, SchedType, Lookup, NextRow
<1>16. ASSUME Expire PROVE RemindersBehind'
  BY <1>16, <1>a, <1>b, <1>c DEF RemindersBehind, Occurs, GateType, WorkerType, SchedType, Expire, DropTick
<1>17. ASSUME LogEscalated PROVE RemindersBehind'
  BY <1>17, <1>a, <1>b, <1>c, LogReminders DEF RemindersBehind, WorkerType, SchedType, Kinds, LogEscalated, NextRow
<1>18. ASSUME Abandon PROVE RemindersBehind'
  BY <1>18, <1>a, <1>b, <1>c DEF RemindersBehind, Occurs, GateType, WorkerType, SchedType, Abandon, DropTick
<1>19. ASSUME LogAbandoned PROVE RemindersBehind'
  BY <1>19, <1>a, <1>b, <1>c, LogReminders DEF RemindersBehind, WorkerType, SchedType, Kinds, LogAbandoned
<1>20. ASSUME MarkAbandoned PROVE RemindersBehind'
  BY <1>20, <1>a, <1>b, <1>c DEF RemindersBehind, Occurs, GateType, WorkerType, SchedType, MarkAbandoned, NextRow
<1>21. ASSUME Restart PROVE RemindersBehind'
  BY <1>21, <1>a, <1>b, <1>c DEF RemindersBehind, Occurs, GateType, WorkerType, SchedType, Restart, DropTick
<1>22. CASE UNCHANGED vars
  BY <1>22 DEF vars, RemindersBehind, Occurs
<1> QED
  BY <1>1, <1>2, <1>3, <1>4, <1>5, <1>6, <1>7, <1>8, <1>9, <1>10, <1>11, <1>12, <1>13, <1>14, <1>15, <1>16, <1>17, <1>18, <1>19, <1>20, <1>21, <1>22 DEF Next, Register, Handle, Schedule

\* Reminders keep up with the timeouts an object counted.
LEMMA Reminding ==
  ASSUME NotifierFails = FALSE
  PROVE  Spec => []RemindersBehind
<1>1. Init => RemindersBehind
  BY FlowAssumption DEF Init, RemindersBehind, Occurs, Kinds
<1>2. TypeOK /\ RemindersBehind /\ [Next]_vars => RemindersBehind'
  BY RemindStep
<1> QED
  BY <1>1, <1>2, TypeCorrect, PTL DEF Spec

\* With a working notifier, nobody in the escalation chain is left out before a
\* request is abandoned, however long the chain is.
THEOREM ReminderSafety ==
  ASSUME NotifierFails = FALSE
  PROVE  Spec => []WholeChainReminded
<1>1. RemindersBehind => WholeChainReminded
  BY DEF RemindersBehind, WholeChainReminded
<1> QED
  BY <1>1, Reminding, PTL

-----------------------------------------------------------------------------
(* The interleaving of threads implements the contract: an event that is a  *)
(* decision settles the request, a reminder is a reminder, the call of the   *)
(* runner is a run, and every other step is none of the contract's business. *)

ContractInv == OwnerInv /\ RunOnce /\ RemindersBehind

\* A step that records no event and calls no runner is invisible.
LEMMA Unseen ==
  ASSUME UNCHANGED <<trail, runs>>
  PROVE  UNCHANGED Contract!cvars
BY DEF Contract!cvars, Decision, Occurs

\* A function that differs from another by one at one place.
LEMMA Bump ==
  ASSUME NEW S, NEW r \in S, NEW f \in [S -> Nat], NEW g \in [S -> Nat],
         \A q \in S : g[q] = f[q] + (IF q = r THEN 1 ELSE 0)
  PROVE  g = [f EXCEPT ![r] = f[r] + 1]
OBVIOUS

\* What recording an event is, seen from the contract.
LEMMA Seen ==
  ASSUME GateType, NEW r \in Requests, NEW kind \in Kinds, Log(r, kind), runs' = runs
  PROVE  /\ kind \notin Verdicts \cup {"approval_escalated"} => UNCHANGED Contract!cvars
         /\ kind = "approval_escalated" => Contract!Remind(r)
         /\ kind = "approval_granted" /\ Decisions(r) = 0 => Contract!Grant(r)
         /\ kind = "approval_rejected" /\ Decisions(r) = 0 => Contract!Reject(r)
         /\ kind = "approval_abandoned" /\ Decisions(r) = 0
              /\ trail[r]["approval_escalated"] >= Reminders => Contract!GiveUp(r)
<1>1. \A q \in Requests, k \in Kinds :
        /\ trail[q][k] \in Nat
        /\ trail'[q][k] = trail[q][k] + (IF q = r /\ k = kind THEN 1 ELSE 0)
  BY DEF GateType, Log
<1>2. \A q \in Requests : q # r \/ kind \notin Verdicts => Decision(q)' = Decision(q)
  BY <1>1 DEF Decision, Occurs, Verdicts, Kinds
<1>3. Decisions(r) = 0 => Decision(r) = "open"
  BY <1>1 DEF Decision, Decisions, Occurs, Kinds
<1>4. Decisions(r) = 0 /\ kind \in Verdicts =>
        Decision(r)' = IF kind = "approval_granted" THEN "granted"
                       ELSE IF kind = "approval_rejected" THEN "rejected" ELSE "abandoned"
  <2> SUFFICES ASSUME Decisions(r) = 0, kind \in Verdicts
               PROVE  Decision(r)' = IF kind = "approval_granted" THEN "granted"
                        ELSE IF kind = "approval_rejected" THEN "rejected" ELSE "abandoned"
    OBVIOUS
  <2>1. \A k \in Verdicts : trail[r][k] = 0
    <3>1. /\ trail[r]["approval_granted"] \in Nat /\ trail[r]["approval_rejected"] \in Nat
          /\ trail[r]["approval_abandoned"] \in Nat
      BY <1>1 DEF Kinds
    <3>2. /\ trail[r]["approval_granted"] = 0 /\ trail[r]["approval_rejected"] = 0
          /\ trail[r]["approval_abandoned"] = 0
      BY <3>1 DEF Decisions
    <3> QED
      BY <3>2 DEF Verdicts
  <2>2. \A k \in Verdicts : Occurs(r, k)' <=> k = kind
    BY <1>1, <2>1 DEF Occurs, Verdicts, Kinds
  <2> QED
    BY <2>2 DEF Decision, Verdicts
<1>5. kind # "approval_escalated" =>
        [q \in Requests |-> trail[q]["approval_escalated"]]'
          = [q \in Requests |-> trail[q]["approval_escalated"]]
  BY <1>1 DEF Kinds
<1>6. kind = "approval_escalated" => Contract!Remind(r)
  <2> SUFFICES ASSUME kind = "approval_escalated" PROVE Contract!Remind(r)
    OBVIOUS
  <2>1. [q \in Requests |-> Decision(q)]' = [q \in Requests |-> Decision(q)]
    BY <1>2 DEF Verdicts
  <2>2. \A q \in Requests : trail'[q]["approval_escalated"]
          = trail[q]["approval_escalated"] + (IF q = r THEN 1 ELSE 0)
    BY <1>1 DEF Kinds
  <2>3. \A q \in Requests : trail[q]["approval_escalated"] \in Nat
    BY <1>1 DEF Kinds
  <2>4. [q \in Requests |-> trail[q]["approval_escalated"]]'
          = [[q \in Requests |-> trail[q]["approval_escalated"]] EXCEPT
               ![r] = [q \in Requests |-> trail[q]["approval_escalated"]][r] + 1]
    <3> DEFINE sent == [q \in Requests |-> trail[q]["approval_escalated"]]
               sentNext == [q \in Requests |-> trail'[q]["approval_escalated"]]
    <3>1. /\ sent \in [Requests -> Nat] /\ sentNext \in [Requests -> Nat]
          /\ \A q \in Requests : sentNext[q] = sent[q] + (IF q = r THEN 1 ELSE 0)
      BY <2>2, <2>3
    <3>2. sentNext = [sent EXCEPT ![r] = sent[r] + 1]
      <4> HIDE DEF sent, sentNext
      <4> QED
        BY <3>1, Bump
    <3> QED
      BY <3>2
  <2> QED
    BY <2>1, <2>4 DEF Contract!Remind
<1>7. kind \notin Verdicts \cup {"approval_escalated"} => UNCHANGED Contract!cvars
  BY <1>2, <1>5 DEF Contract!cvars
<1>8. ASSUME Decisions(r) = 0, kind \in Verdicts, NEW verdict, verdict = Decision(r)'
      PROVE Contract!Settle(r, verdict)
  BY <1>2, <1>3, <1>5, <1>8 DEF Contract!Settle, Verdicts
<1>9. kind = "approval_granted" /\ Decisions(r) = 0 => Contract!Grant(r)
  BY <1>4, <1>8 DEF Contract!Grant, Verdicts
<1>10. kind = "approval_rejected" /\ Decisions(r) = 0 => Contract!Reject(r)
  BY <1>4, <1>8 DEF Contract!Reject, Verdicts
<1>11. kind = "approval_abandoned" /\ Decisions(r) = 0
         /\ trail[r]["approval_escalated"] >= Reminders => Contract!GiveUp(r)
  BY <1>4, <1>8 DEF Contract!GiveUp, Verdicts
<1> QED
  BY <1>6, <1>7, <1>9, <1>10, <1>11

\* Every step is a step of the contract or leaves its state alone.
LEMMA ContractStep ==
  ASSUME ContractInv, [Next]_vars
  PROVE  Contract!Next \/ UNCHANGED Contract!cvars
<1>0. TypeOK /\ OwnerInv /\ RunOnce /\ RemindersBehind
  BY DEF ContractInv, OwnerInv
<1>a. GateType /\ WorkerType /\ SchedType
  BY <1>0 DEF TypeOK
<1> USE DEF gateVars, rowVars, workerVars, schedVars
<1> DEFINE Goal == Contract!Next \/ UNCHANGED Contract!cvars
<1>1. ASSUME NEW r \in Requests, SubmitReadOnly(r) PROVE Goal
  BY <1>1, <1>a, Seen DEF SubmitReadOnly, Kinds, Verdicts
<1>2. ASSUME NEW r \in Requests, NotifyRequested(r) PROVE Goal
  BY <1>2, <1>a, Seen DEF NotifyRequested, Kinds, Verdicts
<1>3. ASSUME NEW w \in Workers, IndexOverride(w) PROVE Goal
  BY <1>3, <1>a, Seen DEF IndexOverride, Kinds, Verdicts, WorkerType
<1>4. ASSUME LogEscalated PROVE Goal
  BY <1>4, <1>a, Seen DEF LogEscalated, Kinds, SchedType, Contract!Next
<1>5. ASSUME LogAbandoned PROVE Goal
  <2>1. Decisions(cur) = 0 /\ trail[cur]["approval_escalated"] >= Reminders
    BY <1>5, <1>0, <1>a DEF LogAbandoned, OwnerInv, OwnedUndecided, Held, GivenUp, RemindersBehind, SchedType
  <2> QED
    BY <1>5, <1>a, <2>1, Seen DEF LogAbandoned, Kinds, SchedType, Contract!Next
<1>6. ASSUME NEW w \in Workers, Decide(w) PROVE Goal
  <2>1. wreq[w] \in Requests /\ Decisions(wreq[w]) = 0
    BY <1>6, <1>0, <1>a DEF Decide, OwnerInv, OwnedUndecided, Held, Taken, WorkerType
  <2> QED
    BY <1>6, <1>a, <2>1, Seen DEF Decide, Kinds, Contract!Next
<1>7. ASSUME NEW w \in Workers, ExecuteApproved(w) PROVE Goal
  <2>1. wreq[w] \in Requests /\ runs[wreq[w]] = 0 /\ Occurs(wreq[w], "approval_granted")
    BY <1>7, <1>0, <1>a DEF ExecuteApproved, RunOnce, Runner, WorkerType
  <2>2. CASE runs' = runs
    BY <1>7, <2>2, Unseen DEF ExecuteApproved
  <2>3. CASE runs' = [runs EXCEPT ![wreq[w]] = @ + 1]
    <3>1. UNCHANGED trail
      BY <1>7 DEF ExecuteApproved
    <3>2. [q \in Requests |-> Decision(q)]' = [q \in Requests |-> Decision(q)]
      BY <3>1 DEF Decision, Occurs
    <3>3. Decision(wreq[w]) = "granted"
      BY <2>1 DEF Decision
    <3>4. runs' = [runs EXCEPT ![wreq[w]] = 1]
      BY <2>1, <2>3, <1>a DEF WorkerType
    <3>5. Contract!Run(wreq[w])
      BY <2>1, <3>1, <3>2, <3>3, <3>4 DEF Contract!Run
    <3> QED
      BY <2>1, <3>5 DEF Contract!Next
  <2> QED
    BY <1>7, <2>2, <2>3 DEF ExecuteApproved
<1>8. ASSUME NEW r \in Requests, Submit(r) PROVE Goal
  BY <1>8, Unseen DEF Submit
<1>9. ASSUME NEW r \in Requests, RecordPending(r) PROVE Goal
  BY <1>9, Unseen DEF RecordPending
<1>10. ASSUME NEW r \in Requests, DeliverButtons(r) PROVE Goal
  BY <1>10, Unseen DEF DeliverButtons
<1>11. ASSUME NEW r \in Requests, RegisterFails(r) PROVE Goal
  BY <1>11, Unseen DEF RegisterFails
<1>12. ASSUME NEW r \in Requests, Lookup(r) PROVE Goal
  BY <1>12, Unseen DEF Lookup
<1>13. ASSUME NEW w \in Workers, NEW r \in Requests,
             NEW kind \in {"approve", "reject"}, Callback(w, r, kind)
      PROVE Goal
  BY <1>13, Unseen DEF Callback
<1>14. ASSUME NEW w \in Workers, Take(w) PROVE Goal
  BY <1>14, Unseen DEF Take
<1>15. ASSUME NEW w \in Workers, MarkRejected(w) PROVE Goal
  BY <1>15, Unseen DEF MarkRejected
<1>16. ASSUME NEW w \in Workers, GetReport(w) PROVE Goal
  BY <1>16, Unseen DEF GetReport
<1>17. ASSUME Tick PROVE Goal
  BY <1>17, Unseen DEF Tick
<1>18. ASSUME Expire PROVE Goal
  BY <1>18, Unseen DEF Expire
<1>19. ASSUME Abandon PROVE Goal
  BY <1>19, Unseen DEF Abandon
<1>20. ASSUME MarkAbandoned PROVE Goal
  BY <1>20, Unseen DEF MarkAbandoned
<1>21. ASSUME Restart PROVE Goal
  BY <1>21, Unseen DEF Restart
<1>22. CASE UNCHANGED vars
  BY <1>22, Unseen DEF vars
<1> QED
  BY <1>1, <1>2, <1>3, <1>4, <1>5, <1>6, <1>7, <1>8, <1>9, <1>10, <1>11, <1>12, <1>13, <1>14, <1>15, <1>16, <1>17, <1>18, <1>19, <1>20, <1>21, <1>22 DEF Next, Register, Handle, Schedule

\* With a notifier that works, the gate, the orchestrator and the scheduler
\* together implement the contract of an approval, for every number of requests,
\* threads, callbacks and crashes.
THEOREM ContractMet ==
  ASSUME NotifierFails = FALSE
  PROVE  Spec => MeetsContract
<1>1. Init => Contract!Init
  BY DEF Init, Contract!Init, Decision, Occurs, Kinds
<1>2. ContractInv /\ [Next]_vars => [Contract!Next]_Contract!cvars
  BY ContractStep
<1>3. Spec => []ContractInv
  <2>1. Spec => []OwnerInv
    BY Owner
  <2>2. Spec => []RemindersBehind
    BY Reminding
  <2>3. Spec => []RunOnce
    BY RunAlways
  <2> QED
    BY <2>1, <2>2, <2>3, PTL DEF ContractInv
<1> QED
  BY <1>1, <1>2, <1>3, PTL DEF Spec, MeetsContract, Contract!Spec

-----------------------------------------------------------------------------
(* The daemon: the table and the memory.                                   *)

\* How far a registration came says what the gate and the table know of the
\* request; an entry that the table no longer offers met a stale reject.
Registered ==
  \A r \in Requests :
    /\ reg[r] \in {"idle", "auto"} => r \notin live /\ row[r] = "none"
    /\ reg[r] \in {"submitted", "requested"} => r \in live /\ row[r] = "none"
    /\ r \in live /\ reg[r] \in {"recorded", "offered"} =>
         row[r] = "pending" \/ (row[r] = "rejected" /\ obj[r].state # "pending")

\* Who handles a request handles one whose registration made its row.
HandlesKnown ==
  /\ \A w \in Workers : wpc[w] # "idle" => reg[wreq[w]] = "offered"
  /\ \A r \in due : reg[r] \in {"recorded", "offered", "failed"}
  /\ spc \in {"expire", "escalated", "abandon", "abandoned", "closerow"} =>
       reg[cur] \in {"recorded", "offered", "failed"}

\* A thread that is about to close a row either took the request out of
\* _pending, or is the reject of a request that was escalated meanwhile.
ClosesGone ==
  /\ \A w \in Workers :
       /\ wpc[w] \in {"decide", "report", "execute", "index"} => wreq[w] \notin live
       /\ wpc[w] = "close" => wreq[w] \notin live \/ obj[wreq[w]].state # "pending"
  /\ spc \in {"abandoned", "closerow"} => cur \notin live

\* A pending row without an entry in memory is decided, being decided, or left
\* by a death of the process.
OrphanExplained ==
  \A r \in Requests : r \notin live /\ row[r] = "pending" =>
    \/ Decisions(r) > 0 \/ crashes > 0
    \/ \E w \in Workers : wreq[w] = r /\ wpc[w] = "decide"
    \/ cur = r /\ spc = "abandoned"

TableInv == TypeOK /\ Registered /\ HandlesKnown /\ ClosesGone /\ OrphanExplained

-----------------------------------------------------------------------------
(* The steps on the table.                                                 *)

\* A recorded decision stays recorded, and a decision recorded now is one.
LEMMA LogDecides ==
  ASSUME GateType, NEW r \in Requests, NEW kind \in Kinds, Log(r, kind), NEW q \in Requests
  PROVE  /\ Decisions(q) > 0 => Decisions(q)' > 0
         /\ q = r /\ kind \in Verdicts => Decisions(q)' > 0
BY LogDecisions

\* Every step of the approvals keeps table and memory together.
LEMMA TableStep == TableInv /\ [Next]_vars => TableInv'
<1> SUFFICES ASSUME TableInv, [Next]_vars
             PROVE  Registered' /\ HandlesKnown' /\ ClosesGone' /\ OrphanExplained'
  BY TypeStep DEF TableInv
<1> DEFINE Goal == Registered' /\ HandlesKnown' /\ ClosesGone' /\ OrphanExplained'
<1>0. /\ TypeOK /\ GateType /\ RowType /\ WorkerType /\ SchedType
      /\ Registered /\ HandlesKnown /\ ClosesGone /\ OrphanExplained
  BY DEF TableInv, TypeOK
<1> USE DEF gateVars, rowVars, workerVars, schedVars
<1>1. ASSUME NEW r \in Requests, SubmitReadOnly(r) PROVE Goal
  <2>1. Registered'
    BY <1>0, <1>1 DEF Registered, SubmitReadOnly, Log
  <2>2. HandlesKnown'
    BY <1>0, <1>1 DEF Registered, HandlesKnown, RowType, WorkerType, SchedType, SubmitReadOnly
  <2>3. ClosesGone'
    BY <1>0, <1>1 DEF Registered, HandlesKnown, ClosesGone, GateType, RowType, WorkerType, SchedType, SubmitReadOnly
  <2>4. OrphanExplained'
    BY <1>0, <1>1, LogDecides DEF OrphanExplained, Registered, WorkerType, SchedType, Kinds, Verdicts, SubmitReadOnly
  <2> QED
    BY <2>1, <2>2, <2>3, <2>4
<1>2. ASSUME NEW r \in Requests, Submit(r) PROVE Goal
  <2>1. Registered'
    BY <1>0, <1>2 DEF Registered, RowType, Submit, NewObject
  <2>2. HandlesKnown'
    BY <1>0, <1>2 DEF Registered, HandlesKnown, RowType, WorkerType, SchedType, Submit, NewObject
  <2>3. ClosesGone'
    BY <1>0, <1>2 DEF Registered, HandlesKnown, ClosesGone, GateType, RowType, WorkerType, SchedType, Submit, NewObject
  <2>4. OrphanExplained'
    BY <1>0, <1>2 DEF OrphanExplained, Registered, HandlesKnown, Decisions, RowType, WorkerType, SchedType, Submit, NewObject
  <2> QED
    BY <2>1, <2>2, <2>3, <2>4
<1>3. ASSUME NEW r \in Requests, NotifyRequested(r) PROVE Goal
  <2>1. Registered'
    BY <1>0, <1>3 DEF Registered, NotifyRequested, Log
  <2>2. HandlesKnown'
    BY <1>0, <1>3 DEF Registered, HandlesKnown, RowType, WorkerType, SchedType, NotifyRequested
  <2>3. ClosesGone'
    BY <1>0, <1>3 DEF Registered, HandlesKnown, ClosesGone, GateType, RowType, WorkerType, SchedType, NotifyRequested
  <2>4. OrphanExplained'
    BY <1>0, <1>3, LogDecides DEF OrphanExplained, Registered, WorkerType, SchedType, Kinds, Verdicts, NotifyRequested
  <2> QED
    BY <2>1, <2>2, <2>3, <2>4
<1>4. ASSUME NEW r \in Requests, RecordPending(r) PROVE Goal
  <2>1. Registered'
    BY <1>0, <1>4 DEF Registered, HandlesKnown, ClosesGone, GateType, RowType, WorkerType, SchedType, RecordPending
  <2>2. HandlesKnown'
    BY <1>0, <1>4 DEF Registered, HandlesKnown, RowType, WorkerType, SchedType, RecordPending
  <2>3. ClosesGone'
    BY <1>0, <1>4 DEF Registered, HandlesKnown, ClosesGone, GateType, RowType, WorkerType, SchedType, RecordPending
  <2>4. OrphanExplained'
    BY <1>0, <1>4 DEF OrphanExplained, Registered, HandlesKnown, Decisions, RowType, WorkerType, SchedType, RecordPending
  <2> QED
    BY <2>1, <2>2, <2>3, <2>4
<1>5. ASSUME NEW r \in Requests, DeliverButtons(r) PROVE Goal
  <2>1. Registered'
    BY <1>0, <1>5 DEF Registered, HandlesKnown, ClosesGone, GateType, RowType, WorkerType, SchedType, DeliverButtons
  <2>2. HandlesKnown'
    BY <1>0, <1>5 DEF Registered, HandlesKnown, RowType, WorkerType, SchedType, DeliverButtons
  <2>3. ClosesGone'
    BY <1>0, <1>5 DEF Registered, HandlesKnown, ClosesGone, GateType, RowType, WorkerType, SchedType, DeliverButtons
  <2>4. OrphanExplained'
    BY <1>0, <1>5 DEF OrphanExplained, Registered, HandlesKnown, Decisions, RowType, WorkerType, SchedType, DeliverButtons
  <2> QED
    BY <2>1, <2>2, <2>3, <2>4
<1>6. ASSUME NEW r \in Requests, RegisterFails(r) PROVE Goal
  <2>1. Registered'
    BY <1>0, <1>6 DEF Registered, HandlesKnown, ClosesGone, GateType, RowType, WorkerType, SchedType, RegisterFails
  <2>2. HandlesKnown'
    BY <1>0, <1>6 DEF Registered, HandlesKnown, RowType, WorkerType, SchedType, RegisterFails
  <2>3. ClosesGone'
    BY <1>0, <1>6 DEF Registered, HandlesKnown, ClosesGone, GateType, RowType, WorkerType, SchedType, RegisterFails
  <2>4. OrphanExplained'
    BY <1>0, <1>6 DEF OrphanExplained, Registered, HandlesKnown, Decisions, RowType, WorkerType, SchedType, RegisterFails
  <2> QED
    BY <2>1, <2>2, <2>3, <2>4
<1>7. ASSUME NEW w \in Workers, NEW r \in Requests,
             NEW kind \in {"approve", "reject"}, Callback(w, r, kind) PROVE Goal
  <2>1. Registered'
    BY <1>0, <1>7 DEF Registered, HandlesKnown, ClosesGone, GateType, RowType, WorkerType, SchedType, Callback
  <2>2. HandlesKnown'
    BY <1>0, <1>7 DEF Registered, HandlesKnown, RowType, WorkerType, SchedType, Callback
  <2>3. ClosesGone'
    BY <1>0, <1>7 DEF ClosesGone, WorkerType, Callback
  <2>4. OrphanExplained'
    BY <1>0, <1>7 DEF OrphanExplained, Registered, HandlesKnown, Decisions, RowType, WorkerType, SchedType, Callback
  <2> QED
    BY <2>1, <2>2, <2>3, <2>4
<1>8. ASSUME NEW w \in Workers, Take(w) PROVE Goal
  <2>1. Registered'
    BY <1>0, <1>8 DEF Registered, HandlesKnown, GateType, Take
  <2>2. HandlesKnown'
    BY <1>0, <1>8 DEF Registered, HandlesKnown, RowType, WorkerType, SchedType, Take
  <2>3. ClosesGone'
    BY <1>0, <1>8 DEF ClosesGone, GateType, WorkerType, Take
  <2>4. OrphanExplained'
    BY <1>0, <1>8 DEF OrphanExplained, Registered, HandlesKnown, Decisions, RowType, WorkerType, SchedType, Take
  <2> QED
    BY <2>1, <2>2, <2>3, <2>4
<1>9. ASSUME NEW w \in Workers, Decide(w) PROVE Goal
  <2>1. Registered'
    BY <1>0, <1>9 DEF Registered, HandlesKnown, ClosesGone, GateType, RowType, WorkerType, SchedType, Decide, Log
  <2>2. HandlesKnown'
    BY <1>0, <1>9 DEF Registered, HandlesKnown, RowType, WorkerType, SchedType, Decide
  <2>3. ClosesGone'
    BY <1>0, <1>9 DEF ClosesGone, WorkerType, Decide
  <2>4. OrphanExplained'
    BY <1>0, <1>9, LogDecides DEF OrphanExplained, Registered, WorkerType, SchedType, Kinds, Verdicts, Decide
  <2> QED
    BY <2>1, <2>2, <2>3, <2>4
<1>10. ASSUME NEW w \in Workers, IndexOverride(w) PROVE Goal
  <2>1. Registered'
    BY <1>0, <1>10 DEF Registered, HandlesKnown, ClosesGone, GateType, RowType, WorkerType, SchedType, IndexOverride, Log
  <2>2. HandlesKnown'
    BY <1>0, <1>10 DEF Registered, HandlesKnown, RowType, WorkerType, SchedType, IndexOverride
  <2>3. ClosesGone'
    BY <1>0, <1>10 DEF Registered, HandlesKnown, ClosesGone, GateType, RowType, WorkerType, SchedType, IndexOverride
  <2>4. OrphanExplained'
    BY <1>0, <1>10, LogDecides DEF OrphanExplained, Registered, WorkerType, SchedType, Kinds, Verdicts, IndexOverride
  <2> QED
    BY <2>1, <2>2, <2>3, <2>4
<1>11. ASSUME NEW w \in Workers, MarkRejected(w) PROVE Goal
  <2>1. Registered'
    BY <1>0, <1>11 DEF Registered, HandlesKnown, ClosesGone, MarkRejected
  <2>2. HandlesKnown'
    BY <1>0, <1>11 DEF Registered, HandlesKnown, RowType, WorkerType, SchedType, MarkRejected
  <2>3. ClosesGone'
    BY <1>0, <1>11 DEF Registered, HandlesKnown, ClosesGone, GateType, RowType, WorkerType, SchedType, MarkRejected
  <2>4. OrphanExplained'
    BY <1>0, <1>11 DEF OrphanExplained, Registered, HandlesKnown, Decisions, RowType, WorkerType, SchedType, MarkRejected
  <2> QED
    BY <2>1, <2>2, <2>3, <2>4
<1>12. ASSUME NEW w \in Workers, GetReport(w) PROVE Goal
  <2>1. Registered'
    BY <1>0, <1>12 DEF Registered, HandlesKnown, ClosesGone, GateType, RowType, WorkerType, SchedType, GetReport
  <2>2. HandlesKnown'
    BY <1>0, <1>12 DEF Registered, HandlesKnown, RowType, WorkerType, SchedType, GetReport
  <2>3. ClosesGone'
    BY <1>0, <1>12 DEF ClosesGone, GetReport
  <2>4. OrphanExplained'
    BY <1>0, <1>12 DEF OrphanExplained, Registered, HandlesKnown, Decisions, RowType, WorkerType, SchedType, GetReport
  <2> QED
    BY <2>1, <2>2, <2>3, <2>4
<1>13. ASSUME NEW w \in Workers, ExecuteApproved(w) PROVE Goal
  <2>0. /\ reg[wreq[w]] = "offered" /\ wreq[w] \notin live /\ wreq[w] \in Requests
        /\ UNCHANGED <<live, obj, reg>>
        /\ \A r \in Requests : r # wreq[w] => row'[r] = row[r]
    BY <1>0, <1>13 DEF HandlesKnown, ClosesGone, RowType, WorkerType, ExecuteApproved
  <2>1. Registered'
    BY <1>0, <2>0 DEF Registered
  <2>2. HandlesKnown'
    BY <1>0, <1>13 DEF Registered, HandlesKnown, RowType, WorkerType, SchedType, ExecuteApproved
  <2>3. ClosesGone'
    BY <1>0, <1>13 DEF Registered, HandlesKnown, ClosesGone, GateType, RowType, WorkerType, SchedType, ExecuteApproved
  <2>4. OrphanExplained'
    BY <1>0, <1>13 DEF OrphanExplained, Registered, HandlesKnown, Decisions, RowType, WorkerType, SchedType, ExecuteApproved
  <2> QED
    BY <2>1, <2>2, <2>3, <2>4
<1>14. ASSUME Tick PROVE Goal
  <2>1. Registered'
    BY <1>0, <1>14 DEF Registered, HandlesKnown, ClosesGone, GateType, RowType, WorkerType, SchedType, Tick
  <2>2. HandlesKnown'
    BY <1>0, <1>14 DEF Registered, HandlesKnown, RowType, WorkerType, SchedType, Tick
  <2>3. ClosesGone'
    BY <1>0, <1>14 DEF Registered, HandlesKnown, ClosesGone, GateType, RowType, WorkerType, SchedType, Tick
  <2>4. OrphanExplained'
    BY <1>0, <1>14 DEF OrphanExplained, Registered, HandlesKnown, Decisions, RowType, WorkerType, SchedType, Tick
  <2> QED
    BY <2>1, <2>2, <2>3, <2>4
<1>15. ASSUME NEW r \in Requests, Lookup(r) PROVE Goal
  <2>1. Registered'
    BY <1>0, <1>15 DEF Registered, HandlesKnown, ClosesGone, GateType, RowType, WorkerType, SchedType, Lookup, NextRow
  <2>2. HandlesKnown'
    BY <1>0, <1>15 DEF Registered, HandlesKnown, RowType, WorkerType, SchedType, Lookup, NextRow
  <2>3. ClosesGone'
    BY <1>0, <1>15 DEF Registered, HandlesKnown, ClosesGone, GateType, RowType, WorkerType, SchedType, Lookup, NextRow
  <2>4. OrphanExplained'
    BY <1>0, <1>15 DEF OrphanExplained, Registered, HandlesKnown, Decisions, RowType, WorkerType, SchedType, Lookup, NextRow
  <2> QED
    BY <2>1, <2>2, <2>3, <2>4
<1>16. ASSUME Expire PROVE Goal
  <2>0. /\ \A r \in Requests : obj'[r].state = "pending" => obj[r].state = "pending"
        /\ UNCHANGED <<live, reg, row, wpc, wreq, cur>>
    BY <1>0, <1>16 DEF GateType, SchedType, Expire
  <2>1. Registered'
    BY <1>0, <2>0 DEF Registered
  <2>2. HandlesKnown'
    BY <1>0, <1>16 DEF Registered, HandlesKnown, RowType, WorkerType, SchedType, Expire, DropTick
  <2>3. ClosesGone'
    BY <1>0, <1>16, <2>0 DEF ClosesGone, WorkerType, Expire, DropTick
  <2>4. OrphanExplained'
    BY <1>0, <1>16 DEF OrphanExplained, Registered, HandlesKnown, Decisions, RowType, WorkerType, SchedType, Expire, DropTick
  <2> QED
    BY <2>1, <2>2, <2>3, <2>4
<1>17. ASSUME LogEscalated PROVE Goal
  <2>1. Registered'
    BY <1>0, <1>17 DEF Registered, HandlesKnown, ClosesGone, GateType, RowType, WorkerType, SchedType, LogEscalated, NextRow, Log
  <2>2. HandlesKnown'
    BY <1>0, <1>17 DEF Registered, HandlesKnown, RowType, WorkerType, SchedType, LogEscalated, NextRow
  <2>3. ClosesGone'
    BY <1>0, <1>17 DEF Registered, HandlesKnown, ClosesGone, GateType, RowType, WorkerType, SchedType, LogEscalated, NextRow
  <2>4. OrphanExplained'
    BY <1>0, <1>17, LogDecides DEF OrphanExplained, Registered, WorkerType, SchedType, Kinds, Verdicts, LogEscalated, NextRow
  <2> QED
    BY <2>1, <2>2, <2>3, <2>4
<1>18. ASSUME Abandon PROVE Goal
  <2>1. Registered'
    BY <1>0, <1>18 DEF Registered, HandlesKnown, ClosesGone, GateType, RowType, WorkerType, SchedType, Abandon, DropTick
  <2>2. HandlesKnown'
    BY <1>0, <1>18 DEF Registered, HandlesKnown, RowType, WorkerType, SchedType, Abandon, DropTick
  <2>3. ClosesGone'
    BY <1>0, <1>18 DEF Registered, HandlesKnown, ClosesGone, GateType, RowType, WorkerType, SchedType, Abandon, DropTick
  <2>4. OrphanExplained'
    BY <1>0, <1>18 DEF OrphanExplained, Registered, HandlesKnown, Decisions, RowType, WorkerType, SchedType, Abandon, DropTick
  <2> QED
    BY <2>1, <2>2, <2>3, <2>4
<1>19. ASSUME LogAbandoned PROVE Goal
  <2>1. Registered'
    BY <1>0, <1>19 DEF Registered, HandlesKnown, ClosesGone, GateType, RowType, WorkerType, SchedType, LogAbandoned, Log
  <2>2. HandlesKnown'
    BY <1>0, <1>19 DEF Registered, HandlesKnown, RowType, WorkerType, SchedType, LogAbandoned
  <2>3. ClosesGone'
    BY <1>0, <1>19 DEF Registered, HandlesKnown, ClosesGone, GateType, RowType, WorkerType, SchedType, LogAbandoned
  <2>4. OrphanExplained'
    BY <1>0, <1>19, LogDecides DEF OrphanExplained, Registered, WorkerType, SchedType, Kinds, Verdicts, LogAbandoned
  <2> QED
    BY <2>1, <2>2, <2>3, <2>4
<1>20. ASSUME MarkAbandoned PROVE Goal
  <2>1. Registered'
    BY <1>0, <1>20 DEF Registered, HandlesKnown, ClosesGone, MarkAbandoned, NextRow
  <2>2. HandlesKnown'
    BY <1>0, <1>20 DEF Registered, HandlesKnown, RowType, WorkerType, SchedType, MarkAbandoned, NextRow
  <2>3. ClosesGone'
    BY <1>0, <1>20 DEF Registered, HandlesKnown, ClosesGone, GateType, RowType, WorkerType, SchedType, MarkAbandoned, NextRow
  <2>4. OrphanExplained'
    BY <1>0, <1>20 DEF OrphanExplained, Registered, HandlesKnown, Decisions, RowType, WorkerType, SchedType, MarkAbandoned, NextRow
  <2> QED
    BY <2>1, <2>2, <2>3, <2>4
<1>21. ASSUME Restart PROVE Goal
  <2>1. Registered'
    BY <1>0, <1>21 DEF Registered, HandlesKnown, ClosesGone, GateType, RowType, WorkerType, SchedType, Restart, DropTick
  <2>2. HandlesKnown'
    BY <1>0, <1>21 DEF Registered, HandlesKnown, RowType, WorkerType, SchedType, Restart, DropTick
  <2>3. ClosesGone'
    BY <1>0, <1>21 DEF Registered, HandlesKnown, ClosesGone, GateType, RowType, WorkerType, SchedType, Restart, DropTick
  <2>4. OrphanExplained'
    BY <1>0, <1>21 DEF OrphanExplained, Registered, HandlesKnown, Decisions, RowType, WorkerType, SchedType, Restart, DropTick
  <2> QED
    BY <2>1, <2>2, <2>3, <2>4
<1>22. CASE UNCHANGED vars
  BY <1>0, <1>22 DEF vars, Registered, HandlesKnown, ClosesGone, OrphanExplained, Decisions
<1> QED
  BY <1>1, <1>2, <1>3, <1>4, <1>5, <1>6, <1>7, <1>8, <1>9, <1>10, <1>11, <1>12, <1>13, <1>14, <1>15, <1>16, <1>17, <1>18, <1>19, <1>20, <1>21, <1>22
     DEF Next, Register, Handle, Schedule

-----------------------------------------------------------------------------
(* The daemon is an ApprovalFlow.                                          *)

LEMMA FlowStep == [RNext]_remedyVars => [Next]_vars
<1> SUFFICES ASSUME RNext \/ UNCHANGED remedyVars PROVE Next \/ UNCHANGED vars
  OBVIOUS
<1>1. CASE Triage
  BY <1>1, RemediationAssumption
     DEF Triage, StartTriage, PipelineEnds, RegisterStep, Registering, Next
<1>2. ASSUME NEW w \in Workers, Answer(w) PROVE Next
  BY <1>2 DEF Answer, Next
<1>3. ASSUME NEW w \in Workers, Work(w) PROVE Next \/ UNCHANGED vars
  BY <1>3 DEF Work, HandleStep, Begin, Skip, RunStep, Finish, Next
<1>4. CASE Ticks \/ Mitigate \/ Die
  BY <1>4 DEF Ticks, Mitigate, Die, Next
<1>5. CASE UNCHANGED remedyVars
  BY <1>5 DEF remedyVars
<1> QED
  BY <1>1, <1>2, <1>3, <1>4, <1>5 DEF RNext

\* What the daemon does to the approvals, ApprovalFlow does: every safety
\* property proved of ApprovalFlow is one of the daemon.
THEOREM FlowImplemented == RSpec => Spec
<1>1. RInit => Init
  BY DEF RInit
<1> QED
  BY <1>1, FlowStep, PTL DEF RSpec, Spec

LEMMA TableAlways == Spec => []TableInv
<1>1. Init => TableInv
  <2> SUFFICES ASSUME Init, TypeOK PROVE TableInv
    BY FlowAssumption DEF Init, TypeOK, GateType, RowType, WorkerType, SchedType,
                          Kinds, ObjStates, NewObject
  <2> QED
    BY DEF Init, TableInv, Registered, HandlesKnown, ClosesGone, OrphanExplained
<1> QED
  BY <1>1, TableStep, PTL DEF Spec

\* However registrations, answers, ticks and deaths of the daemon interleave,
\* the table of requests and the gate's memory differ only in the known ways.
THEOREM TableSafety == RSpec => []TableMatchesMemory
<1>1. TableInv => TableMatchesMemory
  <2> SUFFICES ASSUME TableInv, NEW r \in Requests
               PROVE  /\ r \in live /\ row[r] # "pending" =>
                           \/ reg[r] \in {"submitted", "requested", "failed"}
                           \/ row[r] = "rejected" /\ obj[r].state # "pending"
                      /\ r \notin live /\ row[r] = "pending" =>
                           \/ Decisions(r) > 0 \/ crashes > 0
                           \/ \E w \in Workers : wreq[w] = r /\ wpc[w] = "decide"
                           \/ cur = r /\ spc = "abandoned"
    BY DEF TableMatchesMemory
  <2> QED
    BY DEF TableInv, TypeOK, RowType, Registered, OrphanExplained
<1> QED
  BY <1>1, FlowImplemented, TableAlways, PTL

-----------------------------------------------------------------------------
(* The acts on production.                                                 *)

RemedyType ==
  /\ tpc \in {"idle", "pipeline", "first", "second", "answered", "failed"}
  /\ xpc \in [Workers -> {"no", "called", "running"}]
  /\ status \in {"open", "mitigated"} /\ done \subseteq {"report"} /\ failures \in Nat
  /\ DOMAIN applied = {"report"} /\ applied["report"] \in [1..Steps -> Nat]
  /\ \/ attempts = {}
     \/ \E k \in 1..Steps + 1 : attempts = {X!Attempt("report", k, "preview")}
     \/ \E k \in 1..Steps : attempts = {X!Attempt("report", k, "act")}

\* The workers in the executor were sent there by the one call for their
\* request, and one of them at most has begun.
Sent(w) == xpc[w] # "no"

OneRunner ==
  /\ \A w \in Workers : Sent(w) => wpc[w] = "idle" /\ runs[wreq[w]] > 0
  /\ \A v, w \in Workers : Sent(v) /\ Sent(w) /\ wreq[v] = wreq[w] => v = w
  /\ \A w \in Workers : xpc[w] = "running" => attempts # {}
  /\ \A v, w \in Workers : xpc[v] = "running" /\ xpc[w] = "running" => v = w

\* How often the execution under way, if any, may still make step i act: as often
\* as the step can until its turn comes to act, and then once.
Left(A, i) ==
  IF A = {X!Attempt("report", i, "act")} THEN 1
  ELSE IF \E k \in 1..i, turn \in {"preview", "act"} : A = {X!Attempt("report", k, turn)}
       THEN Times(i) ELSE 0

\* How often the call of the executor for request r may still make it act.
Called(r) == \E w \in Workers : wreq[w] = r /\ xpc[w] = "called"
Running(r) == \E w \in Workers : wreq[w] = r /\ xpc[w] = "running"
Debt(r, i) == IF Called(r) THEN Times(i) ELSE IF Running(r) THEN Left(attempts, i) ELSE 0

\* The acts of a step and those still owed are within the calls made.
PaidByCalls ==
  \A i \in 1..Steps :
    applied["report"][i] + Debt(First, i) + Debt(Second, i)
      <= Times(i) * (runs[First] + runs[Second])

\* The executions that failed, and the one that did not.
Begun == failures + (IF attempts # {} \/ "report" \in done THEN 1 ELSE 0)

\* A step has its acts once per execution; all but one of these executions failed.
PaidByFailures ==
  \A i \in 1..Steps : applied["report"][i] + Left(attempts, i) <= Times(i) * Begun

RemedyInv == RunInv /\ RemedyType /\ OneRunner /\ PaidByCalls /\ PaidByFailures

\* An execution makes a step act once or, when its dry-run acts, twice.
LEMMA TimesOf ==
  ASSUME NEW i, NEW n \in Nat
  PROVE  \/ i \notin Unpreviewed /\ Times(i) = 1 /\ Times(i) * n = n
         \/ i \in Unpreviewed /\ Times(i) = 2 /\ Times(i) * n = n + n
<1>1. CASE i \in Unpreviewed
  <2>1. Times(i) = 2 /\ 2 * n = n + n
    BY <1>1 DEF Times
  <2> QED
    BY <1>1, <2>1
<1>2. CASE i \notin Unpreviewed
  <2>1. Times(i) = 1 /\ 1 * n = n
    BY <1>2 DEF Times
  <2> QED
    BY <1>2, <2>1
<1> QED
  BY <1>1, <1>2

LEMMA TimesGrows ==
  ASSUME NEW i, NEW m \in Nat, NEW n \in Nat, m <= n
  PROVE  Times(i) * m <= Times(i) * n
BY TimesOf

LEMMA TimesNext ==
  ASSUME NEW i, NEW n \in Nat
  PROVE  Times(i) * (n + 1) = Times(i) * n + Times(i) /\ Times(i) * n \in Nat
<1>1. n + 1 \in Nat
  OBVIOUS
<1>2. \/ Times(i) = 1 /\ Times(i) * n = n /\ Times(i) * (n + 1) = n + 1
      \/ Times(i) = 2 /\ Times(i) * n = n + n /\ Times(i) * (n + 1) = (n + 1) + (n + 1)
  BY <1>1, TimesOf
<1> QED
  BY <1>2

LEMMA SameAttempt ==
  ASSUME NEW j, NEW k, NEW a, NEW b, {X!Attempt("report", j, a)} = {X!Attempt("report", k, b)}
  PROVE  j = k /\ a = b
<1>1. X!Attempt("report", j, a) = X!Attempt("report", k, b)
  OBVIOUS
<1>2. /\ X!Attempt("report", j, a).next = X!Attempt("report", k, b).next
      /\ X!Attempt("report", j, a).turn = X!Attempt("report", k, b).turn
  BY <1>1
<1> QED
  BY <1>2 DEF X!Attempt

\* What is left of an execution that stands at its step k.
LEMMA LeftAt ==
  ASSUME NEW k \in Nat \ {0}, NEW turn \in {"preview", "act"}, NEW i \in 1..Steps
  PROVE  Left({X!Attempt("report", k, turn)}, i) =
           IF i < k THEN 0 ELSE IF i = k /\ turn = "act" THEN 1 ELSE Times(i)
<1> DEFINE A == {X!Attempt("report", k, turn)}
<1>0. Steps \in Nat /\ i \in Nat
  BY RemediationAssumption
<1>1. A = {X!Attempt("report", i, "act")} <=> i = k /\ turn = "act"
  BY SameAttempt
<1>2. (\E j \in 1..i, b \in {"preview", "act"} : A = {X!Attempt("report", j, b)}) <=> k \in 1..i
  <2>1. ASSUME NEW j \in 1..i, NEW b \in {"preview", "act"}, A = {X!Attempt("report", j, b)}
        PROVE  k \in 1..i
    BY <2>1, SameAttempt
  <2>2. ASSUME k \in 1..i
        PROVE  \E j \in 1..i, b \in {"preview", "act"} : A = {X!Attempt("report", j, b)}
    BY <2>2
  <2> QED
    BY <2>1, <2>2
<1>3. k \in 1..i <=> ~(i < k)
  BY <1>0
<1> HIDE DEF A
<1>4. Left(A, i) = IF i < k THEN 0 ELSE IF i = k /\ turn = "act" THEN 1 ELSE Times(i)
  BY <1>0, <1>1, <1>2, <1>3 DEF Left
<1> QED
  BY <1>4 DEF A

\* Nothing is left when no execution is under way, and never more than a step has.
LEMMA LeftBound ==
  /\ \A i : Left({}, i) = 0
  /\ \A A, i : Left(A, i) \in Nat /\ Left(A, i) <= Times(i)
BY DEF Left, Times

LEMMA DebtBound ==
  \A r, i : /\ Debt(r, i) \in Nat /\ Debt(r, i) <= Times(i)
            /\ Debt(r, i)' \in Nat /\ Debt(r, i)' <= Times(i)
BY LeftBound DEF Debt, Times

\* What a step of a worker inside handle_action does to the executor's calls.
LEMMA HandleCalls ==
  ASSUME RunInv, NEW w \in Workers, Handle(w)
  PROVE  /\ wpc[w] # "idle" /\ wreq' = wreq
         /\ \A v \in Workers : v # w => wpc'[v] = wpc[v]
         /\ \/ runs' = runs
            \/ /\ runs[wreq[w]] = 0 /\ wpc'[w] = "idle"
               /\ runs' = [runs EXCEPT ![wreq[w]] = runs[wreq[w]] + 1]
<1>0. WorkerType /\ RunOnce
  BY DEF RunInv, OwnerInv, TypeOK
<1>1. CASE Take(w)
  BY <1>0, <1>1 DEF Take, WorkerType
<1>2. CASE Decide(w)
  BY <1>0, <1>2 DEF Decide, WorkerType
<1>3. CASE IndexOverride(w)
  BY <1>0, <1>3 DEF IndexOverride, WorkerType
<1>4. CASE MarkRejected(w)
  BY <1>0, <1>4 DEF MarkRejected, WorkerType
<1>5. CASE GetReport(w)
  BY <1>0, <1>5 DEF GetReport, WorkerType
<1>6. CASE ExecuteApproved(w)
  BY <1>0, <1>6 DEF ExecuteApproved, WorkerType, RunOnce, Runner
<1> QED
  BY <1>1, <1>2, <1>3, <1>4, <1>5, <1>6 DEF Handle

\* Other steps of the approvals call no executor.
LEMMA OthersCallNobody ==
  ASSUME WorkerType
  PROVE  /\ \A r \in Requests : Submit(r) \/ Register(r) =>
              UNCHANGED <<runs, wreq, wpc>>
         /\ Schedule => UNCHANGED <<runs, wreq, wpc>>
<1> USE DEF workerVars
<1>1. ASSUME NEW r \in Requests, Submit(r) \/ Register(r) PROVE UNCHANGED <<runs, wreq, wpc>>
  BY <1>1 DEF Submit, Register, NotifyRequested, RecordPending, DeliverButtons, RegisterFails
<1>2. ASSUME Schedule PROVE UNCHANGED <<runs, wreq, wpc>>
  BY <1>2 DEF Schedule, Tick, Lookup, Expire, LogEscalated, Abandon, LogAbandoned, MarkAbandoned
<1> QED
  BY <1>1, <1>2

\* Steps outside of the executor: nobody acts, calls or is sent there.
Idle == UNCHANGED <<runs, xpc, done, attempts, applied, failures>>

LEMMA RemedyFrame ==
  ASSUME RemedyInv, Idle,
         \A w \in Workers : Sent(w) => wreq'[w] = wreq[w] /\ wpc'[w] = wpc[w]
  PROVE  OneRunner' /\ PaidByCalls' /\ PaidByFailures'
<1> USE DEF RemedyInv, Idle, X!Attempt
<1>1. OneRunner'
  BY DEF OneRunner, Sent
<1>2. \A r : Called(r)' = Called(r) /\ Running(r)' = Running(r)
  BY DEF Called, Running, Sent
<1>4. \A r, i : Debt(r, i)' = Debt(r, i)
  BY <1>2 DEF Debt, Left, Times
<1>5. PaidByCalls'
  BY <1>4 DEF PaidByCalls, Times
<1>6. PaidByFailures'
  BY DEF PaidByFailures, Begun, Left, Times
<1> QED
  BY <1>1, <1>5, <1>6

\* A step of an execution leaves it at a step or over, and what acts takes it from
\* what was left.
LEMMA ExecutionStep ==
  ASSUME RemedyType, X!Stop \/ \E k \in 1..Steps : X!Preview("report", k) \/ X!Act("report", k)
  PROVE  /\ DOMAIN applied' = {"report"} /\ applied'["report"] \in [1..Steps -> Nat]
         /\ \A i \in 1..Steps :
              applied'["report"][i] + Left(attempts', i) <= applied["report"][i] + Left(attempts, i)
         /\ \/ attempts' = {}
            \/ \E k \in 1..Steps + 1 : attempts' = {X!Attempt("report", k, "preview")}
            \/ \E k \in 1..Steps : attempts' = {X!Attempt("report", k, "act")}
         /\ UNCHANGED <<status, done>>
<1> DEFINE D == 1..Steps
           h == applied["report"]
<1>0. Steps \in Nat /\ DOMAIN applied = {"report"} /\ h \in [D -> Nat]
  BY RemediationAssumption DEF RemedyType
<1>1. ASSUME NEW k \in D
      PROVE  /\ DOMAIN X!Acted("report", k) = {"report"}
             /\ X!Acted("report", k)["report"] \in [D -> Nat]
             /\ \A i \in D : X!Acted("report", k)["report"][i] = h[i] + (IF i = k THEN 1 ELSE 0)
  <2> DEFINE g == X!Acted("report", k)
  <2>1. g = [applied EXCEPT !["report"] = [h EXCEPT ![k] = h[k] + 1]]
    BY DEF X!Acted
  <2> HIDE DEF D, h, g
  <2>2. DOMAIN g = {"report"} /\ g["report"] = [h EXCEPT ![k] = h[k] + 1]
    BY <1>0, <2>1
  <2>3. g["report"] \in [D -> Nat] /\ \A i \in D : g["report"][i] = h[i] + (IF i = k THEN 1 ELSE 0)
    BY <1>0, <1>1, <2>2
  <2> QED
    BY <2>2, <2>3 DEF g
<1>2. CASE X!Stop
  BY <1>0, <1>2, LeftBound DEF X!Stop
<1>3. ASSUME NEW k \in D, X!Preview("report", k) \/ X!Act("report", k)
      PROVE  /\ DOMAIN applied' = {"report"} /\ applied'["report"] \in [1..Steps -> Nat]
             /\ \A i \in 1..Steps :
                  applied'["report"][i] + Left(attempts', i) <= h[i] + Left(attempts, i)
             /\ \/ attempts' = {}
                \/ attempts' = {X!Attempt("report", k, "act")}
                \/ attempts' = {X!Attempt("report", k + 1, "preview")}
             /\ UNCHANGED <<status, done>>
  <2>k. k \in Nat \ {0} /\ k + 1 \in Nat \ {0}
    BY <1>0
  <2>1. CASE X!Preview("report", k)
    <3>1. /\ attempts = {X!Attempt("report", k, "preview")}
          /\ attempts' \in {{X!Attempt("report", k, "act")}, {}}
          /\ \/ applied' = applied
             \/ applied' = X!Acted("report", k) /\ k \in Unpreviewed
          /\ UNCHANGED <<status, done>>
      BY <2>1 DEF X!Preview
    <3>2. DOMAIN applied' = {"report"} /\ applied'["report"] \in [D -> Nat]
      BY <1>0, <1>1, <3>1
    <3>3. ASSUME NEW i \in D
          PROVE  applied'["report"][i] + Left(attempts', i) <= h[i] + Left(attempts, i)
      <4>0. i \in Nat /\ h[i] \in Nat /\ Times(i) \in {1, 2}
        BY <1>0 DEF Times
      <4>1. Left(attempts, i) = IF i < k THEN 0 ELSE Times(i)
        BY <2>k, <3>1, LeftAt
      <4>2. \/ Left(attempts', i) = IF i < k THEN 0 ELSE IF i = k THEN 1 ELSE Times(i)
            \/ Left(attempts', i) = 0
        <5>1. CASE attempts' = {}
          BY <5>1, LeftBound
        <5>2. CASE attempts' = {X!Attempt("report", k, "act")}
          BY <2>k, <5>2, LeftAt
        <5> QED
          BY <3>1, <5>1, <5>2
      <4>3. \/ applied'["report"][i] = h[i]
            \/ i = k /\ Times(i) = 2 /\ applied'["report"][i] = h[i] + 1
        BY <1>0, <1>1, <3>1, <4>0 DEF Times
      <4> QED
        BY <2>k, <4>0, <4>1, <4>2, <4>3
    <3> QED
      BY <3>1, <3>2, <3>3
  <2>2. CASE X!Act("report", k)
    <3>1. /\ attempts = {X!Attempt("report", k, "act")}
          /\ attempts' \in {{X!Attempt("report", k + 1, "preview")}, {}}
          /\ applied' = applied \/ applied' = X!Acted("report", k)
          /\ UNCHANGED <<status, done>>
      BY <2>2 DEF X!Act
    <3>2. DOMAIN applied' = {"report"} /\ applied'["report"] \in [D -> Nat]
      BY <1>0, <1>1, <3>1
    <3>3. ASSUME NEW i \in D
          PROVE  applied'["report"][i] + Left(attempts', i) <= h[i] + Left(attempts, i)
      <4>0. i \in Nat /\ h[i] \in Nat /\ Times(i) \in {1, 2}
        BY <1>0 DEF Times
      <4>1. Left(attempts, i) = IF i < k THEN 0 ELSE IF i = k THEN 1 ELSE Times(i)
        BY <2>k, <3>1, LeftAt
      <4>2. \/ Left(attempts', i) = IF i < k + 1 THEN 0 ELSE Times(i)
            \/ Left(attempts', i) = 0
        <5>1. CASE attempts' = {}
          BY <5>1, LeftBound
        <5>2. CASE attempts' = {X!Attempt("report", k + 1, "preview")}
          <6>1. Left({X!Attempt("report", k + 1, "preview")}, i) =
                  IF i < k + 1 THEN 0 ELSE Times(i)
            BY <2>k, LeftAt
          <6> QED
            BY <5>2, <6>1
        <5> QED
          BY <3>1, <5>1, <5>2
      <4>3. \/ applied'["report"][i] = h[i]
            \/ i = k /\ applied'["report"][i] = h[i] + 1
        BY <1>0, <1>1, <3>1, <4>0
      <4> QED
        BY <2>k, <4>0, <4>1, <4>2, <4>3
    <3> QED
      BY <3>1, <3>2, <3>3
  <2> QED
    BY <1>3, <2>1, <2>2
<1>4. \A k \in D : k + 1 \in 1..Steps + 1
  BY <1>0
<1> QED
  BY <1>2, <1>3, <1>4

LEMMA RemedyTypeStep == RemedyInv /\ [RNext]_remedyVars => RemedyType'
<1> SUFFICES ASSUME RemedyInv, [RNext]_remedyVars PROVE RemedyType'
  OBVIOUS
<1>0. RemedyType /\ Steps \in Nat \ {0}
  BY RemediationAssumption DEF RemedyInv
<1> USE DEF execVars, triageVars
<1>1. CASE Triage
  BY <1>0, <1>1 DEF RemedyType, Triage, StartTriage, PipelineEnds, RegisterStep
<1>2. ASSUME NEW w \in Workers, Answer(w) PROVE RemedyType'
  BY <1>0, <1>2 DEF RemedyType, Answer
<1>3. ASSUME NEW w \in Workers, HandleStep(w) PROVE RemedyType'
  BY <1>0, <1>3 DEF RemedyType, HandleStep
<1>4. ASSUME NEW w \in Workers, Begin(w) PROVE RemedyType'
  <2>1. 1 \in 1..Steps + 1
    BY <1>0
  <2> QED
    BY <1>0, <1>4, <2>1 DEF RemedyType, Begin, Enter, X!Begin, X!Attempt
<1>5. ASSUME NEW w \in Workers, Skip(w) PROVE RemedyType'
  BY <1>0, <1>5 DEF RemedyType, Skip, Enter
<1>6. ASSUME NEW w \in Workers, RunStep(w) PROVE RemedyType'
  <2>1. /\ xpc' \in [Workers -> {"no", "called", "running"}] /\ failures' \in Nat
        /\ UNCHANGED tpc
    BY <1>0, <1>6 DEF RemedyType, RunStep, Enter
  <2>2. X!Stop \/ \E k \in 1..Steps : X!Preview("report", k) \/ X!Act("report", k)
    BY <1>6 DEF RunStep
  <2> QED
    BY <1>0, <2>1, <2>2, ExecutionStep DEF RemedyType
<1>7. ASSUME NEW w \in Workers, Finish(w) PROVE RemedyType'
  BY <1>0, <1>7 DEF RemedyType, Finish, Enter, X!Finish, X!Attempt
<1>8. CASE Ticks \/ Mitigate
  BY <1>0, <1>8 DEF RemedyType, Ticks, Mitigate
<1>9. CASE Die
  BY <1>0, <1>9 DEF RemedyType, Die
<1>10. CASE UNCHANGED remedyVars
  BY <1>0, <1>10 DEF RemedyType, remedyVars
<1> QED
  BY <1>1, <1>2, <1>3, <1>4, <1>5, <1>6, <1>7, <1>8, <1>9, <1>10 DEF RNext, Work

\* Acts that are taken from what is owed stay paid for.
LEMMA CallsFrame ==
  ASSUME RemedyInv, runs' = runs, applied'["report"] \in [1..Steps -> Nat],
         \A i \in 1..Steps :
           applied'["report"][i] + Debt(First, i)' + Debt(Second, i)'
             <= applied["report"][i] + Debt(First, i) + Debt(Second, i)
  PROVE  PaidByCalls'
<1> SUFFICES ASSUME NEW i \in 1..Steps
             PROVE  applied'["report"][i] + Debt(First, i)' + Debt(Second, i)'
                      <= Times(i) * (runs[First] + runs[Second])
  BY DEF PaidByCalls, Times
<1>1. /\ Debt(First, i) \in Nat /\ Debt(First, i)' \in Nat
      /\ Debt(Second, i) \in Nat /\ Debt(Second, i)' \in Nat
  BY DebtBound
<1>2. /\ applied["report"][i] \in Nat /\ applied'["report"][i] \in Nat
      /\ runs[First] + runs[Second] \in Nat
  BY RemediationAssumption DEF RemedyInv, RemedyType, RunInv, OwnerInv, TypeOK, WorkerType
<1> DEFINE n == Times(i) * (runs[First] + runs[Second])
<1>3. applied["report"][i] + Debt(First, i) + Debt(Second, i) <= n
  BY DEF RemedyInv, PaidByCalls
<1>4. n \in Nat
  BY <1>2, TimesNext
<1> HIDE DEF n
<1>6. applied'["report"][i] + Debt(First, i)' + Debt(Second, i)'
        <= applied["report"][i] + Debt(First, i) + Debt(Second, i)
  OBVIOUS
<1>5. applied'["report"][i] + Debt(First, i)' + Debt(Second, i)' <= n
  <2> DEFINE a == applied["report"][i]
             b == applied'["report"][i]
             c == Debt(First, i)
             d == Debt(Second, i)
             e == Debt(First, i)'
             f == Debt(Second, i)'
  <2>1. /\ a \in Nat /\ b \in Nat /\ c \in Nat /\ d \in Nat /\ e \in Nat /\ f \in Nat
        /\ a + c + d <= n /\ b + e + f <= a + c + d
    BY <1>1, <1>2, <1>3, <1>6
  <2> HIDE DEF a, b, c, d, e, f
  <2>2. b + e + f <= n
    BY <1>4, <2>1
  <2> QED
    BY <2>2 DEF b, e, f
<1> QED
  BY <1>5 DEF n

\* In particular when nobody acts and nothing more is owed than before.
LEMMA CallsRest ==
  ASSUME RemedyInv, runs' = runs, applied' = applied,
         \A r \in {First, Second} : \A i \in 1..Steps : Debt(r, i)' <= Debt(r, i)
  PROVE  PaidByCalls'
<1>1. /\ applied["report"] \in [1..Steps -> Nat]
      /\ \A i \in 1..Steps : applied["report"][i] \in Nat
  BY DEF RemedyInv, RemedyType
<1>2. ASSUME NEW i \in 1..Steps
      PROVE  applied'["report"][i] + Debt(First, i)' + Debt(Second, i)'
               <= applied["report"][i] + Debt(First, i) + Debt(Second, i)
  BY <1>1, DebtBound
<1> QED
  BY <1>1, <1>2, CallsFrame

LEMMA RemedyStep == RemedyInv /\ [RNext]_remedyVars => OneRunner' /\ PaidByCalls' /\ PaidByFailures'
<1> SUFFICES ASSUME RemedyInv, [RNext]_remedyVars
             PROVE  OneRunner' /\ PaidByCalls' /\ PaidByFailures'
  OBVIOUS
<1> DEFINE Goal == OneRunner' /\ PaidByCalls' /\ PaidByFailures'
<1>0. /\ RemedyType /\ OneRunner /\ PaidByCalls /\ PaidByFailures
      /\ RunInv /\ RunOnce /\ WorkerType /\ Steps \in Nat \ {0}
  BY RemediationAssumption DEF RemedyInv, RunInv, OwnerInv, TypeOK
<1>d. \A r, i : /\ Debt(r, i) \in Nat /\ Debt(r, i) <= Times(i)
                /\ Debt(r, i)' \in Nat /\ Debt(r, i)' <= Times(i)
  BY DebtBound
<1>n. /\ \A i \in 1..Steps : applied["report"][i] \in Nat
      /\ runs[First] \in Nat /\ runs[Second] \in Nat /\ failures \in Nat
  BY <1>0, RemediationAssumption DEF RemedyType, WorkerType
<1> USE DEF execVars, triageVars
<1>1. CASE Triage
  <2>1. UNCHANGED <<runs, wreq, wpc, xpc, execVars, failures>>
    BY <1>0, <1>1, OthersCallNobody, RemediationAssumption
       DEF Triage, StartTriage, PipelineEnds, RegisterStep, Registering, vars
  <2> QED
    BY <2>1, RemedyFrame DEF Idle
<1>2. ASSUME NEW w \in Workers, Answer(w) PROVE Goal
  <2>1. UNCHANGED <<runs, xpc, execVars, failures>> /\ xpc[w] = "no"
    BY <1>2 DEF Answer, Callback
  <2>2. \A v \in Workers : Sent(v) => wreq'[v] = wreq[v] /\ wpc'[v] = wpc[v]
    BY <1>0, <1>2, <2>1 DEF Answer, Callback, WorkerType, Sent
  <2> QED
    BY <2>1, <2>2, RemedyFrame DEF Idle
<1>3. ASSUME NEW w \in Workers, HandleStep(w) PROVE Goal
  <2>1. /\ wpc[w] # "idle" /\ wreq' = wreq
        /\ \A v \in Workers : v # w => wpc'[v] = wpc[v]
        /\ UNCHANGED <<execVars, failures>>
        /\ xpc' = [xpc EXCEPT ![w] = IF runs' # runs THEN "called" ELSE xpc[w]]
    BY <1>0, <1>3, HandleCalls DEF HandleStep
  <2>2. xpc[w] = "no"
    BY <1>0, <2>1 DEF OneRunner, Sent
  <2>3. CASE runs' = runs
    <3>1. xpc' = xpc
      BY <1>0, <2>1, <2>3 DEF RemedyType
    <3> QED
      BY <2>1, <2>2, <2>3, <3>1, RemedyFrame DEF Idle, Sent
  <2>4. CASE runs' # runs
    <3>1. /\ runs[wreq[w]] = 0 /\ wpc'[w] = "idle" /\ wreq[w] \in {First, Second}
          /\ runs' = [runs EXCEPT ![wreq[w]] = runs[wreq[w]] + 1]
      BY <1>0, <1>3, <2>4, HandleCalls, RemediationAssumption DEF HandleStep, WorkerType
    <3>2. xpc'[w] = "called" /\ \A v \in Workers : v # w => xpc'[v] = xpc[v]
      BY <1>0, <2>1, <2>4 DEF RemedyType
    <3>3. OneRunner'
      BY <1>0, <2>1, <3>1, <3>2 DEF OneRunner, Sent, WorkerType
    <3>4. \A r : r # wreq[w] => Called(r)' = Called(r) /\ Running(r)' = Running(r)
      BY <2>1, <2>2, <3>2 DEF Called, Running
    <3>5. \A r, i : r # wreq[w] => Debt(r, i)' = Debt(r, i)
      BY <2>1, <3>4 DEF Debt, Left, Times
    <3>6. First # Second /\ First \in Requests /\ Second \in Requests /\ runs \in [Requests -> Nat]
      BY <1>0, RemediationAssumption DEF WorkerType
    <3>7. runs'[First] + runs'[Second] = runs[First] + runs[Second] + 1
      BY <1>n, <3>1, <3>6
    <3>8. \A i : Debt(First, i)' + Debt(Second, i)' <= Debt(First, i) + Debt(Second, i) + Times(i)
      <4> SUFFICES ASSUME NEW i
                   PROVE  Debt(First, i)' + Debt(Second, i)' <= Debt(First, i) + Debt(Second, i) + Times(i)
        OBVIOUS
      <4>1. Times(i) \in Nat
        BY DEF Times
      <4>2. \/ Debt(First, i)' = Debt(First, i)
            \/ Debt(Second, i)' = Debt(Second, i)
        BY <3>1, <3>5, <3>6
      <4>3. /\ Debt(First, i) \in Nat /\ Debt(First, i)' \in Nat /\ Debt(First, i)' <= Times(i)
            /\ Debt(Second, i) \in Nat /\ Debt(Second, i)' \in Nat /\ Debt(Second, i)' <= Times(i)
        BY <1>d
      <4> QED
        BY <4>1, <4>2, <4>3
    <3>9. PaidByCalls'
      <4> SUFFICES ASSUME NEW i \in 1..Steps
                   PROVE  applied["report"][i] + Debt(First, i)' + Debt(Second, i)'
                            <= Times(i) * (runs'[First] + runs'[Second])
        BY <2>1 DEF PaidByCalls, Times
      <4> DEFINE n == runs[First] + runs[Second]
      <4>1. applied["report"][i] + Debt(First, i) + Debt(Second, i) <= Times(i) * n
        BY <1>0 DEF PaidByCalls
      <4>2. n \in Nat /\ runs'[First] + runs'[Second] = n + 1
        BY <1>n, <3>7
      <4> HIDE DEF n
      <4>3. Times(i) * (n + 1) = Times(i) * n + Times(i) /\ Times(i) * n \in Nat /\ Times(i) \in Nat
        BY <4>2, TimesNext DEF Times
      <4>4. /\ Debt(First, i) \in Nat /\ Debt(First, i)' \in Nat
            /\ Debt(Second, i) \in Nat /\ Debt(Second, i)' \in Nat
        BY <1>d
      <4>5. applied["report"][i] + Debt(First, i)' + Debt(Second, i)' <= Times(i) * n + Times(i)
        BY <1>n, <3>8, <4>1, <4>3, <4>4
      <4> QED
        BY <4>2, <4>3, <4>5
    <3>10. PaidByFailures'
      BY <1>0, <2>1 DEF PaidByFailures, Begun, Left, Times
    <3> QED
      BY <3>3, <3>9, <3>10
  <2> QED
    BY <2>3, <2>4
<1>8. CASE Ticks
  <2>1. UNCHANGED <<runs, wreq, wpc, xpc, execVars, failures>>
    BY <1>0, <1>8, OthersCallNobody DEF Ticks
  <2> QED
    BY <2>1, RemedyFrame DEF Idle
<1>9. CASE Mitigate
  <2>1. UNCHANGED <<runs, wreq, wpc, xpc, done, attempts, applied, failures>>
    BY <1>9 DEF Mitigate, vars
  <2> QED
    BY <2>1, RemedyFrame DEF Idle
<1>11. CASE UNCHANGED remedyVars
  <2>1. UNCHANGED <<runs, wreq, wpc, xpc, execVars, failures>>
    BY <1>11 DEF remedyVars, vars
  <2> QED
    BY <2>1, RemedyFrame DEF Idle
<1>4. ASSUME NEW w \in Workers, Begin(w) PROVE Goal
  <2>1. /\ xpc[w] = "called" /\ xpc' = [xpc EXCEPT ![w] = "running"]
        /\ attempts = {} /\ attempts' = {X!Attempt("report", 1, "preview")} /\ "report" \notin done
        /\ UNCHANGED <<runs, wreq, wpc, done, applied, failures>>
    BY <1>4 DEF Begin, Enter, X!Begin, vars
  <2>2. \A v \in Workers : v # w => xpc'[v] = xpc[v] /\ xpc[v] # "running"
    BY <1>0, <2>1 DEF RemedyType, OneRunner
  <2>3. xpc'[w] = "running" /\ attempts' # {}
    BY <1>0, <2>1 DEF RemedyType
  <2>4. OneRunner'
    BY <1>0, <2>1, <2>2, <2>3 DEF OneRunner, Sent
  <2>5. ASSUME NEW r, NEW i PROVE Debt(r, i)' <= Debt(r, i)
    <3>1. Called(r)' => Called(r)
      BY <2>1, <2>2, <2>3 DEF Called
    <3>2. Running(r)' => r = wreq[w] /\ Called(r)
      BY <2>1, <2>2 DEF Running, Called
    <3>3. CASE Called(r)
      BY <1>d, <3>3 DEF Debt
    <3>4. CASE ~Called(r)
      BY <1>d, <3>1, <3>2, <3>4 DEF Debt
    <3> QED
      BY <3>3, <3>4
  <2>6. PaidByCalls'
    BY <2>1, <2>5, CallsRest
  <2>8. PaidByFailures'
    <3> SUFFICES ASSUME NEW i \in 1..Steps
                 PROVE  applied["report"][i] + Left(attempts', i) <= Times(i) * (failures + 1)
      BY <2>1, <2>3 DEF PaidByFailures, Begun, Left, Times
    <3>1. Left(attempts, i) = 0 /\ Left(attempts', i) \in Nat /\ Left(attempts', i) <= Times(i)
      BY <2>1, LeftBound
    <3>2. Begun = failures /\ applied["report"][i] + Left(attempts, i) <= Times(i) * Begun
      BY <1>0, <1>n, <2>1 DEF Begun, PaidByFailures
    <3>3. /\ Times(i) * (failures + 1) = Times(i) * failures + Times(i)
          /\ Times(i) * failures \in Nat /\ Times(i) \in Nat
      BY <1>n, TimesNext DEF Times
    <3> QED
      BY <1>n, <3>1, <3>2, <3>3
  <2> QED
    BY <2>4, <2>6, <2>8
<1>5. ASSUME NEW w \in Workers, Skip(w) PROVE Goal
  <2>1. /\ xpc' = [xpc EXCEPT ![w] = "no"]
        /\ UNCHANGED <<runs, wreq, wpc, done, attempts, applied, failures>>
    BY <1>5 DEF Skip, Enter, vars
  <2>2. \A v \in Workers : xpc'[v] = IF v = w THEN "no" ELSE xpc[v]
    BY <1>0, <2>1 DEF RemedyType
  <2>3. OneRunner'
    BY <1>0, <2>1, <2>2 DEF OneRunner, Sent
  <2>4. ASSUME NEW r, NEW i PROVE Debt(r, i)' <= Debt(r, i)
    <3>1. (Called(r)' => Called(r)) /\ (Running(r)' => Running(r))
      BY <2>1, <2>2 DEF Called, Running
    <3>2. Left(attempts', i) = Left(attempts, i)
      BY <2>1
    <3>3. /\ Left(attempts, i) \in Nat /\ Left(attempts, i) <= Times(i)
          /\ Times(i)' = Times(i) /\ Times(i) \in Nat
      BY LeftBound DEF Times
    <3>4. Debt(r, i)' = IF Called(r)' THEN Times(i)
                         ELSE IF Running(r)' THEN Left(attempts, i) ELSE 0
      BY <2>1, <3>3 DEF Debt, Left, Times
    <3> QED
      BY <3>1, <3>3, <3>4 DEF Debt
  <2>5. PaidByCalls'
    BY <2>1, <2>4, CallsRest
  <2>6. PaidByFailures'
    BY <1>0, <2>1 DEF PaidByFailures, Begun, Left, Times
  <2> QED
    BY <2>3, <2>5, <2>6
<1>6. ASSUME NEW w \in Workers, RunStep(w) PROVE Goal
  <2>1. /\ xpc[w] = "running" /\ UNCHANGED <<runs, wreq, wpc>>
        /\ IF attempts' = {} THEN xpc' = [xpc EXCEPT ![w] = "no"] /\ failures' = failures + 1
                             ELSE xpc' = xpc /\ failures' = failures
    BY <1>6 DEF RunStep, Enter, vars
  <2>2. /\ attempts # {} /\ wreq[w] \in {First, Second}
        /\ \A v \in Workers : v # w => xpc[v] # "running" /\ ~(Sent(v) /\ wreq[v] = wreq[w])
    BY <1>0, <2>1, RemediationAssumption DEF OneRunner, WorkerType, Sent
  <2>3. \A v \in Workers : xpc'[v] = IF v = w /\ attempts' = {} THEN "no" ELSE xpc[v]
    BY <1>0, <2>1 DEF RemedyType
  <2>4. OneRunner'
    BY <1>0, <2>1, <2>2, <2>3 DEF OneRunner, Sent
  <2>5. /\ applied'["report"] \in [1..Steps -> Nat] /\ done' = done
        /\ \A i \in 1..Steps :
             applied'["report"][i] + Left(attempts', i) <= applied["report"][i] + Left(attempts, i)
    <3>1. X!Stop \/ \E k \in 1..Steps : X!Preview("report", k) \/ X!Act("report", k)
      BY <1>6 DEF RunStep
    <3> QED
      BY <1>0, <3>1, ExecutionStep
  <2>6. PaidByCalls'
    <3>1. \A r : Called(r)' = Called(r)
      BY <2>1, <2>3 DEF Called
    <3>2. \A r : r # wreq[w] => ~Running(r) /\ ~Running(r)'
      BY <2>1, <2>2, <2>3 DEF Running
    <3>3. ~Called(wreq[w]) /\ Running(wreq[w])
      BY <2>1, <2>2 DEF Called, Running, Sent
    <3>4. \A i : Debt(wreq[w], i) = Left(attempts, i)
      BY <3>3 DEF Debt
    <3>5. \A i : Debt(wreq[w], i)' <= Left(attempts', i)
      <4> SUFFICES ASSUME NEW i PROVE Debt(wreq[w], i)' <= Left(attempts', i)
        OBVIOUS
      <4>1. Debt(wreq[w], i)' \in {Left(attempts', i), 0}
        BY <2>1, <3>1, <3>3 DEF Debt, Left, Times
      <4> QED
        BY <4>1, LeftBound
    <3>6. \A r, i : r # wreq[w] => Debt(r, i)' = Debt(r, i)
      BY <3>1, <3>2 DEF Debt, Times
    <3>7. ASSUME NEW i \in 1..Steps
          PROVE  applied'["report"][i] + Debt(First, i)' + Debt(Second, i)'
                   <= applied["report"][i] + Debt(First, i) + Debt(Second, i)
      <4>0. /\ applied["report"][i] \in Nat /\ applied'["report"][i] \in Nat
            /\ Left(attempts, i) \in Nat /\ Left(attempts', i) \in Nat
            /\ Debt(First, i) \in Nat /\ Debt(First, i)' \in Nat
            /\ Debt(Second, i) \in Nat /\ Debt(Second, i)' \in Nat
        BY <1>d, <1>n, <2>5, LeftBound
      <4>1. applied'["report"][i] + Left(attempts', i) <= applied["report"][i] + Left(attempts, i)
        BY <2>5
      <4>2. CASE wreq[w] = First
        <5>1. Debt(Second, i)' = Debt(Second, i)
          BY <3>6, <4>2, RemediationAssumption
        <5>2. Debt(First, i) = Left(attempts, i) /\ Debt(First, i)' <= Left(attempts', i)
          BY <2>1, <3>4, <3>5, <4>2
        <5> QED
          BY <4>0, <4>1, <5>1, <5>2
      <4>3. CASE wreq[w] = Second
        <5>1. Debt(First, i)' = Debt(First, i)
          BY <3>6, <4>3, RemediationAssumption
        <5>2. Debt(Second, i) = Left(attempts, i) /\ Debt(Second, i)' <= Left(attempts', i)
          BY <2>1, <3>4, <3>5, <4>3
        <5> QED
          BY <4>0, <4>1, <5>1, <5>2
      <4> QED
        BY <2>2, <4>2, <4>3
    <3> QED
      BY <2>1, <2>5, <3>7, CallsFrame
  <2>7. PaidByFailures'
    <3> SUFFICES ASSUME NEW i \in 1..Steps
                 PROVE  applied'["report"][i] + Left(attempts', i) <= Times(i) * Begun'
      BY DEF PaidByFailures, Left, Times
    <3>1. Begun = failures + 1 /\ Begun \in Nat /\ Begun' \in Nat /\ Begun <= Begun'
      BY <1>n, <2>1, <2>2, <2>5 DEF Begun
    <3>2. applied["report"][i] + Left(attempts, i) <= Times(i) * Begun
      BY <1>0 DEF PaidByFailures
    <3>3. /\ applied["report"][i] \in Nat /\ applied'["report"][i] \in Nat
          /\ Left(attempts, i) \in Nat /\ Left(attempts', i) \in Nat
      BY <1>n, <2>5, LeftBound
    <3>4. /\ Times(i) * Begun \in Nat /\ Times(i) * Begun' \in Nat
          /\ Times(i) * Begun <= Times(i) * Begun'
      BY <3>1, TimesGrows, TimesNext
    <3>5. applied'["report"][i] + Left(attempts', i) <= applied["report"][i] + Left(attempts, i)
      BY <2>5
    <3> QED
      BY <3>2, <3>3, <3>4, <3>5
  <2> QED
    BY <2>4, <2>6, <2>7
<1>7. ASSUME NEW w \in Workers, Finish(w) PROVE Goal
  <2>1. /\ xpc[w] = "running" /\ xpc' = [xpc EXCEPT ![w] = "no"]
        /\ attempts # {} /\ attempts' = {} /\ done' = done \cup {"report"}
        /\ UNCHANGED <<runs, wreq, wpc, applied, failures>>
    BY <1>7 DEF Finish, Enter, X!Finish, vars
  <2>2. \A v \in Workers : v # w => xpc[v] # "running"
    BY <1>0, <2>1 DEF OneRunner
  <2>3. \A v \in Workers : xpc'[v] = IF v = w THEN "no" ELSE xpc[v]
    BY <1>0, <2>1 DEF RemedyType
  <2>4. OneRunner'
    BY <1>0, <2>1, <2>2, <2>3 DEF OneRunner, Sent
  <2>5. ASSUME NEW r, NEW i PROVE Debt(r, i)' <= Debt(r, i)
    <3>1. Called(r)' = Called(r)
      BY <2>1, <2>3 DEF Called
    <3>2. ~Running(r)'
      BY <2>1, <2>2, <2>3 DEF Running
    <3> QED
      BY <1>d, <3>1, <3>2 DEF Debt, Times
  <2>6. PaidByCalls'
    BY <2>1, <2>5, CallsRest
  <2>7. \A i \in 1..Steps : Left(attempts', i) = 0 /\ Left(attempts, i) \in Nat
    BY <2>1, LeftBound
  <2>8. PaidByFailures'
    <3>1. Begun' = Begun
      BY <2>1 DEF Begun
    <3> SUFFICES ASSUME NEW i \in 1..Steps
                 PROVE  applied["report"][i] + Left(attempts', i) <= Times(i) * Begun
      BY <2>1, <3>1 DEF PaidByFailures, Left, Times
    <3>2. applied["report"][i] + Left(attempts, i) <= Times(i) * Begun
      BY <1>0 DEF PaidByFailures
    <3>3. Times(i) * Begun \in Nat
      BY <1>n, TimesNext DEF Begun
    <3> QED
      BY <1>n, <2>7, <3>2, <3>3
  <2> QED
    BY <2>4, <2>6, <2>8
<1>10. CASE Die
  <2>1. /\ xpc' = [w \in Workers |-> "no"] /\ attempts' = {}
        /\ UNCHANGED <<runs, done, applied>>
        /\ failures' = IF attempts = {} THEN failures ELSE failures + 1
    BY <1>10 DEF Die, Restart
  <2>2. OneRunner'
    BY <2>1 DEF OneRunner, Sent
  <2>3. \A r, i : Debt(r, i)' = 0
    BY <2>1 DEF Debt, Called, Running
  <2>4. PaidByCalls'
    BY <1>d, <2>1, <2>3, CallsRest
  <2>5. \A i \in 1..Steps : Left(attempts', i) = 0 /\ Left(attempts, i) \in Nat
    BY <2>1, LeftBound
  <2>6. PaidByFailures'
    <3> SUFFICES ASSUME NEW i \in 1..Steps
                 PROVE  applied["report"][i] + Left(attempts', i) <= Times(i) * Begun'
      BY <2>1 DEF PaidByFailures, Left, Times
    <3>1. Begun \in Nat /\ Begun' \in Nat /\ Begun <= Begun'
      BY <1>n, <2>1 DEF Begun
    <3>2. applied["report"][i] + Left(attempts, i) <= Times(i) * Begun
      BY <1>0 DEF PaidByFailures
    <3>3. /\ Times(i) * Begun \in Nat /\ Times(i) * Begun' \in Nat
          /\ Times(i) * Begun <= Times(i) * Begun'
      BY <3>1, TimesGrows, TimesNext
    <3> QED
      BY <1>n, <2>5, <3>2, <3>3
  <2> QED
    BY <2>2, <2>4, <2>6
<1> QED
  BY <1>1, <1>2, <1>3, <1>4, <1>5, <1>6, <1>7, <1>8, <1>9, <1>10, <1>11 DEF RNext, Work

LEMMA RemedyAlways == RSpec => []RemedyInv
<1>1. RInit => RemedyType /\ OneRunner /\ PaidByCalls /\ PaidByFailures
  <2> SUFFICES ASSUME RInit PROVE RemedyType /\ OneRunner /\ PaidByCalls /\ PaidByFailures
    OBVIOUS
  <2>1. /\ tpc = "idle" /\ xpc = [w \in Workers |-> "no"] /\ failures = 0
        /\ status = "open" /\ done = {} /\ attempts = {}
        /\ DOMAIN applied = {"report"} /\ applied["report"] = [i \in 1..Steps |-> 0]
        /\ runs[First] = 0 /\ runs[Second] = 0
    BY RemediationAssumption DEF RInit, Init, X!Init
  <2>2. \A r, i : Debt(r, i) = 0
    BY <2>1 DEF Debt, Called, Running
  <2>3. \A i \in 1..Steps : Left(attempts, i) = 0 /\ Times(i) * 0 = 0
    BY <2>1, LeftBound, TimesOf
  <2>4. PaidByCalls
    BY <2>1, <2>2, <2>3 DEF PaidByCalls
  <2>5. PaidByFailures
    BY <2>1, <2>3 DEF PaidByFailures, Begun
  <2> QED
    BY <2>1, <2>4, <2>5 DEF RemedyType, OneRunner, Sent
<1>2. RSpec => []RunInv
  BY FlowImplemented, Owner, RunAlways, PTL DEF RunInv
<1> QED
  BY <1>1, <1>2, RemedyStep, RemedyTypeStep, PTL DEF RSpec, RemedyInv

\* Over two registrations of one report, racing presses and restarts, no step is
\* tried more often than people said yes, nor again without a failure before; it
\* acts once in an attempt or, when its dry-run is the command itself, twice.
THEOREM ActSafety == RSpec => []EveryActIsPaidFor
<1>1. RemedyInv => EveryActIsPaidFor
  <2> SUFFICES ASSUME RemedyInv, NEW i \in 1..Steps
               PROVE  /\ applied["report"][i]
                           <= Times(i) * Cardinality({r \in Requests : Granted(r)})
                      /\ applied["report"][i] <= Times(i) * (1 + failures)
    BY DEF EveryActIsPaidFor
  <2> DEFINE Yes == {r \in Requests : Granted(r)}
  <2>0. /\ applied["report"][i] \in Nat /\ failures \in Nat
        /\ runs[First] \in Nat /\ runs[Second] \in Nat
        /\ First # Second /\ Requests = {First, Second}
    BY RemediationAssumption DEF RemedyInv, RemedyType, RunInv, OwnerInv, TypeOK, WorkerType
  <2>1. \A r \in Requests : runs[r] <= 1 /\ (runs[r] = 1 => r \in Yes)
    BY DEF RemedyInv, RunInv, RunOnce, Granted
  <2>2. Yes \in SUBSET {First, Second}
    BY <2>0
  <2>3. Cardinality({First}) = 1 /\ Cardinality({Second}) = 1 /\ Cardinality({First, Second}) = 2
    <3>1. /\ IsFiniteSet({First}) /\ Cardinality({First}) = 1 /\ Cardinality({Second}) = 1
          /\ Second \notin {First} /\ {First} \cup {Second} = {First, Second}
      BY <2>0, FS_Singleton
    <3>2. Cardinality({First} \cup {Second}) = Cardinality({First}) + 1
      BY <3>1, FS_AddElement
    <3> QED
      BY <3>1, <3>2
  <2>4. runs[First] + runs[Second] <= Cardinality(Yes) /\ Cardinality(Yes) \in Nat
    <3>1. /\ runs[First] \in 0..1 /\ runs[Second] \in 0..1
          /\ runs[First] = 1 => First \in Yes
          /\ runs[Second] = 1 => Second \in Yes
      BY <2>0, <2>1
    <3>2. \/ Yes = {} /\ Cardinality(Yes) = 0
          \/ Yes = {First} /\ Cardinality(Yes) = 1
          \/ Yes = {Second} /\ Cardinality(Yes) = 1
          \/ Yes = {First, Second} /\ Cardinality(Yes) = 2
      BY <2>2, <2>3, FS_EmptySet
    <3> HIDE DEF Yes
    <3> QED
      BY <2>0, <3>1, <3>2
  <2>5. applied["report"][i] <= Times(i) * Cardinality(Yes)
    <3> DEFINE n == runs[First] + runs[Second]
    <3>1. applied["report"][i] + Debt(First, i) + Debt(Second, i) <= Times(i) * n
      BY DEF RemedyInv, PaidByCalls
    <3>2. n \in Nat /\ n <= Cardinality(Yes)
      BY <2>0, <2>4
    <3> HIDE DEF n, Yes
    <3>3. /\ Times(i) * n \in Nat /\ Times(i) * Cardinality(Yes) \in Nat
          /\ Times(i) * n <= Times(i) * Cardinality(Yes)
      BY <2>4, <3>2, TimesGrows, TimesNext
    <3> QED
      BY <2>0, <3>1, <3>3, DebtBound
  <2>6. applied["report"][i] <= Times(i) * (1 + failures)
    <3>1. Begun \in Nat /\ 1 + failures \in Nat /\ Begun <= 1 + failures
      BY <2>0 DEF Begun
    <3>2. /\ Times(i) * Begun \in Nat /\ Times(i) * (1 + failures) \in Nat
          /\ Times(i) * Begun <= Times(i) * (1 + failures)
      BY <3>1, TimesGrows, TimesNext
    <3>3. applied["report"][i] + Left(attempts, i) <= Times(i) * Begun /\ Left(attempts, i) \in Nat
      BY LeftBound DEF RemedyInv, PaidByFailures
    <3> QED
      BY <2>0, <3>2, <3>3
  <2> QED
    BY <2>5, <2>6
<1> QED
  BY <1>1, RemedyAlways, PTL

-----------------------------------------------------------------------------
(* The daemon's executor.                                                  *)

\* Every step of the approvals leaves the timeline alone or writes one event.
LEMMA OneEvent ==
  ASSUME TypeOK, [Next]_vars
  PROVE  UNCHANGED trail \/ \E r \in Requests, kind \in Kinds : Log(r, kind)
<1> DEFINE Goal == UNCHANGED trail \/ \E r \in Requests, kind \in Kinds : Log(r, kind)
<1>0. /\ \A w \in Workers : wreq[w] \in Requests
      /\ cur \in Requests
  BY DEF TypeOK, WorkerType, SchedType
<1> USE DEF gateVars, rowVars, workerVars, schedVars, Kinds
<1>1. ASSUME NEW r \in Requests, SubmitReadOnly(r) \/ Submit(r) \/ Register(r) PROVE Goal
  BY <1>1 DEF SubmitReadOnly, Submit, Register, NotifyRequested, RecordPending,
              DeliverButtons, RegisterFails
<1>2. ASSUME NEW w \in Workers, NEW r \in Requests, NEW kind \in {"approve", "reject"},
             Callback(w, r, kind)
      PROVE  Goal
  BY <1>2 DEF Callback
<1>3. ASSUME NEW w \in Workers, Handle(w) PROVE Goal
  BY <1>0, <1>3 DEF Handle, Take, Decide, IndexOverride, MarkRejected, GetReport, ExecuteApproved
<1>4. CASE Schedule
  BY <1>0, <1>4 DEF Schedule, Tick, Lookup, Expire, LogEscalated, Abandon, LogAbandoned, MarkAbandoned
<1>5. CASE Restart
  BY <1>5 DEF Restart
<1>6. CASE UNCHANGED vars
  BY <1>6 DEF vars
<1> QED
  BY <1>1, <1>2, <1>3, <1>4, <1>5, <1>6 DEF Next

\* Nobody takes an approval back.
LEMMA GrantsStay ==
  ASSUME TypeOK, [Next]_vars, NEW q \in Requests, Granted(q)
  PROVE  Granted(q)'
<1>1. CASE UNCHANGED trail
  BY <1>1 DEF Granted, Occurs
<1>2. CASE \E r \in Requests, kind \in Kinds : Log(r, kind)
  BY <1>2, LogGrows DEF Granted, TypeOK
<1> QED
  BY <1>1, <1>2, OneEvent

\* The executions of the daemon are those of ExecutorContract, with the grants in
\* the timelines of the two requests as its grant and a death as an attempt cut short.
THEOREM ExecutorImplemented == RSpec => X!Spec
<1> DEFINE Granting == \E r \in Requests : Granted(r)
<1>1. RInit => X!Init
  BY DEF RInit
<1>2. ASSUME TypeOK, [RNext]_remedyVars
      PROVE  X!Next \/ UNCHANGED X!cvars
  <2>1. Granting => Granting'
    BY <1>2, FlowStep, GrantsStay
  <2>2. ASSUME UNCHANGED <<done, attempts, applied>>,
               status' \in {status, "mitigated"}
        PROVE  X!Next
    <3>1. Granting' \in {Granting, TRUE}
      BY <2>1
    <3> QED
      BY <2>2, <3>1 DEF X!Next, X!Outside
  <2>3. ASSUME UNCHANGED vars PROVE Granting' = Granting
    BY <2>3 DEF vars, Granted, Occurs
  <2> USE DEF execVars
  <2>4. CASE Triage \/ Ticks \/ Mitigate
    BY <2>2, <2>4 DEF Triage, StartTriage, PipelineEnds, RegisterStep, Ticks, Mitigate
  <2>5. ASSUME NEW w \in Workers, Answer(w) \/ HandleStep(w) \/ Skip(w)
        PROVE  X!Next
    BY <2>2, <2>5 DEF Answer, HandleStep, Skip
  <2>6. ASSUME NEW w \in Workers, Begin(w) \/ Finish(w)
        PROVE  X!Next
    BY <2>6 DEF Begin, Finish, X!Next
  <2>7. ASSUME NEW w \in Workers, RunStep(w) PROVE X!Next
    BY <2>7 DEF RunStep, X!Next
  <2>8. CASE Die
    <3>1. CASE attempts = {}
      BY <2>2, <2>8, <3>1 DEF Die
    <3>2. CASE attempts # {}
      <4>1. Granting' = Granting
        BY <2>8 DEF Die, Restart, Granted, Occurs
      <4> QED
        BY <2>8, <3>2, <4>1 DEF Die, X!Next, X!Stop
    <3> QED
      BY <3>1, <3>2
  <2>9. CASE UNCHANGED remedyVars
    BY <2>2, <2>9 DEF remedyVars
  <2> QED
    BY <1>2, <2>4, <2>5, <2>6, <2>7, <2>8, <2>9 DEF RNext, Work
<1>3. RSpec => []TypeOK
  BY FlowImplemented, TypeCorrect, PTL
<1> QED
  BY <1>1, <1>2, <1>3, PTL DEF RSpec, X!Spec
=============================================================================
