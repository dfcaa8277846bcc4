------------------------- MODULE AlertIngest_proofs -------------------------
(***************************************************************************)
(* Proofs about AlertIngest, for every set of notifications, batch of      *)
(* alerts, limit of the store and bound on calls, failures and crashes:    *)
(* the incidents table makes repetition harmless, the idempotency store    *)
(* never vouches for an alert that is not in it.                           *)
(***************************************************************************)
EXTENDS AlertIngest, FiniteSetTheorems, SequenceTheorems, TLAPS

-----------------------------------------------------------------------------
(* The inductive invariants.                                               *)

\* Call i of the core works on a new incident of fingerprint f.
Working(i, f) == rpc[i].alert.fp = f /\ rpc[i].state \in {"record", "triage"}

\* The call that inserted the row is the one that records and triages, and
\* stands exactly where the counts say.
OneCreator ==
  \A f \in Fingerprints :
    /\ f \notin incidents => recorded[f] = 0 /\ triages[f] = 0
    /\ triages[f] <= recorded[f] /\ recorded[f] <= 1
    /\ \A i \in DOMAIN rpc : Working(i, f) =>
         /\ f \in incidents /\ triages[f] = 0
         /\ recorded[f] = (IF rpc[i].state = "record" THEN 0 ELSE 1)
    /\ \A i, j \in DOMAIN rpc : Working(i, f) /\ Working(j, f) => i = j

CreatorInv == OneCreator /\ UntriagedOnlyAfterDeath

\* What the core answered, the store remembers and the handler has passed is in
\* the incidents table.
StoredBehind ==
  /\ \A i \in DOMAIN rpc : rpc[i].state = "answered" => rpc[i].alert.fp \in incidents
  /\ \A k \in entries : k.fp \in incidents
  /\ \A n \in Notifications : pc[n] = "idle" => pos[n] = 1
  /\ \A n \in Notifications : \A j \in DOMAIN Alerts[n] :
       (am[n] = "acked" \/ (pc[n] # "idle" /\ j < pos[n])) => Alerts[n][j].fp \in incidents

\* A notification is acknowledged only with a row for every alert of it: the
\* promise the gate's 200 makes to Alertmanager.
AckedIsStored ==
  \A n \in Notifications :
    am[n] = "acked" => \A j \in DOMAIN Alerts[n] : Alerts[n][j].fp \in incidents

IngestInv == TypeOK /\ CreatorInv /\ StoredBehind

-----------------------------------------------------------------------------
(* Lemmas about the operators of the model.                                *)

Call == [alert : Keys, state : States]

\* A call of the core moves on alone and keeps its alert.
LEMMA GotoCall ==
  ASSUME rpc \in Seq(Call), NEW i \in DOMAIN rpc, NEW s \in States, Goto(i, s)
  PROVE  /\ rpc' \in Seq(Call) /\ DOMAIN rpc' = DOMAIN rpc
         /\ \A j \in DOMAIN rpc : /\ rpc'[j].alert = rpc[j].alert
                                /\ rpc'[j].state = IF j = i THEN s ELSE rpc[j].state
<1>1. /\ \A j \in DOMAIN rpc : rpc[j] \in Call
      /\ DOMAIN rpc = 1..Len(rpc) /\ Len(rpc) \in Nat
  BY ElementOfSeq, LenProperties
<1>2. rpc' = [rpc EXCEPT ![i] = [rpc[i] EXCEPT !.state = s]]
  BY DEF Goto
<1>3. [rpc[i] EXCEPT !.state = s] \in Call /\ [rpc[i] EXCEPT !.state = s].alert = rpc[i].alert
      /\ [rpc[i] EXCEPT !.state = s].state = s
  BY <1>1 DEF Call
<1>4. rpc' \in Seq(Call)
  BY <1>1, <1>2, <1>3, ExceptSeq
<1> QED
  BY <1>2, <1>3, <1>4

\* A new call joins at the end.
LEMMA AppendCall ==
  ASSUME rpc \in Seq(Call), NEW c \in Call, rpc' = Append(rpc, c)
  PROVE  /\ rpc' \in Seq(Call) /\ Len(rpc) \in Nat
         /\ DOMAIN rpc = 1..Len(rpc) /\ DOMAIN rpc' = 1..Len(rpc) + 1
         /\ \A j \in DOMAIN rpc : rpc'[j] = rpc[j]
         /\ rpc'[Len(rpc) + 1] = c
BY AppendProperties, LenProperties

\* A handler stands at an alert of its notification.
LEMMA AlertType ==
  ASSUME GateType, NEW n \in Notifications
  PROVE  /\ Alerts[n] \in Seq(Keys) /\ Alert(n) \in Keys /\ Len(Alerts[n]) \in Nat \ {0}
         /\ DOMAIN Alerts[n] = 1..Len(Alerts[n]) /\ pos[n] \in 1..Len(Alerts[n])
<1>1. Alerts[n] \in Seq(Keys) /\ Alerts[n] # <<>> /\ pos[n] \in DOMAIN Alerts[n]
  BY IngestAssumption DEF GateType
<1> QED
  BY <1>1, ElementOfSeq, LenProperties, EmptySeq DEF Alert

-----------------------------------------------------------------------------
(* The steps of the gate's handlers on their own variables.                *)

\* Answering a notification, or going on to its next alert.
LEMMA AnswerType ==
  ASSUME GateType, NEW n \in Notifications, NEW success \in BOOLEAN, Answer(n, success),
         rpc' = rpc
  PROVE  GateType'
<1>1. 1 \in DOMAIN Alerts[n]
  BY AlertType
<1>2. \A m \in Notifications : m # n =>
        UNCHANGED <<am[m], pc[m], pos[m], waits[m]>>
  BY DEF GateType, Answer
<1> QED
  BY <1>1, <1>2 DEF GateType, Answer, Alert

\* So does going on to the next alert.
LEMMA NextType ==
  ASSUME GateType, NEW n \in Notifications, NextAlert(n), rpc' = rpc
  PROVE  GateType'
<1>1. CASE pos[n] = Len(Alerts[n])
  BY <1>1, AnswerType DEF NextAlert
<1>2. CASE pos[n] # Len(Alerts[n])
  <2>1. pos[n] + 1 \in DOMAIN Alerts[n] /\ pos[n] + 1 \in Nat
    BY <1>2, AlertType
  <2>2. /\ pos' = [pos EXCEPT ![n] = pos[n] + 1] /\ pc' = [pc EXCEPT ![n] = "lookup"]
        /\ waits' = [waits EXCEPT ![n] = 0] /\ am' = am
    BY <1>2 DEF NextAlert
  <2>3. \A m \in Notifications : m # n => UNCHANGED <<pc[m], pos[m], waits[m]>>
    BY <2>2 DEF GateType
  <2> QED
    BY <2>1, <2>2, <2>3 DEF GateType, Alert
<1> QED
  BY <1>1, <1>2

\* The handlers do not notice the steps of the core.
LEMMA GateFrame ==
  ASSUME GateType, UNCHANGED <<am, gateVars>>, DOMAIN rpc \subseteq DOMAIN rpc',
         \A i \in DOMAIN rpc : rpc'[i].alert = rpc[i].alert
  PROVE  GateType'
BY DEF GateType, gateVars, Alert

\* Store.Put stays within the limit of the store.
LEMMA PutType ==
  ASSUME CacheType, NEW n \in Notifications, Alert(n) \in Keys, Put(n)
  PROVE  CacheType'
<1> DEFINE k == Alert(n)
           kept == IF Cardinality(entries) >= maxEntries THEN entries \ expired ELSE entries
<1>1. /\ kept \subseteq entries /\ IsFiniteSet(kept)
      /\ Cardinality(kept) \in Nat /\ Cardinality(kept) <= maxEntries /\ maxEntries \in Nat
  <2>1. kept \subseteq entries
    OBVIOUS
  <2>2. Cardinality(kept) <= Cardinality(entries) /\ IsFiniteSet(kept)
    BY <2>1, FS_Subset DEF CacheType
  <2> QED
    BY <2>1, <2>2, FS_CardinalityType, IngestAssumption DEF CacheType
<1>2. IsFiniteSet(kept \cup {k}) /\ Cardinality(kept \cup {k}) <= Cardinality(kept) + 1
  BY <1>1, FS_AddElement
<1>3. Cardinality(kept) < maxEntries => Cardinality(kept \cup {k}) <= maxEntries
  BY <1>1, <1>2, FS_CardinalityType
<1> HIDE DEF kept, k
<1> QED
  BY <1>1, <1>2, <1>3 DEF CacheType, Put, cacheVars, kept, k

-----------------------------------------------------------------------------
(* Types.                                                                  *)

\* The calls a dead core was serving have failed.
LEMMA CrashSeq ==
  ASSUME rpc \in Seq(Call), CoreCrash
  PROVE  /\ rpc' \in Seq(Call) /\ DOMAIN rpc' = DOMAIN rpc
         /\ \A i \in DOMAIN rpc :
              /\ rpc'[i].alert = rpc[i].alert
              /\ rpc'[i].state = IF rpc[i].state = "answered" THEN "answered" ELSE "failed"
<1>1. DOMAIN rpc = 1..Len(rpc) /\ Len(rpc) \in Nat
  BY LenProperties
<1>2. ASSUME NEW i \in DOMAIN rpc
      PROVE  /\ rpc'[i] \in Call /\ rpc'[i].alert = rpc[i].alert
             /\ rpc'[i].state = IF rpc[i].state = "answered" THEN "answered" ELSE "failed"
  <2>1. rpc[i] \in Call
    BY <1>1, ElementOfSeq
  <2>2. rpc'[i] = IF rpc[i].state = "answered" THEN rpc[i] ELSE [rpc[i] EXCEPT !.state = "failed"]
    BY DEF CoreCrash
  <2> QED
    BY <2>1, <2>2 DEF Call, States
<1>3. DOMAIN rpc' = DOMAIN rpc
  BY DEF CoreCrash
<1>4. rpc' \in [1..Len(rpc) -> Call]
  <2>1. rpc' = [i \in DOMAIN rpc |-> rpc'[i]]
    BY DEF CoreCrash
  <2> QED
    BY <1>1, <1>2, <2>1
<1>5. rpc' \in Seq(Call)
  BY <1>1, <1>4
<1> QED
  BY <1>2, <1>3, <1>5

\* One step per action.
LEMMA TypeStep == TypeOK /\ [Next]_vars => TypeOK'
<1> SUFFICES ASSUME TypeOK, [Next]_vars PROVE TypeOK'
  OBVIOUS
<1>0. /\ GateType /\ CacheType /\ CoreType /\ BoundType
      /\ MaxFailures \in Nat /\ MaxCrashes \in Nat /\ rpc \in Seq(Call)
  BY IngestAssumption DEF TypeOK, CoreType, Call
<1>c. UNCHANGED cacheVars => CacheType'
  BY <1>0 DEF CacheType, cacheVars
<1>b. \/ failures' = failures \/ Fail
      => (UNCHANGED <<crashes, deaths>> => BoundType')
  BY <1>0 DEF BoundType, Fail
<1>1. ASSUME NEW n \in Notifications, Receive(n) PROVE TypeOK'
  <2>1. GateType'
    BY <1>0, <1>1 DEF GateType, Receive, Alert
  <2>2. BoundType'
    BY <1>1, <1>b DEF Receive
  <2> QED
    BY <1>0, <1>1, <1>c, <2>1, <2>2 DEF TypeOK, CoreType, Receive, coreVars
<1>2. ASSUME NEW n \in Notifications, Lookup(n) PROVE TypeOK'
  <2>1. CASE Alert(n) \in entries \ expired
    <3>1. GateType' /\ rpc' = rpc
      BY <1>0, <1>2, <2>1, NextType DEF Lookup
    <3> QED
      BY <1>0, <1>2, <1>c, <1>b, <3>1 DEF TypeOK, CoreType, Lookup, coreVars, bounds
  <2>2. CASE Alert(n) \notin entries \ expired
    <3> DEFINE c == [alert |-> Alert(n), state |-> "create"]
    <3>1. c \in Call
      BY <1>0, AlertType DEF Call, States
    <3>2. rpc' = Append(rpc, c) /\ UNCHANGED <<am, pos>>
          /\ waits' = [waits EXCEPT ![n] = Len(rpc) + 1] /\ pc' = [pc EXCEPT ![n] = "report"]
      BY <1>2, <2>2 DEF Lookup
    <3> HIDE DEF c
    <3>3. /\ rpc' \in Seq(Call) /\ Len(rpc) \in Nat
          /\ DOMAIN rpc = 1..Len(rpc) /\ DOMAIN rpc' = 1..Len(rpc) + 1
          /\ \A j \in DOMAIN rpc : rpc'[j] = rpc[j]
          /\ rpc'[Len(rpc) + 1] = c
      BY <1>0, <3>1, <3>2, AppendCall
    <3>4. GateType'
      <4>1. waits' \in [Notifications -> Nat] /\ pc' \in [Notifications -> {"idle", "lookup", "report"}]
        BY <1>0, <3>2, <3>3 DEF GateType
      <4>2. ASSUME NEW m \in Notifications, pc'[m] = "report"
            PROVE  waits'[m] \in DOMAIN rpc' /\ rpc'[waits'[m]].alert = Alert(m)
        <5>1. CASE m = n
          BY <1>0, <3>2, <3>3, <5>1 DEF GateType, c
        <5>2. CASE m # n
          BY <1>0, <3>2, <3>3, <4>2, <5>2 DEF GateType
        <5> QED
          BY <5>1, <5>2
      <4> QED
        BY <1>0, <3>2, <4>1, <4>2 DEF GateType, Alert
    <3> QED
      BY <1>0, <1>2, <1>c, <1>b, <3>3, <3>4 DEF TypeOK, CoreType, Call, Lookup, coreVars, bounds
  <2> QED
    BY <2>1, <2>2
<1>3. ASSUME NEW n \in Notifications, ReportFailed(n) PROVE TypeOK'
  <2>1. GateType'
    BY <1>0, <1>3, AnswerType DEF ReportFailed
  <2>2. BoundType'
    BY <1>3, <1>b DEF ReportFailed
  <2> QED
    BY <1>0, <1>3, <1>c, <2>1, <2>2 DEF TypeOK, CoreType, ReportFailed, coreVars
<1>4. ASSUME NEW n \in Notifications, Reported(n) PROVE TypeOK'
  <2>1. GateType'
    BY <1>0, <1>4, NextType DEF Reported
  <2>2. CacheType'
    BY <1>0, <1>4, AlertType, PutType DEF Reported
  <2> QED
    BY <1>0, <1>4, <1>b, <2>1, <2>2 DEF TypeOK, CoreType, Reported, coreVars, bounds
<1>5. ASSUME NEW k \in Keys, Expire(k) PROVE TypeOK'
  <2>1. GateType'
    BY <1>0, <1>5 DEF GateType, gateVars, Expire, Alert
  <2>2. CacheType'
    BY <1>0, <1>5 DEF CacheType, Expire
  <2>3. BoundType'
    BY <1>5, <1>b DEF Expire
  <2> QED
    BY <1>0, <1>5, <2>1, <2>2, <2>3 DEF TypeOK, CoreType, Expire, coreVars
<1>6. ASSUME NEW i \in DOMAIN rpc, Serve(i) PROVE TypeOK'
  <2>1. rpc[i] \in Call
    BY <1>0, ElementOfSeq, LenProperties
  <2>2. rpc[i].alert.fp \in Fingerprints
    BY <2>1 DEF Call, Keys
  <2>3. \E s \in States : Goto(i, s)
    BY <1>6 DEF Serve, Create, RecordCreated, Triage, States
  <2>4. rpc' \in Seq(Call) /\ GateType'
    BY <1>0, <1>6, <2>3, GotoCall, GateFrame
       DEF Serve, Create, RecordCreated, Triage
  <2>5. CacheType' /\ BoundType'
    BY <1>6, <1>c, <1>b DEF Serve, Create, RecordCreated, Triage, bounds
  <2>6. CoreType'
    <3> DEFINE f == rpc[i].alert.fp
    <3>1. recorded[f] + 1 \in Nat /\ triages[f] + 1 \in Nat
      BY SMTT(30), <1>0, <2>2 DEF CoreType
    <3>2. incidents' = incidents \/ incidents' = incidents \cup {f}
      BY <1>6 DEF Serve, Create, RecordCreated, Triage
    <3>3. recorded' = recorded \/ recorded' = [recorded EXCEPT ![f] = recorded[f] + 1]
      BY <1>6 DEF Serve, Create, RecordCreated, Triage
    <3>4. triages' = triages \/ triages' = [triages EXCEPT ![f] = triages[f] + 1]
      BY <1>6 DEF Serve, Create, RecordCreated, Triage
    <3> HIDE DEF f
    <3> QED
      BY SMTT(30), <1>0, <2>2, <2>4, <3>1, <3>2, <3>3, <3>4 DEF CoreType, Call, f
  <2> QED
    BY <2>4, <2>5, <2>6 DEF TypeOK
<1>7. CASE GateCrash
  <2>1. GateType'
    BY <1>0, <1>7, AlertType DEF GateType, GateCrash, Alert
  <2>2. CacheType'
    BY <1>7, FS_EmptySet, IngestAssumption DEF CacheType, GateCrash
  <2>3. BoundType'
    BY <1>0, <1>7 DEF BoundType, GateCrash
  <2> QED
    BY <1>0, <1>7, <2>1, <2>2, <2>3 DEF TypeOK, CoreType, GateCrash, coreVars
<1>8. CASE CoreCrash
  <2>1. GateType'
    BY <1>0, <1>8, CrashSeq, GateFrame DEF CoreCrash
  <2>2. BoundType'
    BY <1>0, <1>8 DEF BoundType, CoreCrash
  <2> QED
    BY <1>0, <1>8, <1>c, <2>1, <2>2, CrashSeq DEF TypeOK, CoreType, Call, CoreCrash, coreVars
<1>9. CASE UNCHANGED vars
  BY <1>9 DEF TypeOK, GateType, CacheType, CoreType, BoundType, Alert,
              vars, gateVars, cacheVars, coreVars, bounds
<1> QED
  BY <1>1, <1>2, <1>3, <1>4, <1>5, <1>6, <1>7, <1>8, <1>9 DEF Next, Handle

\* The variables stay in their types; in particular the idempotency store never
\* holds more than maxEntries keys.
THEOREM TypeCorrect == Spec => []TypeOK
<1>1. Init => TypeOK
  <2> SUFFICES ASSUME Init PROVE TypeOK
    OBVIOUS
  <2>1. \A n \in Notifications : 1 \in DOMAIN Alerts[n]
    BY IngestAssumption, EmptySeq, LenProperties
  <2>2. GateType
    BY <2>1 DEF Init, GateType
  <2>3. CacheType
    BY FS_EmptySet, IngestAssumption DEF Init, CacheType
  <2>4. CoreType /\ BoundType
    BY EmptySeq, IngestAssumption DEF Init, CoreType, BoundType
  <2> QED
    BY <2>2, <2>3, <2>4 DEF TypeOK
<1> QED
  BY <1>1, TypeStep, PTL DEF Spec

-----------------------------------------------------------------------------
(* One call creates an incident, records it and triages it.                *)

\* The gate's own steps do not disturb it.
LEMMA CreatorFrame ==
  ASSUME CreatorInv, UNCHANGED <<coreVars, rpc, deaths>>
  PROVE  CreatorInv'
BY DEF CreatorInv, OneCreator, UntriagedOnlyAfterDeath, Working, coreVars

\* A call that arrives works on nothing yet.
LEMMA CreatorCall ==
  ASSUME CreatorInv, rpc \in Seq(Call), NEW k \in Keys,
         rpc' = Append(rpc, [alert |-> k, state |-> "create"]), UNCHANGED <<coreVars, deaths>>
  PROVE  CreatorInv'
<1> DEFINE c == [alert |-> k, state |-> "create"]
<1>1. c \in Call /\ c.state = "create"
  BY DEF Call, States
<1> HIDE DEF c
<1>2. /\ Len(rpc) \in Nat /\ DOMAIN rpc = 1..Len(rpc) /\ DOMAIN rpc' = 1..Len(rpc) + 1
      /\ \A j \in DOMAIN rpc : rpc'[j] = rpc[j]
      /\ rpc'[Len(rpc) + 1] = c
  BY <1>1, AppendCall DEF c
<1>3. \A i \in DOMAIN rpc', f \in Fingerprints : Working(i, f)' => i \in DOMAIN rpc /\ Working(i, f)
  BY <1>1, <1>2 DEF Working
<1>4. OneCreator'
  BY <1>2, <1>3 DEF CreatorInv, OneCreator, coreVars
<1>5. UntriagedOnlyAfterDeath'
  BY <1>2 DEF CreatorInv, UntriagedOnlyAfterDeath, coreVars
<1> QED
  BY <1>4, <1>5 DEF CreatorInv

\* The three steps of a call of the core.
LEMMA CreatorServe ==
  ASSUME TypeOK, CreatorInv, NEW i \in DOMAIN rpc, Serve(i)
  PROVE  CreatorInv'
<1> DEFINE f == rpc[i].alert.fp
<1>1. rpc \in Seq(Call) /\ rpc[i] \in Call
  BY ElementOfSeq, LenProperties DEF TypeOK, CoreType, Call
<1>2. f \in Fingerprints /\ rpc[i].state \in States
  BY <1>1 DEF Call, Keys
<1>3. /\ recorded \in [Fingerprints -> Nat] /\ triages \in [Fingerprints -> Nat]
      /\ incidents \subseteq Fingerprints
  BY DEF TypeOK, CoreType
<1> HIDE DEF f
<1>m. ASSUME NEW s \in States, Goto(i, s)
      PROVE  /\ DOMAIN rpc' = DOMAIN rpc
             /\ \A j \in DOMAIN rpc, g \in Fingerprints : j # i => (Working(j, g)' <=> Working(j, g))
             /\ \A j \in DOMAIN rpc : rpc'[j].alert = rpc[j].alert
             /\ \A j \in DOMAIN rpc : j # i => rpc'[j].state = rpc[j].state
             /\ rpc'[i].state = s
             /\ \A g \in Fingerprints : Working(i, g)' <=> g = f /\ s \in {"record", "triage"}
  BY <1>1, <1>m, GotoCall DEF Working, f
<1>c. deaths' = deaths
  BY DEF Serve, Create, RecordCreated, Triage, bounds
<1>w. \A j \in DOMAIN rpc, g \in Fingerprints :
        Working(j, g) <=> rpc[j].alert.fp = g /\ rpc[j].state \in {"record", "triage"}
  BY DEF Working
<1>u. /\ \A g \in Fingerprints :
           /\ g \notin incidents => recorded[g] = 0 /\ triages[g] = 0
           /\ triages[g] <= recorded[g] /\ recorded[g] <= 1
           /\ \A j \in DOMAIN rpc : Working(j, g) =>
                /\ g \in incidents /\ triages[g] = 0
                /\ recorded[g] = (IF rpc[j].state = "record" THEN 0 ELSE 1)
           /\ \A j, k \in DOMAIN rpc : Working(j, g) /\ Working(k, g) => j = k
      /\ \A g \in incidents : triages[g] = 0 /\ deaths = 0 => \E j \in DOMAIN rpc : Working(j, g)
  BY DEF CreatorInv, OneCreator, UntriagedOnlyAfterDeath, Working
<1>q. ASSUME /\ DOMAIN rpc' = DOMAIN rpc
             /\ \A g \in Fingerprints :
                  /\ g \notin incidents' => recorded'[g] = 0 /\ triages'[g] = 0
                  /\ triages'[g] <= recorded'[g] /\ recorded'[g] <= 1
                  /\ \A j \in DOMAIN rpc : Working(j, g)' =>
                       /\ g \in incidents' /\ triages'[g] = 0
                       /\ recorded'[g] = (IF rpc'[j].state = "record" THEN 0 ELSE 1)
                  /\ \A j, k \in DOMAIN rpc : Working(j, g)' /\ Working(k, g)' => j = k
             /\ \A g \in incidents' : triages'[g] = 0 /\ deaths = 0 =>
                  \E j \in DOMAIN rpc : Working(j, g)'
      PROVE  CreatorInv'
  BY <1>q, <1>c DEF CreatorInv, OneCreator, UntriagedOnlyAfterDeath, Working
<1>4. CASE Create(i) /\ f \in incidents
  <2>1. Goto(i, "answered") /\ UNCHANGED coreVars /\ rpc[i].state = "create" /\ "answered" \in States
    BY <1>4 DEF Create, coreVars, f, States
  <2> QED
    BY <1>2, <1>3, <1>u, <1>w, <1>q, <1>m, <2>1 DEF coreVars
<1>5. CASE Create(i) /\ f \notin incidents
  <2>1. /\ Goto(i, "record") /\ incidents' = incidents \cup {f} /\ UNCHANGED <<recorded, triages>>
        /\ rpc[i].state = "create" /\ "record" \in States
    BY <1>5 DEF Create, f, States
  <2> QED
    BY <1>2, <1>3, <1>5, <1>u, <1>w, <1>q, <1>m, <2>1
<1>6. CASE RecordCreated(i)
  <2>1. /\ Goto(i, "triage") /\ UNCHANGED <<incidents, triages>>
        /\ recorded' = [recorded EXCEPT ![f] = recorded[f] + 1]
        /\ rpc[i].state = "record" /\ "triage" \in States
    BY <1>6 DEF RecordCreated, f, States
  <2>2. Working(i, f) /\ recorded[f] = 0 /\ triages[f] = 0 /\ f \in incidents
    BY <1>2, <1>u, <2>1 DEF Working, f
  <2> QED
    BY <1>2, <1>3, <1>u, <1>w, <1>q, <1>m, <2>1, <2>2
<1>7. CASE Triage(i)
  <2>1. PICK s \in {"answered", "failed"} : Goto(i, s)
    BY <1>7 DEF Triage
  <2>2. /\ UNCHANGED <<incidents, recorded>> /\ triages' = [triages EXCEPT ![f] = triages[f] + 1]
        /\ rpc[i].state = "triage" /\ s \in States
    BY <1>7 DEF Triage, f, States
  <2>3. Working(i, f) /\ recorded[f] = 1 /\ triages[f] = 0 /\ f \in incidents
    BY <1>2, <1>u, <2>2 DEF Working, f
  <2> QED
    BY <1>2, <1>3, <1>u, <1>w, <1>q, <1>m, <2>1, <2>2, <2>3
<1> QED
  BY <1>4, <1>5, <1>6, <1>7 DEF Serve

\* One step per action that reaches the core's variables.
LEMMA CreatorStep == TypeOK /\ CreatorInv /\ [Next]_vars => CreatorInv'
<1> SUFFICES ASSUME TypeOK, CreatorInv, [Next]_vars PROVE CreatorInv'
  OBVIOUS
<1>0. rpc \in Seq(Call) /\ GateType /\ deaths \in Nat
  BY IngestAssumption DEF TypeOK, CoreType, BoundType, Call
<1>1. CASE UNCHANGED <<coreVars, rpc, deaths>>
  BY <1>1, CreatorFrame
<1>2. ASSUME NEW n \in Notifications, Lookup(n) PROVE CreatorInv'
  <2>1. \/ UNCHANGED <<coreVars, rpc, deaths>>
        \/ rpc' = Append(rpc, [alert |-> Alert(n), state |-> "create"]) /\ UNCHANGED <<coreVars, deaths>>
    BY <1>2 DEF Lookup, bounds
  <2> QED
    BY <1>0, <1>1, <2>1, AlertType, CreatorCall
<1>3. ASSUME NEW i \in DOMAIN rpc, Serve(i) PROVE CreatorInv'
  BY <1>3, CreatorServe
<1>4. CASE CoreCrash
  <2>1. \A f \in Fingerprints, i \in DOMAIN rpc' : ~Working(i, f)'
    BY <1>0, <1>4, CrashSeq DEF Working
  <2>2. deaths' # 0 /\ UNCHANGED coreVars
    BY <1>0, <1>4 DEF CoreCrash
  <2>3. OneCreator'
    BY <2>1, <2>2 DEF CreatorInv, OneCreator, coreVars
  <2> QED
    BY <2>2, <2>3 DEF CreatorInv, UntriagedOnlyAfterDeath
<1> QED
  BY <1>1, <1>2, <1>3, <1>4
     DEF Next, Handle, Receive, ReportFailed, Reported, Expire, GateCrash, vars, coreVars, bounds

\* CreatorInv is an invariant.
LEMMA CreatorAlways == Spec => []CreatorInv
<1>1. Init => CreatorInv
  BY DEF Init, CreatorInv, OneCreator, UntriagedOnlyAfterDeath, Working
<1> QED
  BY <1>1, CreatorStep, TypeCorrect, PTL DEF Spec

\* An alert is triaged once, whatever repeats it: retries of Alertmanager, two
\* Alertmanagers, expired entries, a restart of the gate or of the core.
THEOREM OnceSafety == Spec => []TriagedOnce
<1>1. CreatorInv => TriagedOnce
  BY DEF CreatorInv, OneCreator, TriagedOnce
<1> QED
  BY <1>1, CreatorAlways, PTL

\* Only the death of the core leaves an incident without triage.
THEOREM UntriagedSafety == Spec => []UntriagedOnlyAfterDeath
<1>1. CreatorInv => UntriagedOnlyAfterDeath
  BY DEF CreatorInv
<1> QED
  BY <1>1, CreatorAlways, PTL

-----------------------------------------------------------------------------
(* Nothing is acknowledged that is not stored.                             *)

\* The alert n's handler is at is in the table: it may answer or go on.
LEMMA NextStored ==
  ASSUME GateType, StoredBehind, NEW n \in Notifications, pc[n] # "idle",
         Alert(n).fp \in incidents, NextAlert(n), incidents' = incidents
  PROVE  /\ \A m \in Notifications : pc'[m] = "idle" => pos'[m] = 1
         /\ \A m \in Notifications : \A j \in DOMAIN Alerts[m] :
              (am'[m] = "acked" \/ (pc'[m] # "idle" /\ j < pos'[m])) => Alerts[m][j].fp \in incidents
<1>1. /\ DOMAIN Alerts[n] = 1..Len(Alerts[n]) /\ pos[n] \in 1..Len(Alerts[n])
      /\ Len(Alerts[n]) \in Nat
  BY AlertType
<1>2. \A j \in DOMAIN Alerts[n] : j < pos[n] \/ j = pos[n] => Alerts[n][j].fp \in incidents
  BY DEF StoredBehind, Alert
<1>3. \A m \in Notifications : m # n => UNCHANGED <<am[m], pc[m], pos[m]>>
  BY DEF GateType, NextAlert, Answer
<1>4. /\ pc'[n] = "idle" => pos'[n] = 1
      /\ \A j \in DOMAIN Alerts[n] :
           (am'[n] = "acked" \/ (pc'[n] # "idle" /\ j < pos'[n])) => Alerts[n][j].fp \in incidents
  <2>1. CASE pos[n] = Len(Alerts[n])
    BY <1>1, <1>2, <2>1 DEF GateType, NextAlert, Answer
  <2>2. CASE pos[n] # Len(Alerts[n])
    <3>1. pos'[n] = pos[n] + 1 /\ pc'[n] = "lookup" /\ am' = am
      BY <2>2 DEF GateType, NextAlert
    <3>2. am[n] = "acked" => \A j \in DOMAIN Alerts[n] : Alerts[n][j].fp \in incidents
      BY DEF StoredBehind
    <3>3. \A j \in DOMAIN Alerts[n] : j < pos[n] + 1 => j < pos[n] \/ j = pos[n]
      BY <1>1
    <3> QED
      BY <1>2, <3>1, <3>2, <3>3
  <2> QED
    BY <2>1, <2>2
<1> QED
  BY <1>3, <1>4 DEF StoredBehind

\* One step per action.
LEMMA StoredStep == TypeOK /\ CreatorInv /\ StoredBehind /\ [Next]_vars => StoredBehind'
<1> SUFFICES ASSUME TypeOK, CreatorInv, StoredBehind, [Next]_vars PROVE StoredBehind'
  OBVIOUS
<1>0. rpc \in Seq(Call) /\ GateType
  BY DEF TypeOK, CoreType, Call
<1>1. ASSUME NEW n \in Notifications, Receive(n) PROVE StoredBehind'
  <2>1. UNCHANGED <<pos, entries, incidents, rpc>>
    BY <1>1 DEF Receive, cacheVars, coreVars
  <2>2. CASE UNCHANGED <<am, pc>>
    BY <2>1, <2>2 DEF StoredBehind
  <2>3. CASE /\ am[n] = "unsent" /\ am' = [am EXCEPT ![n] = "sent"]
             /\ pc' = [pc EXCEPT ![n] = "lookup"]
    <3>1. \A m \in Notifications : m # n => UNCHANGED <<am[m], pc[m]>>
      BY <1>0, <2>3 DEF GateType
    <3>2. am'[n] = "sent" /\ pc'[n] = "lookup"
      BY <1>0, <2>3 DEF GateType
    <3>3. \A j \in DOMAIN Alerts[n] : j < pos[n] => Alerts[n][j].fp \in incidents
      <4>1. DOMAIN Alerts[n] = 1..Len(Alerts[n])
        BY <1>0, AlertType
      <4>2. CASE pc[n] = "idle"
        BY <4>1, <4>2 DEF StoredBehind
      <4>3. CASE pc[n] # "idle"
        BY <4>3 DEF StoredBehind
      <4> QED
        BY <4>2, <4>3
    <3> QED
      BY <2>1, <3>1, <3>2, <3>3 DEF StoredBehind
  <2> QED
    BY <1>1, <2>2, <2>3 DEF Receive
<1>2. ASSUME NEW n \in Notifications, Lookup(n) PROVE StoredBehind'
  <2>0. pc[n] = "lookup" /\ UNCHANGED <<entries, incidents>>
    BY <1>2 DEF Lookup, cacheVars, coreVars
  <2>1. CASE Alert(n) \in entries \ expired
    <3>1. NextAlert(n) /\ rpc' = rpc
      BY <1>2, <2>1 DEF Lookup
    <3>2. Alert(n).fp \in incidents
      BY <2>1 DEF StoredBehind
    <3> QED
      BY <1>0, <2>0, <3>1, <3>2, NextStored DEF StoredBehind
  <2>2. CASE Alert(n) \notin entries \ expired
    <3> DEFINE c == [alert |-> Alert(n), state |-> "create"]
    <3>1. /\ rpc' = Append(rpc, c) /\ UNCHANGED <<am, pos>>
          /\ pc' = [pc EXCEPT ![n] = "report"] /\ c \in Call /\ c.state # "answered"
      BY <1>0, <1>2, <2>2, AlertType DEF Lookup, Call, States
    <3> HIDE DEF c
    <3>2. \A i \in DOMAIN rpc' : rpc'[i].state = "answered" => i \in DOMAIN rpc /\ rpc'[i] = rpc[i]
      BY <1>0, <3>1, AppendCall
    <3>3. \A m \in Notifications : pc'[m] # pc[m] => pc[m] = "lookup" /\ pc'[m] = "report"
      BY <1>0, <2>0, <3>1 DEF GateType
    <3> QED
      BY <2>0, <3>1, <3>2, <3>3 DEF StoredBehind
  <2> QED
    BY <2>1, <2>2
<1>3. ASSUME NEW n \in Notifications, ReportFailed(n) PROVE StoredBehind'
  <2>1. UNCHANGED <<entries, incidents, rpc>> /\ Answer(n, FALSE)
    BY <1>3 DEF ReportFailed, cacheVars, coreVars
  <2>2. \A m \in Notifications : m # n => UNCHANGED <<am[m], pc[m], pos[m]>>
    BY <1>0, <2>1 DEF GateType, Answer
  <2>3. am'[n] = "unsent" /\ pc'[n] = "idle" /\ pos'[n] = 1
    BY <1>0, <2>1 DEF GateType, Answer
  <2> QED
    BY <2>1, <2>2, <2>3 DEF StoredBehind
<1>4. ASSUME NEW n \in Notifications, Reported(n) PROVE StoredBehind'
  <2>1. /\ UNCHANGED <<incidents, rpc>> /\ NextAlert(n) /\ Put(n) /\ pc[n] = "report"
        /\ rpc[waits[n]].state = "answered"
    BY <1>4 DEF Reported, coreVars
  <2>2. Alert(n).fp \in incidents
    BY <1>0, <2>1 DEF GateType, StoredBehind
  <2>3. entries' \subseteq entries \cup {Alert(n)}
    BY <2>1 DEF Put, cacheVars
  <2> QED
    BY <1>0, <2>1, <2>2, <2>3, NextStored DEF StoredBehind
<1>5. ASSUME NEW k \in Keys, Expire(k) PROVE StoredBehind'
  BY <1>5 DEF StoredBehind, Expire, gateVars, coreVars
<1>6. ASSUME NEW i \in DOMAIN rpc, Serve(i) PROVE StoredBehind'
  <2>1. UNCHANGED <<am, pc, pos, entries>> /\ incidents \subseteq incidents'
    BY <1>6 DEF Serve, Create, RecordCreated, Triage, gateVars, cacheVars
  <2>2. PICK s \in States : Goto(i, s) /\ (s = "answered" => rpc[i].alert.fp \in incidents)
    <3>1. CASE Create(i)
      BY <3>1 DEF Create, States
    <3>2. CASE RecordCreated(i)
      BY <3>2 DEF RecordCreated, States
    <3>3. CASE Triage(i)
      <4>0. rpc[i] \in Call
        BY <1>0, ElementOfSeq, LenProperties
      <4>1. rpc[i].alert.fp \in Fingerprints
        BY <4>0 DEF Call, Keys
      <4>2. Working(i, rpc[i].alert.fp)
        BY <3>3 DEF Triage, Working
      <4>3. rpc[i].alert.fp \in incidents
        BY <4>1, <4>2 DEF CreatorInv, OneCreator
      <4> QED
        BY <3>3, <4>3 DEF Triage, States
    <3> QED
      BY <1>6, <3>1, <3>2, <3>3 DEF Serve
  <2>3. /\ DOMAIN rpc' = DOMAIN rpc
        /\ \A j \in DOMAIN rpc : /\ rpc'[j].alert = rpc[j].alert
                                 /\ rpc'[j].state = IF j = i THEN s ELSE rpc[j].state
    BY <1>0, <2>2, GotoCall
  <2>4. \A j \in DOMAIN rpc' : rpc'[j].state = "answered" => rpc'[j].alert.fp \in incidents
    BY <2>2, <2>3 DEF StoredBehind
  <2> QED
    BY <2>1, <2>4 DEF StoredBehind
<1>7. CASE GateCrash
  <2>1. UNCHANGED <<incidents, rpc>> /\ entries' = {}
    BY <1>7 DEF GateCrash, coreVars
  <2>2. \A m \in Notifications : pc'[m] = "idle" /\ pos'[m] = 1 /\ (am'[m] = "acked" => am[m] = "acked")
    BY <1>7 DEF GateCrash
  <2> QED
    BY <2>1, <2>2 DEF StoredBehind
<1>8. CASE CoreCrash
  BY <1>0, <1>8, CrashSeq DEF StoredBehind, CoreCrash, gateVars, cacheVars, coreVars
<1>9. CASE UNCHANGED vars
  BY <1>9 DEF StoredBehind, vars, gateVars, cacheVars, coreVars
<1> QED
  BY <1>1, <1>2, <1>3, <1>4, <1>5, <1>6, <1>7, <1>8, <1>9 DEF Next, Handle

\* A success is answered only when every alert of the notification has a row in
\* the incidents table, so that nothing is lost that Alertmanager will not send
\* again: neither by an entry of the store nor by a batch that failed halfway.
THEOREM AckedSafety == Spec => []AckedIsStored
<1>1. Init => StoredBehind
  BY DEF Init, StoredBehind
<1>2. StoredBehind => AckedIsStored
  BY DEF StoredBehind, AckedIsStored
<1> QED
  BY <1>1, <1>2, StoredStep, TypeCorrect, CreatorAlways, PTL DEF Spec
=============================================================================
