---------------------------- MODULE AlertIngest ----------------------------
(***************************************************************************)
(* From an Alertmanager notification to an incident: the gate's webhook    *)
(* handler with its idempotency store, and the core's ReportIncident with  *)
(* the incidents table.  Each notification is handled by a goroutine of    *)
(* its own, each ReportIncident by a gRPC worker of the core that goes on  *)
(* when the gate stops waiting for it.  Alertmanager sends a notification  *)
(* again until it is answered with success.                                *)
(***************************************************************************)
EXTENDS Naturals, Sequences, FiniteSets

CONSTANTS
  Notifications, \* webhook posts of Alertmanager
  Alerts,        \* per notification, its alerts in order: [fp, status] records
  Fingerprints,
  maxEntries,    \* the limit of the idempotency store
  MaxCalls,      \* bound: ReportIncident calls the gate makes
  MaxFailures,   \* bound: refusals, failed calls, triage runs that raise, expiries
  MaxCrashes     \* bound: deaths of the gate and of the core

Statuses == {"firing", "resolved"}
Keys == [fp : Fingerprints, status : Statuses]

ASSUME IngestAssumption ==
  /\ \A n \in Notifications : Alerts[n] \in Seq(Keys) /\ Alerts[n] # <<>>
  /\ maxEntries \in Nat /\ MaxCalls \in Nat /\ MaxFailures \in Nat /\ MaxCrashes \in Nat

VARIABLES
  am,        \* what Alertmanager knows of a notification
  pc,        \* where its handler stands
  pos,       \* the alert its loop is at
  waits,     \* the call it waits for, 0 for none
  entries,   \* the keys in the idempotency store
  expired,   \* those whose time is over
  incidents, \* the fingerprints with a row in the incidents table, whatever its status
  recorded,  \* per fingerprint, its incident_created events
  triages,   \* per fingerprint, the triage runs that were started
  rpc,       \* the ReportIncident calls: alert and state
  failures, crashes, deaths

gateVars == <<pc, pos, waits>>
cacheVars == <<entries, expired>>
coreVars == <<incidents, recorded, triages>>
bounds == <<failures, crashes, deaths>>
vars == <<am, gateVars, cacheVars, coreVars, rpc, bounds>>

Init ==
  /\ am = [n \in Notifications |-> "unsent"]
  /\ pc = [n \in Notifications |-> "idle"]
  /\ pos = [n \in Notifications |-> 1]
  /\ waits = [n \in Notifications |-> 0]
  /\ entries = {} /\ expired = {}
  /\ incidents = {}
  /\ recorded = [f \in Fingerprints |-> 0] /\ triages = [f \in Fingerprints |-> 0]
  /\ rpc = <<>>
  /\ failures = 0 /\ crashes = 0 /\ deaths = 0

\* normalizeOne keeps of an alert the fingerprint it has, or the one derived from
\* its labels, and whether it is resolved.
Alert(n) == Alerts[n][pos[n]]
Fail == failures < MaxFailures /\ failures' = failures + 1

\* Mutation: the error is one on which Alertmanager gives the notification up.
AnswerFinally(n, success) ==
  /\ am' = [am EXCEPT ![n] = IF success THEN "acked" ELSE "sent"]
  /\ pc' = [pc EXCEPT ![n] = "idle"]
  /\ pos' = [pos EXCEPT ![n] = 1]
  /\ waits' = [waits EXCEPT ![n] = 0]

\* The handler answers 200, or an error on which Alertmanager tries again.
Answer(n, success) ==
  /\ am' = [am EXCEPT ![n] = IF success THEN "acked" ELSE "unsent"]
  /\ pc' = [pc EXCEPT ![n] = "idle"]
  /\ pos' = [pos EXCEPT ![n] = 1]
  /\ waits' = [waits EXCEPT ![n] = 0]

-----------------------------------------------------------------------------
(* Handler.ServeHTTP.                                                      *)

\* A post arrives; it is refused (429 of the rate limiter) before anything is
\* read from it, or its alerts are normalised.
Receive(n) ==
  /\ am[n] = "unsent"
  /\ \/ Fail /\ UNCHANGED <<am, pc>>
     \/ /\ am' = [am EXCEPT ![n] = "sent"] /\ pc' = [pc EXCEPT ![n] = "lookup"]
        /\ failures' = failures
  /\ UNCHANGED <<pos, waits, cacheVars, coreVars, rpc, crashes, deaths>>

\* On to the next alert; after the last one the results are written.
NextAlert(n) ==
  IF pos[n] = Len(Alerts[n])
  THEN Answer(n, TRUE)
  ELSE /\ pos' = [pos EXCEPT ![n] = @ + 1] /\ pc' = [pc EXCEPT ![n] = "lookup"]
       /\ waits' = [waits EXCEPT ![n] = 0] /\ am' = am

\* Store.Get: an entry that is not over answers for the core.
Lookup(n) ==
  /\ pc[n] = "lookup"
  /\ IF Alert(n) \in entries \ expired
     THEN NextAlert(n) /\ rpc' = rpc
     ELSE /\ Len(rpc) < MaxCalls
          /\ rpc' = Append(rpc, [alert |-> Alert(n), state |-> "create"])
          /\ waits' = [waits EXCEPT ![n] = Len(rpc) + 1]
          /\ pc' = [pc EXCEPT ![n] = "report"]
          /\ UNCHANGED <<am, pos>>
  /\ UNCHANGED <<cacheVars, coreVars, bounds>>

\* The call fails, or the gate stops waiting while the core goes on: 502 for the
\* whole notification, and nothing is remembered of it.
ReportFailed(n) ==
  /\ pc[n] = "report"
  /\ \/ rpc[waits[n]].state = "failed" /\ failures' = failures
     \/ rpc[waits[n]].state # "failed" /\ Fail
  /\ Answer(n, FALSE)
  /\ UNCHANGED <<cacheVars, coreVars, rpc, crashes, deaths>>

\* Store.Put: an entry is never replaced, also not one whose time is over; a
\* full store drops its expired entries and refuses the new one if it is
\* still full.
Put(n) ==
  LET k == Alert(n)
      kept == IF Cardinality(entries) >= maxEntries THEN entries \ expired ELSE entries
  IN IF k \in entries
     THEN UNCHANGED cacheVars
     ELSE /\ entries' = IF Cardinality(kept) < maxEntries THEN kept \cup {k} ELSE kept
          /\ expired' = expired \cap kept

\* The core accepted the alert: the answer is remembered.
Reported(n) ==
  /\ pc[n] = "report" /\ rpc[waits[n]].state = "answered"
  /\ Put(n)
  /\ NextAlert(n)
  /\ UNCHANGED <<coreVars, rpc, bounds>>

\* The time to live of an entry is over.
Expire(k) ==
  /\ k \in entries \ expired /\ Fail
  /\ expired' = expired \cup {k}
  /\ UNCHANGED <<am, gateVars, entries, coreVars, rpc, crashes, deaths>>

\* The gate restarts: its store was in memory, its connections break.
GateCrash ==
  /\ crashes + deaths < MaxCrashes /\ crashes' = crashes + 1
  /\ entries' = {} /\ expired' = {}
  /\ am' = [n \in Notifications |-> IF am[n] = "sent" THEN "unsent" ELSE am[n]]
  /\ pc' = [n \in Notifications |-> "idle"]
  /\ pos' = [n \in Notifications |-> 1]
  /\ waits' = [n \in Notifications |-> 0]
  /\ UNCHANGED <<coreVars, rpc, failures, deaths>>

-----------------------------------------------------------------------------
(* OncallCoreServicer.ReportIncident.                                      *)

Goto(i, s) == rpc' = [rpc EXCEPT ![i].state = s]

\* Mutation: the SELECT and the INSERT are not one transaction.
CreateRacy(i) ==
  /\ rpc[i].state = "create"
  /\ LET f == rpc[i].alert.fp
     IN /\ incidents' = incidents \cup {f}
        /\ \/ f \notin incidents /\ Goto(i, "record")
           \/ f \in incidents /\ Goto(i, "answered")
           \/ recorded[f] = 0 /\ Goto(i, "record")
  /\ UNCHANGED <<am, gateVars, cacheVars, recorded, triages, bounds>>

\* create_incident: one transaction looks the fingerprint up and inserts it.
\* An incident that exists answers, in whatever status it is.
Create(i) ==
  /\ rpc[i].state = "create"
  /\ LET f == rpc[i].alert.fp
     IN IF f \in incidents
        THEN incidents' = incidents /\ Goto(i, "answered")
        ELSE incidents' = incidents \cup {f} /\ Goto(i, "record")
  /\ UNCHANGED <<am, gateVars, cacheVars, recorded, triages, bounds>>

\* The event incident_created.
RecordCreated(i) ==
  /\ rpc[i].state = "record"
  /\ recorded' = [recorded EXCEPT ![rpc[i].alert.fp] = @ + 1]
  /\ Goto(i, "triage")
  /\ UNCHANGED <<am, gateVars, cacheVars, incidents, triages, bounds>>

\* Mutation: triage is only started for alerts that fire.
TriageFiringOnly(i) ==
  /\ rpc[i].state = "triage"
  /\ triages' = IF rpc[i].alert.status = "firing"
                THEN [triages EXCEPT ![rpc[i].alert.fp] = @ + 1] ELSE triages
  /\ \/ Goto(i, "answered") /\ failures' = failures
     \/ Goto(i, "failed") /\ Fail
  /\ UNCHANGED <<am, gateVars, cacheVars, incidents, recorded, crashes, deaths>>

\* run_triage, called by the handler itself.  When it raises, the call fails
\* although the incident is committed.
Triage(i) ==
  /\ rpc[i].state = "triage"
  /\ triages' = [triages EXCEPT ![rpc[i].alert.fp] = @ + 1]
  /\ \/ Goto(i, "answered") /\ failures' = failures
     \/ Goto(i, "failed") /\ Fail
  /\ UNCHANGED <<am, gateVars, cacheVars, incidents, recorded, crashes, deaths>>

\* The core dies and restarts: the calls it was serving fail, the table stays.
CoreCrash ==
  /\ crashes + deaths < MaxCrashes /\ deaths' = deaths + 1
  /\ rpc' = [i \in DOMAIN rpc |->
               IF rpc[i].state = "answered" THEN rpc[i] ELSE [rpc[i] EXCEPT !.state = "failed"]]
  /\ UNCHANGED <<am, gateVars, cacheVars, coreVars, failures, crashes>>

Handle(n) == Receive(n) \/ Lookup(n) \/ ReportFailed(n) \/ Reported(n)
Serve(i) == Create(i) \/ RecordCreated(i) \/ Triage(i)

Next ==
  \/ \E n \in Notifications : Handle(n)
  \/ \E k \in Keys : Expire(k)
  \/ \E i \in DOMAIN rpc : Serve(i)
  \/ GateCrash \/ CoreCrash

Spec == Init /\ [][Next]_vars
\* Alertmanager retries, and goroutines and workers go on.
FairSpec == Spec /\ (\A n \in Notifications : WF_vars(Handle(n)))
                 /\ (\A i \in 1..MaxCalls : WF_vars(i \in DOMAIN rpc /\ Serve(i)))

-----------------------------------------------------------------------------
States == {"create", "record", "triage", "answered", "failed"}

GateType ==
  /\ am \in [Notifications -> {"unsent", "sent", "acked"}]
  /\ pc \in [Notifications -> {"idle", "lookup", "report"}]
  /\ pos \in [Notifications -> Nat] /\ waits \in [Notifications -> Nat]
  /\ \A n \in Notifications :
       /\ pos[n] \in DOMAIN Alerts[n]
       /\ pc[n] = "report" => waits[n] \in DOMAIN rpc /\ rpc[waits[n]].alert = Alert(n)

CacheType ==
  /\ expired \subseteq entries /\ entries \subseteq Keys /\ IsFiniteSet(entries)
  /\ Cardinality(entries) <= maxEntries

CoreType ==
  /\ incidents \subseteq Fingerprints
  /\ recorded \in [Fingerprints -> Nat] /\ triages \in [Fingerprints -> Nat]
  /\ rpc \in Seq([alert : Keys, state : States])

BoundType == failures \in 0..MaxFailures /\ crashes \in 0..MaxCrashes /\ deaths \in 0..MaxCrashes

TypeOK == GateType /\ CacheType /\ CoreType /\ BoundType

\* An incident is created and triaged once: not again for a retry, a second
\* Alertmanager, an expired entry, the resolved alert or a restart.
TriagedOnce == \A f \in Fingerprints : triages[f] <= recorded[f] /\ recorded[f] <= 1

\* An incident nobody triages is one whose call died with the core; as long as
\* the core lives every incident is triaged or about to be.
UntriagedOnlyAfterDeath ==
  \A f \in incidents : triages[f] = 0 /\ deaths = 0 =>
    \E i \in DOMAIN rpc : rpc[i].alert.fp = f /\ rpc[i].state \in {"record", "triage"}

\* Every notification is acknowledged in the end with every alert of it stored,
\* as long as Alertmanager repeats it and failures and crashes end: a batch that
\* fails in its middle is repeated, and is acknowledged only with its rest stored.
\* MaxCalls has to be large enough for every repetition, or this does not hold.
EventuallyAcked ==
  \A n \in Notifications :
    <>(am[n] = "acked" /\ \A j \in DOMAIN Alerts[n] : Alerts[n][j].fp \in incidents)
=============================================================================
