----------------------------- MODULE Correlator -----------------------------
(* Alert-storm aggregation: Correlator.ingest_alert called by concurrent      *)
(* threads while operators move incidents along and time passes.             *)
(*                                                                           *)
(* One step is one transaction of the store; between two of them another     *)
(* thread may run. Appending to the hash chain is one step here (IncidentLog *)
(* has its interleavings), and so is a transition of the status machine.     *)
EXTENDS Naturals, Sequences, FiniteSets, SequencesExt

CONSTANTS
  Threads,        \* callers of ingest_alert
  Alerts,
  FingerprintOf,  \* [Alerts -> fingerprints]
  LabelsOf,       \* [Alerts -> [CORRELATION_LABELS -> values]]
  Missing,        \* a label that is absent or empty
  MaxCalls,       \* bound: calls of ingest_alert
  MaxMoves,       \* bound: status transitions
  MaxCrashes      \* bound: deaths of the process

CORRELATION_LABELS == {"cluster", "service", "severity"}

ASSUME CorrelatorAssumption ==
  /\ IsFiniteSet(Threads) /\ Alerts # {}
  /\ \A a \in Alerts : DOMAIN LabelsOf[a] = CORRELATION_LABELS
  /\ MaxCalls \in Nat /\ MaxMoves \in Nat /\ MaxCrashes \in Nat

VARIABLES
  incidents,  \* rows in the order they were created: [fingerprint, labels, status]
  window,     \* indices of the rows updated in the last WINDOW_MINUTES, oldest update first
  timeline,   \* the alert_merged events: {[incident, alert]}
  pc, alert,  \* per thread: where its call is, and the alert it was called with
  candidate,  \* per thread: the row it matched, as it was read
  calls, moves, crashes,
  answers,    \* history: what calls returned: {[alert, incident, action]}
  quiet       \* history: no incident left the candidates so far

rowVars == <<incidents, window, timeline>>
callVars == <<pc, alert, candidate>>
vars == <<rowVars, callVars, calls, moves, crashes, answers, quiet>>

AnyAlert == CHOOSE a \in Alerts : TRUE
NoRow == [id |-> 0, status |-> "none"]

Init ==
  /\ incidents = <<>> /\ window = <<>> /\ timeline = {}
  /\ pc = [t \in Threads |-> "idle"]
  /\ alert = [t \in Threads |-> AnyAlert]
  /\ candidate = [t \in Threads |-> NoRow]
  /\ calls = 0 /\ moves = 0 /\ crashes = 0
  /\ answers = {} /\ quiet = TRUE

-----------------------------------------------------------------------------
(* The store                                                               *)

\* Labels both have, with the same value.
label_intersection(a, b) ==
  Cardinality({k \in CORRELATION_LABELS : a[k] # Missing /\ a[k] = b[k]})

Unresolved(i) == incidents[i].status # "resolved"

\* Mutation: only incidents nobody works on yet are merged into.
recent_open_incidents == {i \in ToSet(window) : incidents[i].status = "open"}

\* Rows of the window that are not resolved; the newest row comes first.
recent_unresolved_incidents == {i \in ToSet(window) : Unresolved(i)}

\* Writing updated_at makes a row the most recent of the window.
Touched(i) == Append(RemoveFirst(window, i), i)

-----------------------------------------------------------------------------
(* One call of ingest_alert                                                *)

Matches(a) ==
  {i \in recent_unresolved_incidents : label_intersection(incidents[i].labels, LabelsOf[a]) >= 2}
Newest(S) == CHOOSE i \in S : \A j \in S : j <= i

\* The candidates are read and compared; the first match is merged into.
Query(t, a) ==
  /\ pc[t] = "idle" /\ calls < MaxCalls
  /\ calls' = calls + 1
  /\ alert' = [alert EXCEPT ![t] = a]
  /\ LET found == Matches(a) IN
       IF found = {}
       THEN /\ pc' = [pc EXCEPT ![t] = "create"]
            /\ candidate' = [candidate EXCEPT ![t] = NoRow]
       ELSE /\ pc' = [pc EXCEPT ![t] = "append"]
            /\ candidate' = [candidate EXCEPT ![t] =
                 [id |-> Newest(found), status |-> incidents[Newest(found)].status]]
  /\ UNCHANGED <<rowVars, moves, crashes, answers, quiet>>

AnswerWith(t, i, action) ==
  /\ answers' = answers \cup {[alert |-> alert[t], incident |-> i, action |-> action]}
  /\ pc' = [pc EXCEPT ![t] = "answered"]

\* create_incident: any row with this fingerprint is returned as it is, whatever
\* its status, and answered as merged; only without one is a row inserted.
Create(t) ==
  /\ pc[t] = "create"
  /\ LET fp == FingerprintOf[alert[t]]
         same == {i \in DOMAIN incidents : incidents[i].fingerprint = fp}
         new == Len(incidents) + 1
     IN \/ /\ same # {}
           /\ \E i \in same :
                /\ AnswerWith(t, i, "merged")
                /\ candidate' = [candidate EXCEPT ![t] = [id |-> i, status |-> incidents[i].status]]
           /\ UNCHANGED <<incidents, window>>
        \/ /\ same = {}
           /\ incidents' = Append(incidents, [fingerprint |-> fp, labels |-> LabelsOf[alert[t]],
                                              status |-> "open"])
           /\ window' = Append(window, new)
           /\ AnswerWith(t, new, "created")
           /\ candidate' = [candidate EXCEPT ![t] = [id |-> new, status |-> "open"]]
  /\ UNCHANGED <<timeline, alert, calls, moves, crashes, quiet>>

\* Mutation: merging into a mitigated incident is answered but not recorded.
AppendUnlessMitigated(t) ==
  /\ pc[t] = "append"
  /\ timeline' = IF candidate[t].status = "mitigated" THEN timeline
                 ELSE timeline \cup {[incident |-> candidate[t].id, alert |-> alert[t]]}
  /\ pc' = [pc EXCEPT ![t] = "touch"]
  /\ UNCHANGED <<incidents, window, alert, candidate, calls, moves, crashes, answers, quiet>>

\* _merge: the event first, ...
AppendMerged(t) ==
  /\ pc[t] = "append"
  /\ timeline' = timeline \cup {[incident |-> candidate[t].id, alert |-> alert[t]]}
  /\ pc' = [pc EXCEPT ![t] = "touch"]
  /\ UNCHANGED <<incidents, window, alert, candidate, calls, moves, crashes, answers, quiet>>

\* ... then updated_at, and the answer by the status that was read.
Touch(t) ==
  /\ pc[t] = "touch"
  /\ window' = Touched(candidate[t].id)
  /\ AnswerWith(t, candidate[t].id,
                IF candidate[t].status = "mitigated" THEN "recorded" ELSE "merged")
  /\ UNCHANGED <<incidents, timeline, alert, candidate, calls, moves, crashes, quiet>>

\* The caller takes the answer.
Return(t) ==
  /\ pc[t] = "answered"
  /\ pc' = [pc EXCEPT ![t] = "idle"]
  /\ alert' = [alert EXCEPT ![t] = AnyAlert]
  /\ candidate' = [candidate EXCEPT ![t] = NoRow]
  /\ UNCHANGED <<rowVars, calls, moves, crashes, answers, quiet>>

-----------------------------------------------------------------------------
(* The surroundings                                                        *)

TRANSITIONS == {<<"open", "investigating">>, <<"investigating", "investigating">>,
                <<"investigating", "mitigated">>, <<"mitigated", "resolved">>}

\* An operator moves an incident; update_status writes updated_at as well.
MoveStatus(i, target) ==
  /\ moves < MaxMoves
  /\ <<incidents[i].status, target>> \in TRANSITIONS
  /\ moves' = moves + 1
  /\ incidents' = [incidents EXCEPT ![i].status = target]
  /\ window' = Touched(i)
  /\ quiet' = (quiet /\ target # "resolved")
  /\ UNCHANGED <<timeline, callVars, calls, crashes, answers>>

\* The least recently updated incident falls out of the window.
TimePasses ==
  /\ window # <<>>
  /\ window' = Tail(window)
  /\ quiet' = FALSE
  /\ UNCHANGED <<incidents, timeline, callVars, calls, moves, crashes, answers>>

\* The process dies; what it committed stays.
Crash ==
  /\ crashes < MaxCrashes
  /\ crashes' = crashes + 1
  /\ pc' = [t \in Threads |-> "idle"]
  /\ alert' = [t \in Threads |-> AnyAlert]
  /\ candidate' = [t \in Threads |-> NoRow]
  /\ UNCHANGED <<rowVars, calls, moves, answers, quiet>>

Next ==
  \/ \E t \in Threads :
       \/ \E a \in Alerts : Query(t, a)
       \/ Create(t) \/ AppendMerged(t) \/ Touch(t) \/ Return(t)
  \/ \E i \in DOMAIN incidents : \E target \in {"investigating", "mitigated", "resolved"} :
       MoveStatus(i, target)
  \/ TimePasses \/ Crash

Spec == Init /\ [][Next]_vars

-----------------------------------------------------------------------------
Statuses == {"open", "investigating", "mitigated", "resolved"}
Rows == [fingerprint : {FingerprintOf[a] : a \in Alerts}, labels : {LabelsOf[a] : a \in Alerts},
         status : Statuses]

RowType ==
  /\ incidents \in Seq(Rows)
  /\ window \in Seq(Nat) /\ IsInjective(window) /\ ToSet(window) \subseteq DOMAIN incidents
  /\ timeline \subseteq [incident : DOMAIN incidents, alert : Alerts]

CallType ==
  /\ pc \in [Threads -> {"idle", "create", "append", "touch", "answered"}]
  /\ alert \in [Threads -> Alerts]
  /\ candidate \in [Threads -> [id : Nat, status : Statuses \cup {"none"}]]
  /\ \A t \in Threads : candidate[t].id \in DOMAIN incidents \/ pc[t] \in {"idle", "create"}
  /\ answers \subseteq [alert : Alerts, incident : DOMAIN incidents,
                       action : {"created", "merged", "recorded"}]

TypeOK ==
  /\ RowType /\ CallType /\ quiet \in BOOLEAN
  /\ calls \in 0..MaxCalls /\ moves \in 0..MaxMoves /\ crashes \in 0..MaxCrashes

\* While nothing ages or is resolved, a storm of alerts with the same labels
\* opens at most one incident per thread: a second one of the same thread
\* would have found the first. One incident is what a sequential caller gets.
StormSplitBounded ==
  quiet => \A i \in DOMAIN incidents :
    label_intersection(incidents[i].labels, incidents[i].labels) >= 2 =>
      Cardinality({j \in DOMAIN incidents : incidents[j].labels = incidents[i].labels})
        <= Cardinality(Threads)

\* Whatever was answered can be traced in the database: the incident named in
\* the answer has the alert's fingerprint, or an alert_merged event for it.
AnsweredIsTraceable ==
  \A r \in answers :
    \/ incidents[r.incident].fingerprint = FingerprintOf[r.alert]
    \/ [incident |-> r.incident, alert |-> r.alert] \in timeline
=============================================================================
