-------------------------- MODULE Services_proofs --------------------------
(***************************************************************************)
(* Proofs about components that share nothing, for every value of their    *)
(* constants: Correlator (any number of threads, any labelled alerts),     *)
(* GateServer (any number of attempts, however slowly, badly or late the   *)
(* far sides answer), Migrations (any number of deaths), Desk (any number  *)
(* of incidents, any size of a page), and the runbook and the roster of    *)
(* escalation (any runbook, any calendar, at any hour).                    *)
(***************************************************************************)
EXTENDS Correlator, GateServer, Migrations, MC_Desk, FiniteSetTheorems,
        SequenceTheorems, WellFoundedInduction, TLAPS

-----------------------------------------------------------------------------
(* Correlator: the inductive invariants.                                   *)

Labels == {LabelsOf[a] : a \in Alerts}

\* The incidents of a storm, and the threads that found none and will open one.
Alike(l) == {i \in DOMAIN incidents : incidents[i].labels = l}
Opening(l) == {t \in Threads : pc[t] = "create" /\ LabelsOf[alert[t]] = l}

\* While nothing leaves the candidates, a storm has no more incidents, those
\* about to be opened with them, than there are threads.
StormInv ==
  quiet =>
    /\ \A i \in DOMAIN incidents : i \in recent_unresolved_incidents
    /\ \A l \in Labels : label_intersection(l, l) >= 2 =>
         Cardinality(Alike(l)) + Cardinality(Opening(l)) <= Cardinality(Threads)

\* A thread that has recorded the merge but not answered yet left its event.
TraceInv ==
  /\ AnsweredIsTraceable
  /\ \A t \in Threads : pc[t] = "touch" =>
       [incident |-> candidate[t].id, alert |-> alert[t]] \in timeline

-----------------------------------------------------------------------------
(* Correlator: types.                                                      *)

\* The position of an incident in the window, where it is once at most.
LEMMA Place ==
  ASSUME window \in Seq(Nat), IsInjective(window), NEW i, i \in ToSet(window)
  PROVE  \E k \in 1..Len(window) : window[k] = i /\ RemoveFirst(window, i) = RemoveAt(window, k)
<1>1. PICK k \in 1..Len(window) : window[k] = i
  BY LenProperties DEF ToSet
<1>2. {j \in 1..Len(window) : window[j] = i} = {k}
  BY <1>1, LenProperties DEF IsInjective
<1>3. Min({k}) = k
  BY <1>1 DEF Min
<1>4. SelectInSeq(window, LAMBDA v : v = i) = k
  BY <1>2, <1>3 DEF SelectInSeq
<1> QED
  BY <1>1, <1>4 DEF RemoveFirst

\* The window after one of its elements was taken out, and after one was written.
LEMMA Removed ==
  ASSUME window \in Seq(Nat), IsInjective(window), NEW i
  PROVE  /\ RemoveFirst(window, i) \in Seq(Nat) /\ IsInjective(RemoveFirst(window, i))
         /\ ToSet(RemoveFirst(window, i)) = ToSet(window) \ {i}
<1> DEFINE r == RemoveFirst(window, i)
           n == Len(window)
<1>0. n \in Nat /\ DOMAIN window = 1..n
  BY LenProperties
<1>n. n = Len(window)
  OBVIOUS
<1> HIDE DEF n
<1>1. CASE i \notin ToSet(window)
  <2>1. r = window
    BY <1>1, <1>0, <1>n DEF RemoveFirst, ToSet
  <2> QED
    BY <1>1, <2>1
<1>2. CASE i \in ToSet(window)
  <2>1. PICK k \in 1..n : window[k] = i /\ r = RemoveAt(window, k)
    BY <1>2, <1>n, Place
  <2> DEFINE a == SubSeq(window, 1, k - 1)
             b == SubSeq(window, k + 1, n)
  <2>2. \A j \in 1..n : window[j] \in Nat
    BY <1>n, ElementOfSeq
  <2>3. a \in Seq(Nat) /\ Len(a) = k - 1 /\ \A j \in 1..k - 1 : a[j] = window[j]
    <3>1. \A j \in 1..k - 1 : window[j] \in Nat
      BY <2>2, <1>0
    <3>2. /\ a \in Seq(Nat) /\ Len(a) = IF 1 <= k - 1 THEN k - 1 - 1 + 1 ELSE 0
          /\ \A j \in 1..k - 1 - 1 + 1 : a[j] = window[1 + j - 1]
      BY <3>1, <1>0, SubSeqProperties
    <3> HIDE DEF a
    <3> QED
      BY <3>2, <1>0
  <2>4. b \in Seq(Nat) /\ Len(b) = n - k /\ \A j \in 1..n - k : b[j] = window[k + j]
    <3>1. \A j \in k + 1..n : window[j] \in Nat
      BY <2>2, <1>0
    <3>2. /\ b \in Seq(Nat) /\ Len(b) = IF k + 1 <= n THEN n - (k + 1) + 1 ELSE 0
          /\ \A j \in 1..n - (k + 1) + 1 : b[j] = window[k + 1 + j - 1]
      BY <3>1, <1>0, SubSeqProperties
    <3> HIDE DEF b
    <3>3. Len(b) = n - k
      BY <3>2, <1>0
    <3>4. ASSUME NEW j \in 1..n - k PROVE b[j] = window[k + j]
      <4>1. j \in 1..n - (k + 1) + 1 /\ k + 1 + j - 1 = k + j
        BY <1>0
      <4> QED
        BY <3>2, <4>1
    <3> QED
      BY <3>2, <3>3, <3>4
  <2>5. r = a \o b
    BY <2>1, <1>n DEF RemoveAt
  <2> HIDE DEF a, b, r
  <2>6. /\ r \in Seq(Nat) /\ Len(r) = n - 1 /\ DOMAIN r = 1..n - 1
        /\ \A j \in 1..n - 1 : r[j] = IF j < k THEN window[j] ELSE window[j + 1]
    <3>0. /\ r \in Seq(Nat) /\ Len(r) = Len(a) + Len(b)
          /\ \A j \in 1..Len(a) + Len(b) : r[j] = IF j <= Len(a) THEN a[j] ELSE b[j - Len(a)]
      BY <2>3, <2>4, <2>5, ConcatProperties
    <3>a. Len(a) + Len(b) = n - 1 /\ Len(a) = k - 1
      BY <2>3, <2>4, <1>0
    <3>1. /\ r \in Seq(Nat) /\ Len(r) = n - 1
          /\ \A j \in 1..n - 1 : r[j] = IF j <= k - 1 THEN a[j] ELSE b[j - (k - 1)]
      BY <3>0, <3>a
    <3>2. DOMAIN r = 1..n - 1
      BY <3>1, <1>0, LenProperties
    <3>3. ASSUME NEW j \in 1..n - 1 PROVE r[j] = IF j < k THEN window[j] ELSE window[j + 1]
      <4>1. CASE j < k
        <5>1. j <= k - 1 /\ j \in 1..k - 1
          BY <4>1, <1>0
        <5> QED
          BY <4>1, <5>1, <3>1, <2>3
      <4>2. CASE ~(j < k)
        <5>1. j - (k - 1) \in 1..n - k /\ k + (j - (k - 1)) = j + 1 /\ ~(j <= k - 1)
          BY <4>2, <1>0
        <5>2. b[j - (k - 1)] = window[j + 1]
          BY <5>1, <2>4
        <5> QED
          BY <4>2, <5>1, <5>2, <3>1
      <4> QED
        BY <4>1, <4>2
    <3> QED
      BY <3>1, <3>2, <3>3
  <2> DEFINE At(j) == IF j < k THEN j ELSE j + 1
  <2>p. \A j \in 1..n - 1 : At(j) \in 1..n /\ At(j) # k
    BY <1>0
  <2>q. \A j, m \in 1..n - 1 : At(j) = At(m) => j = m
    BY <1>0
  <2>r. \A j \in 1..n - 1 : r[j] = window[At(j)]
    BY <2>6
  <2>s. ASSUME NEW j \in 1..n, j # k PROVE \E m \in 1..n - 1 : At(m) = j
    <3>1. CASE j < k
      <4>1. j \in 1..n - 1
        BY <3>1, <1>0
      <4> QED
        BY <3>1, <4>1
    <3>2. CASE j > k
      <4>1. j - 1 \in 1..n - 1 /\ ~(j - 1 < k) /\ j - 1 + 1 = j
        BY <3>2, <1>0
      <4> QED
        BY <4>1
    <3> QED
      BY <3>1, <3>2, <2>s, <1>0
  <2> HIDE DEF At
  <2>7. IsInjective(r)
    BY <2>6, <2>p, <2>q, <2>r, <1>0 DEF IsInjective
  <2>8. ToSet(r) = ToSet(window) \ {i}
    <3>1. ASSUME NEW j \in 1..n - 1 PROVE r[j] \in ToSet(window) \ {i}
      BY <2>1, <2>p, <2>r, <1>0 DEF ToSet, IsInjective
    <3>2. ASSUME NEW j \in 1..n, window[j] # i PROVE \E m \in 1..n - 1 : r[m] = window[j]
      BY <2>1, <2>r, <2>s, <3>2
    <3>3. \A x : x \in ToSet(r) <=> \E j \in 1..n - 1 : r[j] = x
      BY <2>6 DEF ToSet
    <3>4. \A x : x \in ToSet(window) <=> \E j \in 1..n : window[j] = x
      BY <1>0 DEF ToSet
    <3> QED
      BY <3>1, <3>2, <3>3, <3>4
  <2> QED
    BY <2>6, <2>7, <2>8 DEF r
<1> QED
  BY <1>1, <1>2

\* A row that is not in the window becomes its newest.
LEMMA Appended ==
  ASSUME NEW w \in Seq(Nat), IsInjective(w), NEW i \in Nat, i \notin ToSet(w)
  PROVE  /\ Append(w, i) \in Seq(Nat) /\ IsInjective(Append(w, i))
         /\ ToSet(Append(w, i)) = ToSet(w) \cup {i}
<1>1. /\ Append(w, i) \in Seq(Nat) /\ DOMAIN w = 1..Len(w) /\ Len(w) \in Nat
      /\ DOMAIN Append(w, i) = 1..Len(w) + 1
      /\ \A j \in 1..Len(w) : Append(w, i)[j] = w[j]
      /\ Append(w, i)[Len(w) + 1] = i
  BY AppendProperties, LenProperties
<1>2. \A j \in 1..Len(w) + 1 : j \in 1..Len(w) \/ j = Len(w) + 1
  BY <1>1
<1>3. Len(w) + 1 \in 1..Len(w) + 1 /\ \A j \in 1..Len(w) : j \in 1..Len(w) + 1 /\ w[j] # i
  BY <1>1 DEF ToSet
<1> HIDE DEF Append
<1> QED
  BY <1>1, <1>2, <1>3 DEF ToSet, IsInjective

\* What Touched makes of the window.
LEMMA TouchedWindow ==
  ASSUME window \in Seq(Nat), IsInjective(window), NEW i \in Nat
  PROVE  /\ Touched(i) \in Seq(Nat) /\ IsInjective(Touched(i))
         /\ ToSet(Touched(i)) = ToSet(window) \cup {i}
<1>1. /\ RemoveFirst(window, i) \in Seq(Nat) /\ IsInjective(RemoveFirst(window, i))
      /\ ToSet(RemoveFirst(window, i)) = ToSet(window) \ {i}
  BY Removed
<1>2. i \notin ToSet(RemoveFirst(window, i))
  BY <1>1
<1> QED
  BY <1>1, <1>2, Appended DEF Touched

\* Of natural numbers that have a bound one is the greatest.
LEMMA LargestOf ==
  ASSUME NEW S \in SUBSET Nat, S # {}, NEW n \in Nat, \A y \in S : y <= n
  PROVE  \E x \in S : \A y \in S : y <= x
<1> DEFINE T == {n - y : y \in S}
<1>1. \A y \in S : n - y \in Nat
  <2> TAKE y \in S
  <2>1. y \in Nat /\ y <= n
    OBVIOUS
  <2> QED
    BY <2>1
<1>a. T \in SUBSET Nat /\ T # {}
  BY <1>1
<1>2. PICK z \in T : \A y \in T : ~(<<y, z>> \in OpToRel(<, Nat))
  <2> HIDE DEF T
  <2> QED
    BY <1>a, NatLessThanWellFounded, WFMin
<1>3. PICK x \in S : z = n - x
  OBVIOUS
<1>4. ASSUME NEW y \in S PROVE y <= x
  <2>1. ~(n - y < n - x)
    BY <1>1, <1>2, <1>3 DEF OpToRel
  <2>2. x \in Nat /\ y \in Nat
    OBVIOUS
  <2> QED
    BY <2>1, <2>2
<1> QED
  BY <1>4

\* A match was read from the window.
LEMMA MatchKnown ==
  ASSUME TypeOK, NEW a \in Alerts, Matches(a) # {}
  PROVE  /\ Newest(Matches(a)) \in DOMAIN incidents
         /\ Newest(Matches(a)) \in recent_unresolved_incidents
<1>1. Matches(a) \subseteq DOMAIN incidents /\ DOMAIN incidents = 1..Len(incidents) /\ Len(incidents) \in Nat
  BY LenProperties DEF TypeOK, RowType, Matches, recent_unresolved_incidents
<1>2. \E i \in Matches(a) : \A j \in Matches(a) : j <= i
  <2>1. Matches(a) \in SUBSET Nat /\ \A i \in Matches(a) : i <= Len(incidents)
    BY <1>1
  <2> QED
    BY <2>1, <1>1, LargestOf
<1>3. Newest(Matches(a)) \in Matches(a)
  BY <1>2 DEF Newest
<1> QED
  BY <1>1, <1>3 DEF Matches

\* Rows are never removed, and keep what they were created with.
Keeps ==
  /\ DOMAIN incidents \subseteq DOMAIN incidents'
  /\ \A i \in DOMAIN incidents : /\ incidents'[i].fingerprint = incidents[i].fingerprint
                                 /\ incidents'[i].labels = incidents[i].labels

\* What the insertion of a row does to the table and the window.
LEMMA Inserted ==
  ASSUME TypeOK, NEW t \in Threads, Create(t), incidents' # incidents
  PROVE  LET new == Len(incidents) + 1 IN
         /\ incidents' \in Seq(Rows) /\ DOMAIN incidents' = DOMAIN incidents \cup {new}
         /\ new \in Nat /\ new \notin DOMAIN incidents
         /\ \A i \in DOMAIN incidents : incidents'[i] = incidents[i]
         /\ incidents'[new] = [fingerprint |-> FingerprintOf[alert[t]],
                               labels |-> LabelsOf[alert[t]], status |-> "open"]
         /\ window' \in Seq(Nat) /\ IsInjective(window') /\ ToSet(window') = ToSet(window) \cup {new}
         /\ candidate' = [candidate EXCEPT ![t] = [id |-> new, status |-> "open"]]
         /\ AnswerWith(t, new, "created")
<1> DEFINE new == Len(incidents) + 1
           row == [fingerprint |-> FingerprintOf[alert[t]], labels |-> LabelsOf[alert[t]], status |-> "open"]
<1>0. incidents \in Seq(Rows) /\ alert[t] \in Alerts /\ DOMAIN incidents = 1..Len(incidents)
      /\ Len(incidents) \in Nat
  BY LenProperties DEF TypeOK, RowType, CallType
<1>1. /\ incidents' = Append(incidents, row) /\ window' = Append(window, new)
      /\ candidate' = [candidate EXCEPT ![t] = [id |-> new, status |-> "open"]]
      /\ AnswerWith(t, new, "created")
  BY DEF Create
<1>2. row \in Rows
  BY <1>0 DEF Rows, Statuses
<1> HIDE DEF row
<1>3. /\ incidents' \in Seq(Rows) /\ Len(incidents') = new
      /\ \A i \in 1..Len(incidents) : incidents'[i] = incidents[i]
      /\ incidents'[new] = row
  <2>1. /\ Append(incidents, row) \in Seq(Rows) /\ Len(Append(incidents, row)) = Len(incidents) + 1
        /\ \A i \in 1..Len(incidents) : Append(incidents, row)[i] = incidents[i]
        /\ Append(incidents, row)[Len(incidents) + 1] = row
    BY <1>0, <1>2, AppendProperties
  <2> QED
    BY <1>1, <2>1
<1>4. DOMAIN incidents' = 1..Len(incidents) + 1
  BY <1>3, LenProperties
<1>5. new \in Nat /\ new \notin DOMAIN incidents /\ DOMAIN incidents' = DOMAIN incidents \cup {new}
  BY <1>0, <1>4
<1>6. window \in Seq(Nat) /\ IsInjective(window) /\ new \notin ToSet(window)
  BY <1>5 DEF TypeOK, RowType
<1>7. /\ window' \in Seq(Nat) /\ IsInjective(window')
      /\ ToSet(window') = ToSet(window) \cup {new}
  BY <1>1, <1>5, <1>6, Appended
<1> QED
  BY <1>0, <1>1, <1>3, <1>5, <1>7 DEF row

\* create_incident inserts nothing only if it found a row of this fingerprint.
LEMMA Found ==
  ASSUME TypeOK, NEW t \in Threads, Create(t), incidents' = incidents
  PROVE  \E i \in DOMAIN incidents :
           /\ incidents[i].fingerprint = FingerprintOf[alert[t]]
           /\ AnswerWith(t, i, "merged")
           /\ candidate' = [candidate EXCEPT ![t] = [id |-> i, status |-> incidents[i].status]]
           /\ UNCHANGED <<window, timeline, alert>>
<1> DEFINE row == [fingerprint |-> FingerprintOf[alert[t]], labels |-> LabelsOf[alert[t]], status |-> "open"]
<1>1. incidents \in Seq(Rows) /\ Len(incidents) \in Nat
  BY LenProperties DEF TypeOK, RowType
<1>2. row \in Rows
  BY DEF Rows, Statuses, TypeOK, CallType
<1>3. Len(Append(incidents, row)) = Len(incidents) + 1
  <2> HIDE DEF row
  <2> QED
    BY <1>1, <1>2, AppendProperties
<1>4. incidents # Append(incidents, row)
  BY <1>1, <1>3
<1> QED
  BY <1>4 DEF Create

\* One step of the surroundings at a row.
LEMMA Moved ==
  ASSUME TypeOK, NEW i \in DOMAIN incidents, NEW target \in {"investigating", "mitigated", "resolved"},
         MoveStatus(i, target)
  PROVE  /\ incidents' \in Seq(Rows) /\ DOMAIN incidents' = DOMAIN incidents
         /\ \A j \in DOMAIN incidents :
              incidents'[j] = IF j = i THEN [incidents[i] EXCEPT !.status = target] ELSE incidents[j]
         /\ window' \in Seq(Nat) /\ IsInjective(window') /\ ToSet(window') = ToSet(window) \cup {i}
<1>1. /\ incidents \in Seq(Rows) /\ DOMAIN incidents = 1..Len(incidents) /\ i \in Nat
      /\ incidents[i] \in Rows
  BY LenProperties, ElementOfSeq DEF TypeOK, RowType
<1>2. [incidents[i] EXCEPT !.status = target] \in Rows
  BY <1>1 DEF Rows, Statuses
<1>3. incidents' = [incidents EXCEPT ![i] = [incidents[i] EXCEPT !.status = target]]
  BY DEF MoveStatus
<1>4. incidents' \in Seq(Rows)
  BY <1>1, <1>2, <1>3, ExceptSeq
<1>5. /\ window' \in Seq(Nat) /\ IsInjective(window') /\ ToSet(window') = ToSet(window) \cup {i}
  BY <1>1, TouchedWindow DEF MoveStatus, TypeOK, RowType
<1> QED
  BY <1>1, <1>3, <1>4, <1>5

LEMMA TypeStep == TypeOK /\ [Next]_vars => TypeOK' /\ Keeps
<1> SUFFICES ASSUME TypeOK, [Next]_vars PROVE TypeOK' /\ Keeps
  OBVIOUS
<1>0. /\ calls \in 0..MaxCalls /\ moves \in 0..MaxMoves /\ crashes \in 0..MaxCrashes /\ quiet \in BOOLEAN
      /\ MaxCalls \in Nat /\ MaxMoves \in Nat /\ MaxCrashes \in Nat
  BY CorrelatorAssumption DEF TypeOK
<1>r. UNCHANGED rowVars => RowType' /\ Keeps
  BY DEF TypeOK, RowType, rowVars, Keeps
<1>a. AnyAlert \in Alerts
  BY CorrelatorAssumption DEF AnyAlert
<1>d. DOMAIN incidents \subseteq Nat /\ 0 \notin DOMAIN incidents
  BY LenProperties DEF TypeOK, RowType
<1>s. \A i \in DOMAIN incidents : incidents[i].status \in Statuses
  <2>1. \A i \in DOMAIN incidents : incidents[i] \in Rows
    BY LenProperties, ElementOfSeq DEF TypeOK, RowType
  <2> QED
    BY <2>1 DEF Rows
<1>1. ASSUME NEW t \in Threads, NEW a \in Alerts, Query(t, a) PROVE TypeOK' /\ Keeps
  <2>1. RowType' /\ Keeps
    BY <1>1, <1>r DEF Query
  <2>2. calls' \in 0..MaxCalls
    BY <1>0, <1>1 DEF Query
  <2>3. alert' \in [Threads -> Alerts]
    BY <1>1 DEF Query, TypeOK, CallType
  <2>4. CASE Matches(a) = {}
    <3>1. pc' = [pc EXCEPT ![t] = "create"] /\ candidate' = [candidate EXCEPT ![t] = NoRow]
      BY <1>1, <2>4 DEF Query
    <3>2. CallType'
      BY <1>1, <2>3, <3>1 DEF Query, TypeOK, CallType, NoRow, rowVars
    <3> QED
      BY <1>0, <1>1, <2>1, <2>2, <3>2 DEF Query, TypeOK
  <2>5. CASE Matches(a) # {}
    <3> DEFINE i == Newest(Matches(a))
    <3>1. i \in DOMAIN incidents
      BY <2>5, MatchKnown
    <3>2. /\ pc' = [pc EXCEPT ![t] = "append"]
          /\ candidate' = [candidate EXCEPT ![t] = [id |-> i, status |-> incidents[i].status]]
      BY <1>1, <2>5 DEF Query
    <3> HIDE DEF i
    <3>3. CallType'
      BY <1>1, <1>d, <1>s, <2>3, <3>1, <3>2 DEF Query, TypeOK, CallType, rowVars
    <3> QED
      BY <1>0, <1>1, <2>1, <2>2, <3>3 DEF Query, TypeOK
  <2> QED
    BY <2>4, <2>5
<1>2. ASSUME NEW t \in Threads, Create(t) PROVE TypeOK' /\ Keeps
  <2>1. CASE incidents' = incidents
    <3>1. PICK i \in DOMAIN incidents :
            /\ AnswerWith(t, i, "merged")
            /\ candidate' = [candidate EXCEPT ![t] = [id |-> i, status |-> incidents[i].status]]
            /\ UNCHANGED <<window, timeline, alert>>
      BY <1>2, <2>1, Found
    <3>2. RowType' /\ Keeps
      BY <2>1, <3>1, <1>r DEF rowVars
    <3>3. CallType'
      BY <2>1, <3>1, <1>d, <1>s DEF TypeOK, CallType, AnswerWith
    <3> QED
      BY <1>0, <1>2, <3>2, <3>3 DEF Create, TypeOK
  <2>2. CASE incidents' # incidents
    <3> DEFINE new == Len(incidents) + 1
    <3>1. /\ incidents' \in Seq(Rows) /\ DOMAIN incidents' = DOMAIN incidents \cup {new}
          /\ new \in Nat
          /\ \A i \in DOMAIN incidents : incidents'[i] = incidents[i]
          /\ window' \in Seq(Nat) /\ IsInjective(window') /\ ToSet(window') = ToSet(window) \cup {new}
          /\ candidate' = [candidate EXCEPT ![t] = [id |-> new, status |-> "open"]]
          /\ AnswerWith(t, new, "created")
      BY <1>2, <2>2, Inserted
    <3> HIDE DEF new
    <3>2. timeline' = timeline /\ alert' = alert /\ UNCHANGED <<calls, moves, crashes, quiet>>
      BY <1>2 DEF Create
    <3>3. Keeps
      BY <3>1 DEF Keeps
    <3>4. RowType'
      BY <3>1, <3>2 DEF TypeOK, RowType
    <3>5. CallType'
      BY <3>1, <3>2 DEF TypeOK, CallType, AnswerWith, Statuses
    <3> QED
      BY <1>0, <3>2, <3>3, <3>4, <3>5 DEF TypeOK
  <2> QED
    BY <2>1, <2>2
<1>3. ASSUME NEW t \in Threads, AppendMerged(t) PROVE TypeOK' /\ Keeps
  <2>0. candidate[t].id \in DOMAIN incidents /\ alert[t] \in Alerts
    BY <1>3 DEF AppendMerged, TypeOK, CallType
  <2>a. timeline' \subseteq [incident : DOMAIN incidents, alert : Alerts]
    BY <1>3, <2>0 DEF AppendMerged, TypeOK, RowType
  <2>1. RowType' /\ Keeps
    BY <1>3, <2>a DEF AppendMerged, TypeOK, RowType, Keeps
  <2>2. CallType'
    BY <1>3 DEF AppendMerged, TypeOK, CallType
  <2> QED
    BY <1>0, <1>3, <2>1, <2>2 DEF AppendMerged, TypeOK
<1>4. ASSUME NEW t \in Threads, Touch(t) PROVE TypeOK' /\ Keeps
  <2>1. candidate[t].id \in DOMAIN incidents
    BY <1>4 DEF Touch, TypeOK, CallType
  <2>2. /\ window' \in Seq(Nat) /\ IsInjective(window')
        /\ ToSet(window') = ToSet(window) \cup {candidate[t].id}
    BY <1>4, <1>d, <2>1, TouchedWindow DEF Touch, TypeOK, RowType
  <2>3. RowType' /\ Keeps
    BY <1>4, <2>1, <2>2 DEF Touch, TypeOK, RowType, Keeps
  <2>4. CallType'
    BY <1>4, <2>1 DEF Touch, AnswerWith, TypeOK, CallType
  <2> QED
    BY <1>0, <1>4, <2>3, <2>4 DEF Touch, TypeOK
<1>5. ASSUME NEW t \in Threads, Return(t) PROVE TypeOK' /\ Keeps
  <2>1. CallType'
    BY <1>5, <1>a DEF Return, TypeOK, CallType, NoRow, rowVars
  <2> QED
    BY <1>0, <1>5, <1>r, <2>1 DEF Return, TypeOK
<1>6. ASSUME NEW i \in DOMAIN incidents, NEW target \in {"investigating", "mitigated", "resolved"},
             MoveStatus(i, target)
      PROVE  TypeOK' /\ Keeps
  <2>1. /\ incidents' \in Seq(Rows) /\ DOMAIN incidents' = DOMAIN incidents
        /\ \A j \in DOMAIN incidents :
             incidents'[j] = IF j = i THEN [incidents[i] EXCEPT !.status = target] ELSE incidents[j]
        /\ window' \in Seq(Nat) /\ IsInjective(window') /\ ToSet(window') = ToSet(window) \cup {i}
    BY <1>6, Moved
  <2>2. RowType'
    BY <1>6, <2>1 DEF MoveStatus, TypeOK, RowType
  <2>3. incidents[i] \in Rows
    BY LenProperties, ElementOfSeq DEF TypeOK, RowType
  <2>4. Keeps
    BY <2>1, <2>3 DEF Keeps, Rows
  <2>5. CallType'
    BY <1>6, <2>1 DEF MoveStatus, TypeOK, CallType, callVars
  <2>6. moves' \in 0..MaxMoves /\ quiet' \in BOOLEAN
    BY <1>0, <1>6 DEF MoveStatus
  <2> QED
    BY <1>0, <1>6, <2>2, <2>4, <2>5, <2>6 DEF MoveStatus, TypeOK
<1>7. CASE TimePasses
  <2>1. window \in Seq(Nat) /\ window # <<>> /\ window' = Tail(window)
    BY <1>7 DEF TimePasses, TypeOK, RowType
  <2>2. /\ Tail(window) \in Seq(Nat) /\ Len(Tail(window)) = Len(window) - 1
        /\ \A j \in 1..Len(Tail(window)) : Tail(window)[j] = window[j + 1]
        /\ Len(window) \in Nat /\ DOMAIN window = 1..Len(window) /\ DOMAIN Tail(window) = 1..Len(Tail(window))
    BY <2>1, HeadTailProperties, LenProperties
  <2>3. \A j \in 1..Len(Tail(window)) : j + 1 \in 1..Len(window)
    BY <2>2
  <2>4. IsInjective(Tail(window)) /\ ToSet(Tail(window)) \subseteq ToSet(window)
    <3>1. IsInjective(window)
      BY DEF TypeOK, RowType
    <3> DEFINE w == Tail(window)
    <3> HIDE DEF w
    <3>2. DOMAIN w = 1..Len(w) /\ \A j \in DOMAIN w : j \in Nat /\ j + 1 \in DOMAIN window /\ w[j] = window[j + 1]
      BY <2>2, <2>3 DEF w
    <3>3. \A j, k \in DOMAIN w : j + 1 = k + 1 => j = k
      BY <3>2
    <3> QED
      BY <3>1, <3>2, <3>3 DEF IsInjective, ToSet, w
  <2>5. RowType' /\ Keeps
    BY <1>7, <2>1, <2>2, <2>4 DEF TimePasses, TypeOK, RowType, Keeps
  <2>6. CallType'
    BY <1>7 DEF TimePasses, TypeOK, CallType, callVars
  <2> QED
    BY <1>0, <1>7, <2>5, <2>6 DEF TimePasses, TypeOK
<1>8. CASE Crash
  <2>1. CallType'
    BY <1>8, <1>a DEF Crash, TypeOK, CallType, NoRow, rowVars
  <2> QED
    BY <1>0, <1>8, <1>r, <2>1 DEF Crash, TypeOK
<1>9. CASE UNCHANGED vars
  <2>1. CallType'
    BY <1>9 DEF vars, callVars, rowVars, TypeOK, CallType
  <2> QED
    BY <1>9, <1>r, <2>1 DEF vars, TypeOK
<1> QED
  BY <1>1, <1>2, <1>3, <1>4, <1>5, <1>6, <1>7, <1>8, <1>9 DEF Next

LEMMA TypeInit == Init => TypeOK
<1> SUFFICES ASSUME Init PROVE TypeOK
  OBVIOUS
<1>1. AnyAlert \in Alerts
  BY CorrelatorAssumption DEF AnyAlert
<1>2. <<>> \in Seq(Rows) /\ <<>> \in Seq(Nat) /\ DOMAIN <<>> = {}
  OBVIOUS
<1>3. RowType
  BY <1>2 DEF Init, RowType, IsInjective, ToSet
<1>4. CallType
  BY <1>1 DEF Init, CallType, NoRow
<1> QED
  BY <1>3, <1>4, CorrelatorAssumption DEF Init, TypeOK

\* Correlator: the variables stay in their types; an incident is in the window
\* once at most, and answers and events name incidents that exist.
THEOREM CorrelatorType == Spec => []TypeOK
<1>1. TypeOK /\ [Next]_vars => TypeOK'
  BY TypeStep
<1> QED
  BY TypeInit, <1>1, PTL DEF Spec

-----------------------------------------------------------------------------
(* Correlator: answers and events.                                         *)

LEMMA TraceStep == TypeOK /\ TraceInv /\ [Next]_vars => TraceInv'
<1> SUFFICES ASSUME TypeOK, TraceInv, [Next]_vars PROVE TraceInv'
  OBVIOUS
<1> DEFINE Traced(i, a) == \/ incidents[i].fingerprint = FingerprintOf[a]
                           \/ [incident |-> i, alert |-> a] \in timeline
           Traces(i, a) == \/ incidents'[i].fingerprint = FingerprintOf[a]
                           \/ [incident |-> i, alert |-> a] \in timeline'
<1>1. TypeOK' /\ Keeps
  BY TypeStep
<1>2. \A r \in answers : r.incident \in DOMAIN incidents /\ Traced(r.incident, r.alert)
  BY DEF TypeOK, CallType, TraceInv, AnsweredIsTraceable
<1>3. timeline \subseteq timeline'
  BY DEF Next, vars, rowVars, Query, Create, AppendMerged, Touch, Return, MoveStatus, TimePasses, Crash
<1>4. \A i \in DOMAIN incidents, a \in Alerts : Traced(i, a) => Traces(i, a)
  BY <1>1, <1>3 DEF Keeps
<1>5. \A r \in answers : Traces(r.incident, r.alert)
  BY <1>2, <1>4 DEF TypeOK, CallType
<1>6. ASSUME UNCHANGED answers PROVE AnsweredIsTraceable'
  BY <1>5, <1>6 DEF AnsweredIsTraceable
<1>7. ASSUME NEW t \in Threads, NEW i, NEW action, AnswerWith(t, i, action),
             alert' = alert, Traces(i, alert[t])
      PROVE  AnsweredIsTraceable'
  <2>0. answers' = answers \cup {[alert |-> alert[t], incident |-> i, action |-> action]}
    BY <1>7 DEF AnswerWith
  <2>1. \A r \in answers' : r \in answers \/ (r.incident = i /\ r.alert = alert[t])
    BY <2>0
  <2>2. \A r \in answers' : Traces(r.incident, r.alert)
    BY <1>5, <1>7, <2>1
  <2> QED
    BY <2>2 DEF AnsweredIsTraceable
<1> DEFINE Behind == \A t \in Threads : pc[t] = "touch" =>
                       [incident |-> candidate[t].id, alert |-> alert[t]] \in timeline
<1>8. ASSUME NEW t \in Threads,
             \A u \in Threads : u # t => /\ pc'[u] = pc[u] /\ candidate'[u] = candidate[u]
                                         /\ alert'[u] = alert[u],
             pc'[t] = "touch" => [incident |-> candidate'[t].id, alert |-> alert'[t]] \in timeline'
      PROVE  Behind'
  BY <1>3, <1>8 DEF TraceInv
<1> HIDE DEF Behind, Traced, Traces
<1>9. Behind' /\ AnsweredIsTraceable' => TraceInv'
  BY DEF Behind, TraceInv
<1>10. ASSUME NEW t \in Threads, NEW a \in Alerts, Query(t, a) PROVE TraceInv'
  <2>1. Behind'
    BY <1>8, <1>10 DEF Query, TypeOK, CallType, NoRow
  <2> QED
    BY <1>6, <1>9, <1>10, <2>1 DEF Query
<1>11. ASSUME NEW t \in Threads, Create(t) PROVE TraceInv'
  <2>1. Behind'
    BY <1>8, <1>11 DEF Create, AnswerWith, TypeOK, CallType
  <2>2. AnsweredIsTraceable'
    <3>1. CASE incidents' # incidents
      <4> DEFINE new == Len(incidents) + 1
      <4>1. /\ AnswerWith(t, new, "created")
            /\ incidents'[new] = [fingerprint |-> FingerprintOf[alert[t]],
                                  labels |-> LabelsOf[alert[t]], status |-> "open"]
        BY <1>11, <3>1, Inserted
      <4> HIDE DEF new
      <4>2. alert' = alert
        BY <1>11 DEF Create
      <4>3. Traces(new, alert[t])
        BY <4>1, <4>2 DEF Traces
      <4> QED
        BY <1>7, <4>1, <4>2, <4>3
    <3>2. CASE incidents' = incidents
      <4>1. PICK i, action : AnswerWith(t, i, action) /\ incidents'[i].fingerprint = FingerprintOf[alert[t]]
        BY <1>11, <3>2, Found
      <4>2. alert' = alert
        BY <1>11 DEF Create
      <4> QED
        BY <1>7, <4>1, <4>2 DEF Traces
    <3> QED
      BY <3>1, <3>2
  <2> QED
    BY <1>9, <2>1, <2>2
<1>12. ASSUME NEW t \in Threads, AppendMerged(t) PROVE TraceInv'
  <2>1. Behind'
    BY <1>8, <1>12 DEF AppendMerged, TypeOK, CallType
  <2> QED
    BY <1>6, <1>9, <1>12, <2>1 DEF AppendMerged
<1>13. ASSUME NEW t \in Threads, Touch(t) PROVE TraceInv'
  <2>1. Behind'
    BY <1>8, <1>13 DEF Touch, AnswerWith, TypeOK, CallType
  <2>2. [incident |-> candidate[t].id, alert |-> alert[t]] \in timeline
    BY <1>13 DEF Touch, TraceInv
  <2>3. AnsweredIsTraceable'
    BY <1>7, <1>13, <2>2 DEF Touch, Traces
  <2> QED
    BY <1>9, <2>1, <2>3
<1>14. ASSUME NEW t \in Threads, Return(t) PROVE TraceInv'
  <2>1. Behind'
    BY <1>8, <1>14 DEF Return, TypeOK, CallType
  <2> QED
    BY <1>6, <1>9, <1>14, <2>1 DEF Return
<1>15. CASE Crash
  <2>1. Behind'
    BY <1>15 DEF Crash, Behind
  <2> QED
    BY <1>6, <1>9, <1>15, <2>1 DEF Crash
<1>16. CASE UNCHANGED <<callVars, timeline, answers>>
  <2>1. Behind'
    BY <1>16 DEF callVars, Behind, TraceInv
  <2> QED
    BY <1>6, <1>9, <1>16, <2>1
<1> QED
  BY <1>10, <1>11, <1>12, <1>13, <1>14, <1>15, <1>16 DEF Next, MoveStatus, TimePasses, vars, rowVars

\* Correlator.ingest_alert: whoever got an answer finds the incident it named to be
\* the alert's own, or to have an alert_merged event for it, wherever the process
\* died and however threads raced.
THEOREM TraceSafety == Spec => []AnsweredIsTraceable
<1>1. Init => TraceInv
  BY DEF Init, TraceInv, AnsweredIsTraceable
<1>2. TraceInv => AnsweredIsTraceable
  BY DEF TraceInv
<1> QED
  BY <1>1, <1>2, TraceStep, CorrelatorType, PTL DEF Spec

-----------------------------------------------------------------------------
(* Correlator: storms.                                                     *)

LEMMA StormFinite ==
  ASSUME TypeOK, NEW l
  PROVE  /\ IsFiniteSet(Alike(l)) /\ Cardinality(Alike(l)) \in Nat
         /\ IsFiniteSet(Opening(l)) /\ Cardinality(Opening(l)) \in Nat
         /\ Cardinality(Opening(l)) <= Cardinality(Threads) /\ Cardinality(Threads) \in Nat
<1>1. IsFiniteSet(DOMAIN incidents)
  BY LenProperties, FS_Interval DEF TypeOK, RowType
<1>2. Alike(l) \in SUBSET DOMAIN incidents /\ Opening(l) \in SUBSET Threads /\ IsFiniteSet(Threads)
  BY CorrelatorAssumption DEF Alike, Opening
<1> QED
  BY <1>1, <1>2, FS_Subset, FS_CardinalityType

\* A step after which a storm has no other incidents and no other threads.
LEMMA Calmer ==
  ASSUME TypeOK, NEW l, Alike(l)' = Alike(l), Opening(l)' \in SUBSET Opening(l),
         Cardinality(Alike(l)) + Cardinality(Opening(l)) <= Cardinality(Threads)
  PROVE  Cardinality(Alike(l)') + Cardinality(Opening(l)') <= Cardinality(Threads)
<1>1. /\ Cardinality(Alike(l)) \in Nat /\ Cardinality(Opening(l)) \in Nat /\ Cardinality(Threads) \in Nat
      /\ IsFiniteSet(Opening(l))
  BY StormFinite
<1>2. Cardinality(Opening(l)') \in Nat /\ Cardinality(Opening(l)') <= Cardinality(Opening(l))
  BY <1>1, FS_Subset, FS_CardinalityType
<1> QED
  BY <1>1, <1>2

\* A thread that found nothing: its storm has no incident yet.
LEMMA StormBegins ==
  ASSUME TypeOK, StormInv, quiet, NEW t \in Threads, NEW a \in Alerts, Query(t, a),
         NEW l \in Labels, label_intersection(l, l) >= 2
  PROVE  Cardinality(Alike(l)') + Cardinality(Opening(l)') <= Cardinality(Threads)
<1>0. Alike(l)' = Alike(l)
  BY DEF Query, rowVars, Alike
<1>1. Cardinality(Alike(l)) + Cardinality(Opening(l)) <= Cardinality(Threads)
  BY DEF StormInv
<1>2. pc[t] = "idle" /\ alert' = [alert EXCEPT ![t] = a]
  BY DEF Query
<1>3. CASE Matches(a) # {}
  <2>1. pc' = [pc EXCEPT ![t] = "append"]
    BY <1>3 DEF Query
  <2>2. Opening(l)' \in SUBSET Opening(l)
    BY <1>2, <2>1 DEF Opening, TypeOK, CallType
  <2> QED
    BY <1>0, <1>1, <2>2, Calmer
<1>4. CASE Matches(a) = {}
  <2>1. pc' = [pc EXCEPT ![t] = "create"]
    BY <1>4 DEF Query
  <2>2. CASE LabelsOf[a] # l
    <3>1. Opening(l)' \in SUBSET Opening(l)
      BY <1>2, <2>1, <2>2 DEF Opening, TypeOK, CallType
    <3> QED
      BY <1>0, <1>1, <3>1, Calmer
  <2>3. CASE LabelsOf[a] = l
    <3>1. Alike(l) = {}
      <4>1. ASSUME NEW i \in Alike(l) PROVE i \in Matches(a)
        BY <2>3, <4>1 DEF Alike, StormInv, Matches
      <4> QED
        BY <1>4, <4>1
    <3>2. Cardinality(Alike(l)') = 0
      BY <1>0, <3>1, FS_EmptySet
    <3>3. Opening(l)' \in SUBSET Threads /\ IsFiniteSet(Threads)
      BY CorrelatorAssumption DEF Opening
    <3>4. Cardinality(Opening(l)') <= Cardinality(Threads) /\ Cardinality(Opening(l)') \in Nat
      BY <3>3, FS_Subset, FS_CardinalityType
    <3> QED
      BY <3>2, <3>4
  <2> QED
    BY <2>2, <2>3
<1> QED
  BY <1>3, <1>4

\* A thread that opens an incident is no longer about to.
LEMMA StormGrows ==
  ASSUME TypeOK, StormInv, quiet, NEW t \in Threads, Create(t),
         NEW l \in Labels, label_intersection(l, l) >= 2
  PROVE  Cardinality(Alike(l)') + Cardinality(Opening(l)') <= Cardinality(Threads)
<1>1. Cardinality(Alike(l)) + Cardinality(Opening(l)) <= Cardinality(Threads)
  BY DEF StormInv
<1>2. pc[t] = "create" /\ pc' = [pc EXCEPT ![t] = "answered"] /\ alert' = alert
  BY DEF Create, AnswerWith
<1>3. Opening(l)' = Opening(l) \ {t}
  BY <1>2 DEF Opening, TypeOK, CallType
<1>4. CASE incidents' = incidents
  <2>1. Alike(l)' = Alike(l)
    BY <1>4 DEF Alike
  <2> QED
    BY <1>1, <1>3, <2>1, Calmer
<1>5. CASE incidents' # incidents
  <2> DEFINE new == Len(incidents) + 1
  <2>1. /\ DOMAIN incidents' = DOMAIN incidents \cup {new} /\ new \notin DOMAIN incidents
        /\ \A i \in DOMAIN incidents : incidents'[i] = incidents[i]
        /\ incidents'[new].labels = LabelsOf[alert[t]]
    <3>1. incidents'[new] = [fingerprint |-> FingerprintOf[alert[t]],
                             labels |-> LabelsOf[alert[t]], status |-> "open"]
      BY <1>5, Inserted
    <3> HIDE DEF new
    <3>2. incidents'[new].labels = LabelsOf[alert[t]]
      BY <3>1
    <3> QED
      BY <1>5, <3>2, Inserted DEF new
  <2> HIDE DEF new
  <2>2. CASE LabelsOf[alert[t]] # l
    <3>1. Alike(l)' = Alike(l)
      BY <2>1, <2>2 DEF Alike
    <3> QED
      BY <1>1, <1>3, <3>1, Calmer
  <2>3. CASE LabelsOf[alert[t]] = l
    <3>1. Alike(l)' = Alike(l) \cup {new} /\ new \notin Alike(l)
      BY <2>1, <2>3 DEF Alike
    <3>2. t \in Opening(l)
      BY <1>2, <2>3 DEF Opening
    <3>3. /\ IsFiniteSet(Alike(l)) /\ IsFiniteSet(Opening(l)) /\ Cardinality(Threads) \in Nat
          /\ Cardinality(Alike(l)) \in Nat /\ Cardinality(Opening(l)) \in Nat
      BY StormFinite
    <3>4. Cardinality(Alike(l)') = Cardinality(Alike(l)) + 1
      BY <3>1, <3>3, FS_AddElement
    <3>5. Cardinality(Opening(l) \ {t}) = Cardinality(Opening(l)) - 1
      BY Zenon, <3>2, <3>3, FS_RemoveElement
    <3> QED
      BY <1>1, <1>3, <3>3, <3>4, <3>5
  <2> QED
    BY <2>2, <2>3
<1> QED
  BY <1>4, <1>5

LEMMA StormStep == TypeOK /\ StormInv /\ [Next]_vars => StormInv'
<1> SUFFICES ASSUME TypeOK, StormInv, [Next]_vars, quiet' PROVE StormInv'
  BY DEF StormInv
<1>1. quiet
  BY DEF Next, vars, Query, Create, AppendMerged, Touch, Return, MoveStatus, TimePasses, Crash
<1>2. \A i \in DOMAIN incidents : i \in ToSet(window) /\ incidents[i].status # "resolved"
  BY <1>1 DEF StormInv, recent_unresolved_incidents, Unresolved
<1>3. \A l \in Labels : label_intersection(l, l) >= 2 =>
         Cardinality(Alike(l)) + Cardinality(Opening(l)) <= Cardinality(Threads)
  BY <1>1 DEF StormInv
<1> DEFINE Candidates == \A i \in DOMAIN incidents' : i \in ToSet(window') /\ incidents'[i].status # "resolved"
           Bounded == \A l \in Labels : label_intersection(l, l) >= 2 =>
                        Cardinality(Alike(l)') + Cardinality(Opening(l)') <= Cardinality(Threads)
<1>4. Candidates /\ Bounded => StormInv'
  BY DEF StormInv, recent_unresolved_incidents, Unresolved
<1>5. ASSUME \A l \in Labels : Alike(l)' = Alike(l) /\ Opening(l)' \in SUBSET Opening(l)
      PROVE  Bounded
  BY <1>3, <1>5, Calmer
<1>6. ASSUME NEW t \in Threads, NEW a \in Alerts, Query(t, a) PROVE StormInv'
  <2>1. Candidates
    BY <1>2, <1>6 DEF Query, rowVars
  <2>2. Bounded
    BY <1>1, <1>6, StormBegins
  <2> QED
    BY <1>4, <2>1, <2>2
<1>7. ASSUME NEW t \in Threads, Create(t) PROVE StormInv'
  <2>1. Candidates
    <3>1. CASE incidents' = incidents
      <4>1. window' = window
        BY <1>7, <3>1, Found
      <4> QED
        BY <1>2, <3>1, <4>1
    <3>2. CASE incidents' # incidents
      <4> DEFINE new == Len(incidents) + 1
      <4>1. /\ DOMAIN incidents' = DOMAIN incidents \cup {new}
            /\ \A i \in DOMAIN incidents : incidents'[i] = incidents[i]
            /\ incidents'[new] = [fingerprint |-> FingerprintOf[alert[t]],
                                  labels |-> LabelsOf[alert[t]], status |-> "open"]
            /\ ToSet(window') = ToSet(window) \cup {new}
        BY <1>7, <3>2, Inserted
      <4> HIDE DEF new
      <4>2. incidents'[new].status # "resolved"
        BY <4>1
      <4> QED
        BY <1>2, <4>1, <4>2
    <3> QED
      BY <3>1, <3>2
  <2>2. Bounded
    BY <1>1, <1>7, StormGrows
  <2> QED
    BY <1>4, <2>1, <2>2
<1>8. ASSUME NEW t \in Threads, AppendMerged(t) \/ Touch(t) \/ Return(t) PROVE StormInv'
  <2>1. incidents' = incidents /\ ToSet(window) \subseteq ToSet(window')
    <3>1. CASE Touch(t)
      <4>1. candidate[t].id \in Nat
        BY DEF TypeOK, CallType
      <4>2. window \in Seq(Nat) /\ IsInjective(window)
        BY DEF TypeOK, RowType
      <4> QED
        BY <3>1, <4>1, <4>2, TouchedWindow DEF Touch
    <3> QED
      BY <1>8, <3>1 DEF AppendMerged, Return, rowVars
  <2>2. \A u \in Threads : pc'[u] = "create" => pc[u] = "create" /\ alert'[u] = alert[u]
    BY <1>8 DEF AppendMerged, Touch, Return, AnswerWith, TypeOK, CallType
  <2>3. \A l \in Labels : Alike(l)' = Alike(l) /\ Opening(l)' \in SUBSET Opening(l)
    BY <2>1, <2>2 DEF Alike, Opening
  <2> QED
    BY <1>2, <1>4, <1>5, <2>1, <2>3
<1>9. ASSUME NEW i \in DOMAIN incidents, NEW target \in {"investigating", "mitigated", "resolved"},
             MoveStatus(i, target)
      PROVE  StormInv'
  <2>1. /\ DOMAIN incidents' = DOMAIN incidents
        /\ \A j \in DOMAIN incidents :
             incidents'[j] = IF j = i THEN [incidents[i] EXCEPT !.status = target] ELSE incidents[j]
        /\ ToSet(window') = ToSet(window) \cup {i}
    BY <1>9, Moved
  <2>2. target # "resolved"
    BY <1>9 DEF MoveStatus
  <2>3. incidents[i] \in Rows
    BY LenProperties, ElementOfSeq DEF TypeOK, RowType
  <2>4. \A j \in DOMAIN incidents : /\ incidents'[j].labels = incidents[j].labels
                                    /\ incidents'[j].status # "resolved"
    BY <1>2, <2>1, <2>2, <2>3 DEF Rows
  <2>5. \A l \in Labels : Alike(l)' = Alike(l) /\ Opening(l)' \in SUBSET Opening(l)
    BY <1>9, <2>1, <2>4 DEF Alike, Opening, MoveStatus, callVars
  <2> QED
    BY <1>2, <1>4, <1>5, <2>1, <2>4, <2>5
<1>10. CASE Crash
  <2>1. incidents' = incidents /\ window' = window /\ \A u \in Threads : pc'[u] # "create"
    BY <1>10 DEF Crash, rowVars
  <2>2. \A l \in Labels : Alike(l)' = Alike(l) /\ Opening(l)' \in SUBSET Opening(l)
    BY <2>1 DEF Alike, Opening
  <2> QED
    BY <1>2, <1>4, <1>5, <2>1, <2>2
<1>11. CASE UNCHANGED vars
  <2>1. \A l \in Labels : Alike(l)' = Alike(l) /\ Opening(l)' \in SUBSET Opening(l)
    BY <1>11 DEF Alike, Opening, vars, rowVars, callVars
  <2> QED
    BY <1>2, <1>4, <1>5, <1>11, <2>1 DEF vars, rowVars
<1>12. ~TimePasses
  BY DEF TimePasses
<1> QED
  BY <1>6, <1>7, <1>8, <1>9, <1>10, <1>11, <1>12 DEF Next

\* Correlator.ingest_alert checks and creates without a lock between: however many
\* alerts of a storm come, with however many fingerprints, it splits into no more
\* incidents than there are threads, as long as none ages or is resolved.
THEOREM StormSafety == Spec => []StormSplitBounded
<1>1. Init => StormInv
  <2> SUFFICES ASSUME Init, NEW l \in Labels
               PROVE  Cardinality(Alike(l)) + Cardinality(Opening(l)) <= Cardinality(Threads)
    BY DEF Init, StormInv
  <2>1. Alike(l) = {} /\ Opening(l) = {}
    BY DEF Init, Alike, Opening
  <2>2. Cardinality({}) = 0 /\ Cardinality(Threads) \in Nat
    BY FS_EmptySet, FS_CardinalityType, CorrelatorAssumption
  <2> QED
    BY <2>1, <2>2
<1>2. TypeOK /\ StormInv => StormSplitBounded
  <2> SUFFICES ASSUME TypeOK, StormInv, quiet, NEW i \in DOMAIN incidents,
                      label_intersection(incidents[i].labels, incidents[i].labels) >= 2
               PROVE  Cardinality({j \in DOMAIN incidents : incidents[j].labels = incidents[i].labels})
                        <= Cardinality(Threads)
    BY DEF StormSplitBounded
  <2>1. incidents[i].labels \in Labels
    <3>1. incidents[i] \in Rows
      BY LenProperties, ElementOfSeq DEF TypeOK, RowType
    <3> QED
      BY <3>1 DEF Rows, Labels
  <2>2. PICK l \in Labels : l = incidents[i].labels
    BY <2>1
  <2>3. Cardinality(Alike(l)) + Cardinality(Opening(l)) <= Cardinality(Threads)
    BY <2>2 DEF StormInv
  <2>4. /\ Cardinality(Alike(l)) \in Nat /\ Cardinality(Opening(l)) \in Nat /\ Cardinality(Threads) \in Nat
    BY StormFinite
  <2>5. Cardinality(Alike(l)) <= Cardinality(Threads)
    BY <2>3, <2>4
  <2> QED
    BY <2>2, <2>5 DEF Alike
<1> QED
  BY <1>1, <1>2, StormStep, CorrelatorType, PTL DEF Spec

-----------------------------------------------------------------------------
(* GateServer: delivery.                                                   *)

\* While an attempt can still be made, every message in the chat is one whose
\* answer was lost; an accepted one accounts for at most one more.
ChatAccounted ==
  /\ dpc \in {"triage", "call"} => attempt = 0 /\ shown = 0 /\ unsure = 0
  /\ dpc \in {"post", "backoff", "refused"} => shown <= unsure
  /\ dpc = "accepted" /\ token => shown >= 1
  /\ shown <= 1 + unsure
  /\ dpc \in {"post", "backoff"} => token /\ ~shadow
  /\ dpc = "post" => attempt < sendAttempts
  /\ shadow => shown = 0 /\ dpc \in {"triage", "over"}

\* Core has its answer only after the call is over or it gave up.
AnswerFits ==
  /\ told # "nothing" => dpc = "over" \/ dctx = "over"
  /\ told = "yes" /\ token => shown >= 1
  /\ told = "no" /\ dctx = "open" => shown <= unsure

DeliveryInv == DeliveryType /\ ChatAccounted /\ AnswerFits

-----------------------------------------------------------------------------
(* GateServer: collection.                                                 *)

\* A collector has its one entry exactly once it was merged; nobody else has one.
OneEntryEach ==
  \A c \in Sources :
    /\ bundle[c] + degraded[c] = (IF cpc[c] = "merged" THEN 1 ELSE 0)
    /\ cpc[c] # "ready" => c \in collectors /\ fpc # "idle"

\* The fan-out goes back only when everybody was merged.
AllMerged == fpc = "returned" => \A c \in collectors : cpc[c] = "merged"

CollectInv == CollectType /\ OneEntryEach /\ AllMerged

-----------------------------------------------------------------------------
(* GateServer: the steps.                                                  *)

LEMMA DeliveryStep ==
  ASSUME DeliveryInv, Deliver
  PROVE  DeliveryInv'
<1> USE GateAssumption DEF DeliveryInv, DeliveryType, ChatAccounted, AnswerFits
<1>1. CASE TriageEnds
  BY <1>1 DEF TriageEnds
<1>2. CASE DeliverNotification
  BY <1>2 DEF DeliverNotification
<1>3. CASE Post
  BY <1>3 DEF Post
<1>4. CASE Backoff
  BY <1>4 DEF Backoff
<1>5. CASE Respond
  BY <1>5 DEF Respond
<1>6. CASE CallerGivesUp
  BY <1>6 DEF CallerGivesUp
<1> QED
  BY <1>1, <1>2, <1>3, <1>4, <1>5, <1>6 DEF Deliver

LEMMA CollectStep ==
  ASSUME CollectInv, Collect
  PROVE  CollectInv'
<1> USE DEF CollectInv, CollectType, OneEntryEach, AllMerged
<1>1. CASE StartFanOut
  BY <1>1 DEF StartFanOut, QueriesOf, GateAssumption
<1>2. CASE TimeoutPasses
  BY <1>2 DEF TimeoutPasses
<1>3. CASE ReturnBundle
  BY <1>3 DEF ReturnBundle
<1>4. ASSUME NEW c \in Sources, Answered(c) PROVE CollectInv'
  BY <1>4 DEF Answered
<1>5. ASSUME NEW c \in Sources, Collected(c) PROVE CollectInv'
  BY <1>5 DEF Collected
<1>6. ASSUME NEW c \in Sources, Cancelled(c) PROVE CollectInv'
  BY <1>6 DEF Cancelled
<1>7. ASSUME NEW c \in Sources, Merge(c) PROVE CollectInv'
  BY <1>7 DEF Merge
<1> QED
  BY <1>1, <1>2, <1>3, <1>4, <1>5, <1>6, <1>7 DEF Collect, Run

\* The two kinds of call leave each other's state alone.
GateInv == rpc \in {"DeliverNotification", "CollectContext"} /\ DeliveryInv /\ CollectInv

LEMMA GateStep == GateInv /\ [GateNext]_gateVars => GateInv'
<1> SUFFICES ASSUME GateInv, [GateNext]_gateVars PROVE GateInv'
  OBVIOUS
<1>1. UNCHANGED deliveryVars => (DeliveryInv => DeliveryInv')
  BY DEF deliveryVars, DeliveryInv, DeliveryType, ChatAccounted, AnswerFits
<1>2. UNCHANGED collectVars => (CollectInv => CollectInv')
  BY DEF collectVars, CollectInv, CollectType, OneEntryEach, AllMerged
<1>3. CASE Deliver
  <2>1. UNCHANGED <<collectVars, rpc>>
    BY <1>3 DEF Deliver, TriageEnds, DeliverNotification, Post, Backoff, Respond, CallerGivesUp
  <2> QED
    BY <1>2, <1>3, <2>1, DeliveryStep DEF GateInv
<1>4. CASE Collect
  <2>1. UNCHANGED <<deliveryVars, rpc>>
    BY <1>4 DEF Collect, StartFanOut, TimeoutPasses, ReturnBundle, Answered, Run, Collected,
                Cancelled, Merge
  <2> QED
    BY <1>1, <1>4, <2>1, CollectStep DEF GateInv
<1>5. CASE UNCHANGED gateVars
  BY <1>1, <1>2, <1>5 DEF gateVars, GateInv
<1> QED
  BY <1>3, <1>4, <1>5 DEF GateNext, Terminating

LEMMA GateAlways == GateSpec => []GateInv
<1>1. GateInit => DeliveryInv
  BY GateAssumption DEF GateInit, DeliveryInv, DeliveryType, ChatAccounted, AnswerFits
<1>2. GateInit => CollectInv
  BY GateAssumption DEF GateInit, None, CollectInv, CollectType, OneEntryEach, AllMerged
<1>3. GateInit => GateInv
  BY <1>1, <1>2 DEF GateInit, GateInv
<1> QED
  BY <1>3, GateStep, PTL DEF GateSpec

\* The variables stay in their types: no more posts than attempts, no source in
\* the bundle twice.
THEOREM GateType == GateSpec => []GateTypeOK
<1>1. GateInv => GateTypeOK
  BY DEF GateInv, DeliveryInv, CollectInv, GateTypeOK
<1> QED
  BY <1>1, GateAlways, PTL

\* Whichever collectors fail, hang or finish late, the bundle that goes back has
\* one entry of each configured source and none of another.
THEOREM AccountSafety == GateSpec => []EverySourceAccounted
<1>1. GateInv => EverySourceAccounted
  <2> SUFFICES ASSUME GateInv, fpc = "returned", NEW c \in Sources
               PROVE  bundle[c] + degraded[c] = (IF c \in collectors THEN 1 ELSE 0)
    BY DEF EverySourceAccounted
  <2>1. CASE c \in collectors
    BY <2>1 DEF GateInv, CollectInv, OneEntryEach, AllMerged
  <2>2. CASE c \notin collectors
    BY <2>2 DEF GateInv, CollectInv, OneEntryEach
  <2> QED
    BY <2>1, <2>2
<1> QED
  BY <1>1, GateAlways, PTL

\* Whatever is lost, repeated or late on the way to the chat, what core is told
\* about a report is true wherever core could know better.
THEOREM AnswerSafety == GateSpec => []ToldAsShown
<1>1. GateInv => ToldAsShown
  BY DEF GateInv, DeliveryInv, DeliveryType, ChatAccounted, AnswerFits, ToldAsShown
<1> QED
  BY <1>1, GateAlways, PTL

-----------------------------------------------------------------------------
(* Migrations: the list.                                                   *)

LEMMA Tuples ==
  ASSUME NEW a, NEW b, NEW c
  PROVE  /\ Len(<<a>>) = 1 /\ DOMAIN <<a>> = 1..1 /\ <<a>>[1] = a
         /\ Len(<<a, b>>) = 2 /\ DOMAIN <<a, b>> = 1..2 /\ <<a, b>>[1] = a /\ <<a, b>>[2] = b
         /\ Len(<<a, b, c>>) = 3 /\ DOMAIN <<a, b, c>> = 1..3
         /\ <<a, b, c>>[1] = a /\ <<a, b, c>>[2] = b /\ <<a, b, c>>[3] = c
OBVIOUS

Name(m) == MIGRATIONS[m].name

\* A statement is found undone by the migrations before it; only those that add a
\* column cannot be run twice, and nothing else makes what they make.
LEMMA MigrationList ==
  /\ Len(MIGRATIONS) = 9 /\ DOMAIN MIGRATIONS = 1..9
  /\ \A m \in 1..9 :
       /\ Name(m) \in 1..9 /\ \A n \in 1..9 : Name(m) = Name(n) => m = n
       /\ Len(Script(m)) \in 1..3 /\ DOMAIN Script(m) = 1..Len(Script(m))
       /\ \A k \in DOMAIN Script(m) :
            /\ \/ Script(m)[k].needs = "nothing"
               \/ k > 1 /\ Script(m)[k].needs = Script(m)[1].makes
               \/ m > 2 /\ Script(m)[k].needs = Script(2)[1].makes
            /\ \A j \in 1..9 : \A i \in DOMAIN Script(j) :
                 ~Script(m)[k].idempotent /\ Script(m)[k].makes = Script(j)[i].makes =>
                   m = j /\ k = i
<1> USE DEF MIGRATIONS, Script
<1>1. Len(MIGRATIONS) = 9 /\ DOMAIN MIGRATIONS = 1..9
  OBVIOUS
<1>2. \A m \in 1..9 : Name(m) \in 1..9 /\ \A n \in 1..9 : Name(m) = Name(n) => m = n
  BY DEF Name
<1> DEFINE Sound(m, k) ==
             /\ \/ Script(m)[k].needs = "nothing"
                \/ k > 1 /\ Script(m)[k].needs = Script(m)[1].makes
                \/ m > 2 /\ Script(m)[k].needs = Script(2)[1].makes
             /\ \/ m # 4 /\ Script(m)[k].idempotent = TRUE /\ Script(m)[k].makes \notin {"prev_hash", "hash"}
                \/ m = 4 /\ k = 1 /\ Script(m)[k].makes = "prev_hash"
                \/ m = 4 /\ k = 2 /\ Script(m)[k].makes = "hash"
           Facts(m) ==
             /\ Len(Script(m)) \in 1..3 /\ DOMAIN Script(m) = 1..Len(Script(m))
             /\ \A k \in DOMAIN Script(m) : Sound(m, k)
<1>3. \A m \in 1..9 : Facts(m)
  <2>t. Script(2)[1].makes = "timeline"
    BY DEF Make
  <2>1. Facts(1)
    <3>1. /\ Len(Script(1)) = 3 /\ DOMAIN Script(1) = 1..3
          /\ Script(1)[1] = Make("incidents")
          /\ Script(1)[2] = On("incidents", "idx_incidents_fingerprint_status")
          /\ Script(1)[3] = On("incidents", "idx_incidents_status")
      BY Tuples
    <3> HIDE DEF MIGRATIONS, Script
    <3>2. Sound(1, 1) /\ Sound(1, 2) /\ Sound(1, 3)
      BY <2>t, <3>1 DEF On, Make, AddColumn
    <3> HIDE DEF Sound
    <3> QED
      BY <3>1, <3>2
  <2>2. Facts(2)
    <3>1. /\ Len(Script(2)) = 2 /\ DOMAIN Script(2) = 1..2
          /\ Script(2)[1] = Make("timeline")
          /\ Script(2)[2] = On("timeline", "idx_timeline_incident")
      BY Tuples
    <3> HIDE DEF MIGRATIONS, Script
    <3>2. Sound(2, 1) /\ Sound(2, 2)
      BY <2>t, <3>1 DEF On, Make, AddColumn
    <3> HIDE DEF Sound
    <3> QED
      BY <3>1, <3>2
  <2>3. Facts(3)
    <3>1. /\ Len(Script(3)) = 2 /\ DOMAIN Script(3) = 1..2
          /\ Script(3)[1] = Make("predictions")
          /\ Script(3)[2] = On("predictions", "idx_predictions_incident")
      BY Tuples
    <3> HIDE DEF MIGRATIONS, Script
    <3>2. Sound(3, 1) /\ Sound(3, 2)
      BY <2>t, <3>1 DEF On, Make, AddColumn
    <3> HIDE DEF Sound
    <3> QED
      BY <3>1, <3>2
  <2>4. Facts(4)
    <3>1. /\ Len(Script(4)) = 2 /\ DOMAIN Script(4) = 1..2
          /\ Script(4)[1] = AddColumn("timeline", "prev_hash")
          /\ Script(4)[2] = AddColumn("timeline", "hash")
      BY Tuples
    <3> HIDE DEF MIGRATIONS, Script
    <3>2. Sound(4, 1) /\ Sound(4, 2)
      BY <2>t, <3>1 DEF On, Make, AddColumn
    <3> HIDE DEF Sound
    <3> QED
      BY <3>1, <3>2
  <2>5. Facts(5)
    <3>1. /\ Len(Script(5)) = 2 /\ DOMAIN Script(5) = 1..2
          /\ Script(5)[1] = Make("approval_requests")
          /\ Script(5)[2] = On("approval_requests", "idx_approval_state")
      BY Tuples
    <3> HIDE DEF MIGRATIONS, Script
    <3>2. Sound(5, 1) /\ Sound(5, 2)
      BY <2>t, <3>1 DEF On, Make, AddColumn
    <3> HIDE DEF Sound
    <3> QED
      BY <3>1, <3>2
  <2>6. Facts(6)
    <3>1. /\ Len(Script(6)) = 1 /\ DOMAIN Script(6) = 1..1
          /\ Script(6)[1] = Make("shadow_scores")
      BY Tuples
    <3> HIDE DEF MIGRATIONS, Script
    <3>2. Sound(6, 1)
      BY <2>t, <3>1 DEF On, Make, AddColumn
    <3> HIDE DEF Sound
    <3> QED
      BY <3>1, <3>2
  <2>7. Facts(7)
    <3>1. /\ Len(Script(7)) = 2 /\ DOMAIN Script(7) = 1..2
          /\ Script(7)[1] = Make("action_items")
          /\ Script(7)[2] = On("action_items", "idx_action_items_status")
      BY Tuples
    <3> HIDE DEF MIGRATIONS, Script
    <3>2. Sound(7, 1) /\ Sound(7, 2)
      BY <2>t, <3>1 DEF On, Make, AddColumn
    <3> HIDE DEF Sound
    <3> QED
      BY <3>1, <3>2
  <2>8. Facts(8)
    <3>1. /\ Len(Script(8)) = 1 /\ DOMAIN Script(8) = 1..1
          /\ Script(8)[1] = Make("executed_actions")
      BY Tuples
    <3> HIDE DEF MIGRATIONS, Script
    <3>2. Sound(8, 1)
      BY <2>t, <3>1 DEF On, Make, AddColumn
    <3> HIDE DEF Sound
    <3> QED
      BY <3>1, <3>2
  <2>9. Facts(9)
    <3>1. /\ Len(Script(9)) = 3 /\ DOMAIN Script(9) = 1..3
          /\ Script(9)[1] = Make("knowledge_chunks")
          /\ Script(9)[2] = On("knowledge_chunks", "idx_kc_meta")
          /\ Script(9)[3] = On("knowledge_chunks", "idx_kc_source")
      BY Tuples
    <3> HIDE DEF MIGRATIONS, Script
    <3>2. Sound(9, 1) /\ Sound(9, 2) /\ Sound(9, 3)
      BY <2>t, <3>1 DEF On, Make, AddColumn
    <3> HIDE DEF Sound
    <3> QED
      BY <3>1, <3>2
  <2> HIDE DEF Facts
  <2> QED
    BY <2>1, <2>2, <2>3, <2>4, <2>5, <2>6, <2>7, <2>8, <2>9
<1>5. ASSUME NEW m \in 1..9, NEW k \in DOMAIN Script(m),
             NEW j \in 1..9, NEW i \in DOMAIN Script(j),
             ~Script(m)[k].idempotent, Script(m)[k].makes = Script(j)[i].makes
      PROVE  m = j /\ k = i
  <2>1. Sound(m, k) /\ Sound(j, i)
    <3> HIDE DEF Sound, MIGRATIONS, Script
    <3> QED
      BY <1>3
  <2> HIDE DEF MIGRATIONS, Script
  <2>2. m = 4 /\ k \in {1, 2} /\ Script(m)[k].makes = IF k = 1 THEN "prev_hash" ELSE "hash"
    BY <1>5, <2>1
  <2>3. j = 4 /\ i \in {1, 2} /\ Script(j)[i].makes = IF i = 1 THEN "prev_hash" ELSE "hash"
    BY <1>5, <2>1, <2>2
  <2> QED
    BY <1>5, <2>2, <2>3
<1> HIDE DEF MIGRATIONS, Script
<1> QED
  BY <1>1, <1>2, <1>3, <1>5

\* The same, one fact at a time.
LEMMA Whole == Len(MIGRATIONS) = 9 /\ DOMAIN MIGRATIONS = 1..9
BY MigrationList

LEMMA NameOf ==
  ASSUME NEW m \in 1..9, NEW n \in 1..9
  PROVE  Name(m) \in 1..9 /\ (Name(m) = Name(n) => m = n)
BY MigrationList

LEMMA StatementAt ==
  ASSUME NEW m \in 1..9, NEW k
  PROVE  k \in DOMAIN Script(m) <=> k \in 1..3 /\ k <= Len(Script(m))
<1>1. Len(Script(m)) \in 1..3 /\ DOMAIN Script(m) = 1..Len(Script(m))
  BY MigrationList
<1> QED
  BY <1>1

LEMMA Needs ==
  ASSUME NEW m \in 1..9, NEW k \in DOMAIN Script(m)
  PROVE  \/ Script(m)[k].needs = "nothing"
         \/ k > 1 /\ Script(m)[k].needs = Script(m)[1].makes
         \/ m > 2 /\ Script(m)[k].needs = Script(2)[1].makes
BY MigrationList

LEMMA Column ==
  ASSUME NEW m \in 1..9, NEW k \in DOMAIN Script(m), NEW j \in 1..9, NEW i \in DOMAIN Script(j),
         ~Script(m)[k].idempotent, Script(m)[k].makes = Script(j)[i].makes
  PROVE  m = j /\ k = i
BY MigrationList

LEMMA HasFirst ==
  ASSUME NEW m \in 1..9
  PROVE  1 \in DOMAIN Script(m)
<1>1. Len(Script(m)) \in 1..3 /\ DOMAIN Script(m) = 1..Len(Script(m))
  BY MigrationList
<1> QED
  BY <1>1

-----------------------------------------------------------------------------
(* Migrations: the inductive invariants.                                   *)

Recorded(m) == Name(m) \in applied
Made(m, k) == Script(m)[k].makes \in objects

MigrationType ==
  /\ objects \subseteq Schema /\ known \subseteq applied
  /\ at \in [migration : 1..10, statement : Nat \ {0}]
  /\ phase \in {"down", "migrating", "open", "failed"} /\ torn \in BOOLEAN

\* A recorded migration is built; a process that migrates has recorded the ones
\* behind it and run the statements behind it, and read the name of every
\* recorded one before it.
BuiltInv ==
  /\ \A m \in 1..9 : Recorded(m) => \A k \in DOMAIN Script(m) : Made(m, k)
  /\ phase = "migrating" =>
       /\ \A m \in 1..9 : m < at.migration => Recorded(m)
       /\ \A m \in 1..9 : at.migration <= m /\ Recorded(m) => Name(m) \in known
       /\ at.migration <= 9 => \A k \in DOMAIN Script(at.migration) :
                                 k < at.statement => Made(at.migration, k)
  /\ phase = "open" => \A m \in 1..9 : Recorded(m)

\* Unless an ALTER was torn, a column is there because its migration is recorded,
\* or because the process that migrates has just added it.
TornInv ==
  /\ ~torn => \A m \in 1..9 : \A k \in DOMAIN Script(m) :
       ~Script(m)[k].idempotent /\ Made(m, k) =>
         Recorded(m) \/ (phase = "migrating" /\ at.migration = m /\ k < at.statement)
  /\ phase = "failed" => torn

MigrationInv == MigrationType /\ BuiltInv /\ TornInv

-----------------------------------------------------------------------------
(* Migrations: the steps.                                                  *)

\* What the next statement needs is there; only a column can be there already.
LEMMA StatementStep == MigrationInv /\ Statement => MigrationInv'
<1> SUFFICES ASSUME MigrationInv, Statement PROVE MigrationInv'
  OBVIOUS
<1>0. PICK m, k : m = at.migration /\ k = at.statement
  OBVIOUS
<1>1. /\ phase = "migrating" /\ m \in 1..9 /\ k \in Nat \ {0} /\ Name(m) \notin known
      /\ k \in DOMAIN Script(m)
  <2>1. /\ phase = "migrating" /\ m <= 9 /\ Name(m) \notin known
        /\ k <= Len(Script(m)) /\ m \in 1..10 /\ k \in Nat \ {0}
    BY <1>0, Whole DEF Statement, Left, Skipped, Name, MigrationInv, MigrationType
  <2>2. m \in 1..9
    BY <2>1
  <2>3. k \in DOMAIN Script(m)
    <3>1. Len(Script(m)) \in 1..3 /\ DOMAIN Script(m) = 1..Len(Script(m))
      BY <2>2, MigrationList
    <3> QED
      BY <2>1, <3>1
  <2> QED
    BY <2>1, <2>2, <2>3
<1>2. ~Recorded(m)
  BY <1>0, <1>1 DEF MigrationInv, BuiltInv
<1>3. applied' = applied /\ known' = known /\ torn' = torn
  BY DEF Statement
<1>4. CASE /\ objects' = objects \cup {Script(m)[k].makes}
           /\ at' = [at EXCEPT !.statement = @ + 1] /\ phase' = phase
  <2>1. /\ at'.migration = m /\ at'.statement = k + 1
        /\ at' \in [migration : 1..10, statement : Nat \ {0}]
    BY <1>0, <1>4 DEF MigrationInv, MigrationType
  <2>2. Script(m)[k].makes \in Schema
    BY <1>1, Whole DEF Schema, Objects
  <2>3. MigrationType'
    BY <1>3, <1>4, <2>1, <2>2 DEF MigrationInv, MigrationType
  <2>4. \A j \in 1..9 : Recorded(j)' = Recorded(j)
    BY <1>3 DEF Recorded
  <2>5. \A j, i : Made(j, i)' <=> Made(j, i) \/ Script(j)[i].makes = Script(m)[k].makes
    BY <1>4 DEF Made
  <2>6. BuiltInv'
    <3>1. \A j \in 1..9 : Recorded(j)' => \A i \in DOMAIN Script(j) : Made(j, i)'
      BY <2>4, <2>5 DEF MigrationInv, BuiltInv
    <3>2. /\ \A j \in 1..9 : j < m => Recorded(j)'
          /\ \A j \in 1..9 : m <= j /\ Recorded(j)' => Name(j) \in known'
      BY <1>0, <1>1, <1>3, <2>4 DEF MigrationInv, BuiltInv
    <3>3. \A i \in DOMAIN Script(m) : i < k + 1 => Made(m, i)'
      <4> SUFFICES ASSUME NEW i \in DOMAIN Script(m), i < k + 1 PROVE Made(m, i)'
        OBVIOUS
      <4>1. i < k \/ i = k
        <5>1. i \in 1..3
          BY <1>1, StatementAt
        <5> QED
          BY <1>1, <5>1
      <4>2. i < k => Made(m, i)
        BY <1>0, <1>1 DEF MigrationInv, BuiltInv
      <4> QED
        BY <2>5, <4>1, <4>2
    <3> QED
      BY <1>1, <1>4, <2>1, <3>1, <3>2, <3>3 DEF BuiltInv
  <2>7. TornInv'
    <3>1. ASSUME ~torn, NEW j \in 1..9, NEW i \in DOMAIN Script(j),
                 ~Script(j)[i].idempotent, Made(j, i)'
          PROVE  Recorded(j)' \/ (m = j /\ i < k + 1)
      <4>1. CASE Made(j, i)
        <5>1. Recorded(j) \/ (m = j /\ i < k)
          BY <1>0, <3>1, <4>1 DEF MigrationInv, TornInv
        <5>2. i \in Nat
          BY StatementAt
        <5> QED
          BY <1>1, <2>4, <5>1, <5>2
      <4>2. CASE Script(j)[i].makes = Script(m)[k].makes
        BY <1>1, <3>1, <4>2, Column
      <4> QED
        BY <2>5, <3>1, <4>1, <4>2
    <3> QED
      BY <1>1, <1>3, <1>4, <2>1, <3>1 DEF TornInv
  <2> QED
    BY <2>3, <2>6, <2>7 DEF MigrationInv
<1>5. CASE ~Works(Script(m)[k]) /\ phase' = "failed" /\ UNCHANGED <<objects, at>>
  <2>1. Script(m)[k].needs \in objects \cup {"nothing"}
    <3>1. CASE k > 1 /\ Script(m)[k].needs = Script(m)[1].makes
      <4>1. Made(m, 1)
        BY <1>0, <1>1, <3>1, HasFirst DEF MigrationInv, BuiltInv
      <4> QED
        BY <3>1, <4>1 DEF Made
    <3>2. CASE m > 2 /\ Script(m)[k].needs = Script(2)[1].makes
      <4>1. Recorded(2)
        BY <1>0, <1>1, <3>2 DEF MigrationInv, BuiltInv
      <4>2. 1 \in DOMAIN Script(2)
        BY HasFirst
      <4>3. Made(2, 1)
        BY <4>1, <4>2 DEF MigrationInv, BuiltInv
      <4> QED
        BY <3>2, <4>3 DEF Made
    <3> QED
      BY <1>1, <3>1, <3>2, Needs
  <2>2. ~Script(m)[k].idempotent /\ Made(m, k)
    BY <1>5, <2>1 DEF Works, Made
  <2>3. torn
    BY <1>0, <1>1, <1>2, <2>2 DEF MigrationInv, TornInv
  <2> QED
    BY <1>3, <1>5, <2>3 DEF MigrationInv, MigrationType, BuiltInv, TornInv, Recorded, Made
<1> QED
  BY <1>0, <1>4, <1>5 DEF Statement

\* A script is recorded when every statement of it was run.
LEMMA RecordStep == MigrationInv /\ Record => MigrationInv'
<1> SUFFICES ASSUME MigrationInv, Record PROVE MigrationInv'
  OBVIOUS
<1>0. PICK m, k : m = at.migration /\ k = at.statement
  OBVIOUS
<1>1. /\ phase = "migrating" /\ m \in 1..9 /\ k \in Nat \ {0} /\ k > Len(Script(m))
      /\ applied' = applied \cup {Name(m)} /\ at' = [migration |-> m + 1, statement |-> 1]
      /\ UNCHANGED <<objects, known, phase, deaths, torn>>
  BY <1>0, Whole DEF Record, Left, Begin, Name, MigrationInv, MigrationType
<1>2. \A i \in DOMAIN Script(m) : i < k /\ i \in Nat
  BY <1>1, StatementAt
<1>3. \A j \in 1..9 : Recorded(j)' <=> Recorded(j) \/ j = m
  BY <1>1, NameOf DEF Recorded
<1>4. MigrationType'
  BY <1>1, <1>0 DEF MigrationInv, MigrationType
<1>5. \A j, i : Made(j, i)' = Made(j, i)
  BY <1>1 DEF Made
<1>6. BuiltInv'
  <2>a. \A i \in DOMAIN Script(m) : Made(m, i)
    BY <1>0, <1>1, <1>2 DEF MigrationInv, BuiltInv
  <2>b. \A j \in 1..9 : Recorded(j) => \A i \in DOMAIN Script(j) : Made(j, i)
    BY DEF MigrationInv, BuiltInv
  <2>1. \A j \in 1..9 : Recorded(j)' => \A i \in DOMAIN Script(j) : Made(j, i)'
    BY <1>3, <1>5, <2>a, <2>b
  <2>2. \A j \in 1..9 : j < m + 1 => Recorded(j)'
    BY <1>0, <1>1, <1>3 DEF MigrationInv, BuiltInv
  <2>3. \A j \in 1..9 : m + 1 <= j /\ Recorded(j)' => Name(j) \in known
    BY <1>0, <1>1, <1>3 DEF MigrationInv, BuiltInv
  <2>4. \A j \in 1..9 : \A i \in DOMAIN Script(j) : ~(i < 1)
    BY StatementAt
  <2> QED
    BY <1>1, <2>1, <2>2, <2>3, <2>4 DEF BuiltInv
<1>7. TornInv'
  <2>1. ASSUME ~torn, NEW j \in 1..9, NEW i \in DOMAIN Script(j),
               ~Script(j)[i].idempotent, Made(j, i)'
        PROVE  Recorded(j)'
    BY <1>0, <1>3, <1>5, <2>1 DEF MigrationInv, TornInv
  <2> QED
    BY <1>1, <2>1 DEF MigrationInv, TornInv
<1> QED
  BY <1>4, <1>6, <1>7 DEF MigrationInv

\* Starting, passing over a recorded migration, opening and stopping.
LEMMA OtherStep ==
  ASSUME MigrationInv, Start \/ Skip \/ Open \/ Stop \/ UNCHANGED migrateVars
  PROVE  MigrationInv'
<1> USE DEF MigrationInv, MigrationType, BuiltInv, TornInv, Recorded, Made
<1>0. \A j \in 1..9 : \A i \in DOMAIN Script(j) : ~(i < 1)
  BY StatementAt
<1>1. CASE Start
  BY <1>0, <1>1 DEF Start, Begin
<1>2. CASE Skip
  <2>1. PICK m : m = at.migration
    OBVIOUS
  <2>2. /\ phase = "migrating" /\ m \in 1..9 /\ Name(m) \in known
        /\ at' = [migration |-> m + 1, statement |-> 1]
        /\ UNCHANGED <<objects, applied, known, phase, deaths, torn>>
    BY <1>2, <2>1, Whole DEF Skip, Skipped, Left, Begin, Name
  <2>3. Recorded(m)
    BY <2>2
  <2>4. MigrationType'
    BY <2>2
  <2>5. BuiltInv'
    BY <1>0, <2>1, <2>2, <2>3
  <2>6. TornInv'
    BY <2>1, <2>2, <2>3
  <2> QED
    BY <2>4, <2>5, <2>6
<1>3. CASE Open
  BY <1>3, Whole DEF Open, Left
<1>4. CASE Stop
  BY <1>4 DEF Stop
<1>5. CASE UNCHANGED migrateVars
  BY <1>5 DEF migrateVars
<1> QED
  BY <1>1, <1>2, <1>3, <1>4, <1>5

\* Whoever dies with an added column behind him leaves it torn.
LEMMA DieStep == MigrationInv /\ Die => MigrationInv'
<1> SUFFICES ASSUME MigrationInv, Die PROVE MigrationInv'
  OBVIOUS
<1>1. /\ phase = "migrating" /\ phase' = "down" /\ torn' = (torn \/ Unrepeatable)
      /\ UNCHANGED <<objects, applied, known, at>>
  BY DEF Die
<1>2. torn' \in BOOLEAN
  BY <1>1 DEF MigrationInv, MigrationType, Unrepeatable
<1>3. MigrationType' /\ BuiltInv'
  BY <1>1, <1>2 DEF MigrationInv, MigrationType, BuiltInv, Recorded, Made
<1>4. ASSUME ~torn', NEW m \in 1..9, NEW k \in DOMAIN Script(m), ~Script(m)[k].idempotent, Made(m, k)
      PROVE  Recorded(m)
  <2>1. SUFFICES ASSUME at.migration = m, k < at.statement, ~Recorded(m) PROVE FALSE
    BY <1>1, <1>4 DEF MigrationInv, TornInv
  <2>2. Name(m) \notin known
    BY <2>1 DEF MigrationInv, MigrationType, Recorded
  <2>3. k \in 1..at.statement - 1
    <3>1. k \in Nat \ {0}
      BY StatementAt
    <3>2. at.statement \in Nat
      BY DEF MigrationInv, MigrationType
    <3> QED
      BY <2>1, <3>1, <3>2
  <2>4. Left /\ ~Skipped
    BY <2>1, <2>2, Whole DEF Left, Skipped, Name
  <2>5. Unrepeatable
    BY <1>4, <2>1, <2>3, <2>4 DEF Unrepeatable
  <2> QED
    BY <1>1, <1>4, <2>5
<1>5. TornInv'
  BY <1>1, <1>4 DEF TornInv, Recorded, Made
<1> QED
  BY <1>3, <1>5 DEF MigrationInv

LEMMA MigrationAlways == MigrateSpec => []MigrationInv
<1>1. MigrateInit => MigrationInv
  <2> SUFFICES ASSUME MigrateInit PROVE MigrationInv
    OBVIOUS
  <2>1. PICK n \in 0..9 :
          /\ applied = {name \in Names : name <= n}
          /\ objects = UNION {Objects(m) : m \in {k \in DOMAIN MIGRATIONS : MIGRATIONS[k].name <= n}}
    BY DEF MigrateInit
  <2>2. \A m \in 1..9 : Recorded(m) <=> Name(m) <= n
    BY <2>1, Whole, NameOf DEF Recorded, Name, Names
  <2>3. ASSUME NEW m \in 1..9, Recorded(m), NEW k \in DOMAIN Script(m) PROVE Made(m, k)
    BY <2>1, <2>2, <2>3, Whole DEF Made, Objects, Name
  <2>4. ASSUME NEW m \in 1..9, NEW k \in DOMAIN Script(m), ~Script(m)[k].idempotent, Made(m, k)
        PROVE  Recorded(m)
    <3>1. PICK j \in 1..9 : \E i \in DOMAIN Script(j) :
            Name(j) <= n /\ Script(m)[k].makes = Script(j)[i].makes
      BY <2>1, <2>4, Whole DEF Made, Objects, Name
    <3>2. m = j
      BY <2>4, <3>1, Column
    <3> QED
      BY <2>2, <3>1, <3>2
  <2>5. objects \subseteq Schema
    BY <2>1 DEF Schema
  <2>6. /\ known = {} /\ at \in [migration : 1..10, statement : Nat \ {0}]
        /\ phase = "down" /\ torn = FALSE
    BY DEF MigrateInit
  <2>7. MigrationType
    BY <2>5, <2>6 DEF MigrationType
  <2>8. BuiltInv
    BY <2>3, <2>6 DEF BuiltInv
  <2>9. TornInv
    BY <2>4, <2>6 DEF TornInv
  <2> QED
    BY <2>7, <2>8, <2>9 DEF MigrationInv
<1>2. MigrationInv /\ [MigrateNext]_migrateVars => MigrationInv'
  BY StatementStep, RecordStep, OtherStep, DieStep DEF MigrateNext
<1> QED
  BY <1>1, <1>2, PTL DEF MigrateSpec

\* Wherever the process died, a name in schema_migrations stands for a script
\* that ran to its end, and a store that opens has the whole schema.
THEOREM RecordedSafety == MigrateSpec => []RecordedIsBuilt
<1>1. MigrationInv => RecordedIsBuilt
  <2> SUFFICES ASSUME MigrationInv PROVE RecordedIsBuilt
    OBVIOUS
  <2>1. \A m \in 1..9 : Recorded(m) => Objects(m) \subseteq objects
    BY DEF MigrationInv, BuiltInv, Made, Objects
  <2>2. phase = "open" => Schema \subseteq objects
    BY <2>1, Whole DEF MigrationInv, BuiltInv, Schema
  <2> QED
    BY <2>1, <2>2, Whole DEF MigrationInv, MigrationType, RecordedIsBuilt, Recorded, Name
<1> QED
  BY <1>1, MigrationAlways, PTL

\* Only a column that was added by a process that died before it was recorded
\* makes a start fail.
THEOREM TornSafety == MigrateSpec => []FailsOnlyIfTorn
<1>1. MigrationInv => FailsOnlyIfTorn
  BY DEF MigrationInv, TornInv, FailsOnlyIfTorn
<1> QED
  BY <1>1, MigrationAlways, PTL

-----------------------------------------------------------------------------
(* Desk: the inductive invariants.                                         *)

StoreType ==
  /\ count \in 0..MaxIncidents
  /\ moved \in [Incidents -> Nat] /\ logged \in [Incidents -> Nat]

ListReader ==
  [pc : {"list", "count", "shown", "end"}, status : {"any", "open"}, sort : {"newest", "oldest"},
   page : Nat \ {0}, items : SUBSET Nat, total : Nat, seen : SUBSET Nat, before : SUBSET Nat]
LookReader ==
  [pc : {"half", "looked"}, of : Incidents, status : Nat, torn : BOOLEAN, events : Nat]
ReaderType == reader \in [pc : {"idle"}] \cup ListReader \cup LookReader

\* Of c rows, those on the first n places of the list, and those on the page
\* after them.
FirstRows(sort, c, n) == {i \in 1..c : IF sort = "oldest" THEN i <= n ELSE i > c - n}
PageRows(sort, c, n) ==
  {i \in 1..c : IF sort = "oldest" THEN n < i /\ i <= n + PageSize
                                   ELSE c - n - PageSize < i /\ i <= c - n}

Offset == (reader.page - 1) * PageSize

\* With c rows when the last page was read: a reader of the whole list has seen
\* the rows of that time on every place before his page.
SeenSoFar(c) ==
  /\ reader.before \subseteq 1..c
  /\ reader.before \cap FirstRows(reader.sort, c, Offset) \subseteq reader.seen
  /\ reader.pc \in {"count", "shown", "end"} => reader.items = PageRows(reader.sort, c, Offset)
  /\ reader.pc \in {"shown", "end"} => reader.items \subseteq reader.seen /\ c <= reader.total
  /\ reader.pc = "end" => reader.items = {}

ListInv == reader \in ListReader /\ reader.status = "any" => \E c \in 0..count : SeenSoFar(c)

\* The timeline keeps what it had when the status was read.
LookInv ==
  reader \in LookReader /\ ~reader.torn =>
    reader.status <= IF reader.pc = "half" THEN logged[reader.of] ELSE reader.events

DeskInv == StoreType /\ ReaderType /\ ListInv /\ LookInv

-----------------------------------------------------------------------------
(* Desk: pages.                                                            *)

\* With every row listed, places are counted from the one end or the other.
LEMMA PageIs ==
  ASSUME StoreType, NEW sort \in {"newest", "oldest"}, NEW page \in Nat \ {0}
  PROVE  /\ list_incidents("any", sort, page) = PageRows(sort, count, (page - 1) * PageSize)
         /\ count_incidents("any") = count
<1> USE DeskAssumption
<1>1. count \in Nat /\ PageSize \in Nat
  BY DEF StoreType
<1>2. \A i \in 1..count : Rank("any", sort, i) = IF sort = "oldest" THEN i ELSE count - i + 1
  <2> SUFFICES ASSUME NEW i \in 1..count
               PROVE  Rank("any", sort, i) = IF sort = "oldest" THEN i ELSE count - i + 1
    OBVIOUS
  <2>1. CASE sort = "oldest"
    <3>1. {j \in 1..count : Listed("any", j) /\ j <= i} = 1..i
      BY <1>1 DEF Listed
    <3>2. Cardinality(1..i) = i
      BY <1>1, FS_Interval
    <3> QED
      BY <2>1, <3>1, <3>2 DEF Rank
  <2>2. CASE sort # "oldest"
    <3>1. {j \in 1..count : Listed("any", j) /\ j >= i} = i..count
      BY <1>1 DEF Listed
    <3>2. Cardinality(i..count) = count - i + 1
      BY <1>1, FS_Interval
    <3> QED
      BY <2>2, <3>1, <3>2 DEF Rank
  <2> QED
    BY <2>1, <2>2
<1>3. PICK n : n = (page - 1) * PageSize
  OBVIOUS
<1>4. n \in Nat /\ page * PageSize = n + PageSize
  BY <1>1, <1>3
<1>5. list_incidents("any", sort, page) = PageRows(sort, count, n)
  <2>1. ASSUME NEW i \in 1..count
        PROVE  (Rank("any", sort, i) \in n + 1..n + PageSize)
                 <=> IF sort = "oldest" THEN n < i /\ i <= n + PageSize
                     ELSE count - n - PageSize < i /\ i <= count - n
    <3>1. PICK r : r = Rank("any", sort, i)
      OBVIOUS
    <3>2. r = IF sort = "oldest" THEN i ELSE count - i + 1
      BY <1>2, <3>1
    <3>3. r \in n + 1..n + PageSize <=> IF sort = "oldest" THEN n < i /\ i <= n + PageSize
                     ELSE count - n - PageSize < i /\ i <= count - n
      BY <1>1, <1>4, <3>2
    <3> QED
      BY <3>1, <3>3
  <2> QED
    BY <1>3, <1>4, <2>1 DEF list_incidents, PageRows, Listed
<1>6. count_incidents("any") = count
  <2>1. {i \in 1..count : Listed("any", i)} = 1..count
    BY DEF Listed
  <2>2. Cardinality(1..count) = count
    BY <1>1, FS_Interval
  <2> QED
    BY <2>1, <2>2 DEF count_incidents
<1> QED
  BY <1>3, <1>5, <1>6

\* A page that is not empty ends within the rows.
LEMMA PageFits ==
  ASSUME NEW c \in Nat, NEW n \in Nat, NEW sort, PageRows(sort, c, n) # {}
  PROVE  n + Cardinality(PageRows(sort, c, n)) <= c
<1> DEFINE rest == IF sort = "oldest" THEN n + 1..c ELSE 1..c - n
<1>1. PageRows(sort, c, n) \subseteq rest
  BY DeskAssumption DEF PageRows
<1>2. n < c
  BY DeskAssumption DEF PageRows
<1>3. IsFiniteSet(rest) /\ Cardinality(rest) = c - n
  <2>1. n + 1 \in Int /\ c \in Int /\ c - n \in Int
    OBVIOUS
  <2>2. IsFiniteSet(n + 1..c) /\ Cardinality(n + 1..c) = c - n
    BY <1>2, <2>1, FS_Interval
  <2>3. IsFiniteSet(1..c - n) /\ Cardinality(1..c - n) = c - n
    BY <1>2, <2>1, FS_Interval
  <2> QED
    BY <2>2, <2>3
<1> HIDE DEF rest
<1>4. Cardinality(PageRows(sort, c, n)) <= c - n /\ Cardinality(PageRows(sort, c, n)) \in Nat
  BY <1>1, <1>3, FS_Subset, FS_CardinalityType
<1> QED
  BY <1>4

-----------------------------------------------------------------------------
(* Desk: the steps.                                                        *)

LEMMA WorkStep ==
  ASSUME DeskInv, Work
  PROVE  DeskInv'
<1> USE DEF DeskInv
<1>1. reader' = reader /\ StoreType' /\ count' \in Nat /\ count <= count'
      /\ \A i \in Incidents : logged[i] <= logged'[i]
  <2>1. CASE CreateIncident
    BY <2>1, DeskAssumption DEF CreateIncident, StoreType, Incidents
  <2>2. ASSUME NEW i \in Incidents, UpdateStatus(i) \/ LogStatus(i)
        PROVE  /\ reader' = reader /\ StoreType' /\ count' = count
               /\ \A j \in Incidents : logged[j] <= logged'[j]
    <3>1. CASE UpdateStatus(i)
      BY <3>1 DEF UpdateStatus, StoreType, Incidents
    <3>2. CASE LogStatus(i)
      <4>1. /\ logged' = [logged EXCEPT ![i] = @ + 1] /\ UNCHANGED <<count, moved, reader>>
        BY <3>2 DEF LogStatus
      <4>2. \A j \in Incidents : logged'[j] \in Nat /\ logged[j] <= logged'[j]
        BY <4>1 DEF StoreType
      <4> QED
        BY <4>1, <4>2 DEF StoreType
    <3> QED
      BY <2>2, <3>1, <3>2
  <2>3. count \in Nat
    BY DEF StoreType
  <2> QED
    BY <2>1, <2>2, <2>3 DEF Work
<1>2. ReaderType'
  BY <1>1 DEF ReaderType, ListReader, LookReader
<1>3. ListInv'
  <2> SUFFICES ASSUME reader \in ListReader, reader.status = "any"
               PROVE  \E c \in 0..count' : SeenSoFar(c)'
    BY <1>1 DEF ListInv, ListReader
  <2>1. PICK c \in 0..count : SeenSoFar(c)
    BY DEF ListInv
  <2>2. SeenSoFar(c)'
    BY <1>1, <2>1 DEF SeenSoFar, Offset, FirstRows, PageRows
  <2>3. c \in 0..count'
    BY <1>1 DEF StoreType
  <2> QED
    BY <2>2, <2>3
<1>4. LookInv'
  BY <1>1 DEF LookInv, LookReader, StoreType
<1> QED
  BY <1>1, <1>2, <1>3, <1>4

\* The page read now begins where the last one of fewer rows ended, or before.
LEMMA ListStep ==
  ASSUME DeskInv, List
  PROVE  DeskInv'
<1> USE DEF DeskInv
<1>0. reader \in ListReader /\ reader.pc = "list"
  BY DEF List, ReaderType, LookReader
<1>1. StoreType' /\ count' = count /\ count \in Nat
  BY DEF List, storeVars, StoreType, Incidents
<1>2. /\ reader' \in ListReader /\ reader'.pc = "count" /\ reader'.status = reader.status
      /\ reader'.sort = reader.sort /\ reader'.page = reader.page
      /\ reader'.seen = reader.seen /\ reader'.before = reader.before
      /\ reader'.items = list_incidents(reader.status, reader.sort, reader.page)
  <2>1. list_incidents(reader.status, reader.sort, reader.page) \subseteq Nat
    BY <1>1 DEF list_incidents
  <2> HIDE DEF DeskInv
  <2> QED
    BY <1>0, <2>1 DEF List, ListReader
<1>3. ReaderType'
  BY <1>2 DEF ReaderType
<1>4. LookInv'
  BY <1>2 DEF LookInv, ListReader, LookReader
<1>5. ListInv'
  <2> SUFFICES ASSUME reader.status = "any" PROVE SeenSoFar(count)'
    BY <1>1, <1>2 DEF ListInv
  <2>1. PICK c \in 0..count : SeenSoFar(c)
    BY <1>0 DEF ListInv
  <2>2. PICK n : n = Offset
    OBVIOUS
  <2>3. n \in Nat /\ Offset' = n
    BY <1>0, <1>2, <2>2, DeskAssumption DEF Offset, ListReader
  <2>4. reader.before \subseteq 1..count
    BY <1>1, <2>1 DEF SeenSoFar
  <2>5. reader.before \cap FirstRows(reader.sort, count, n) \subseteq FirstRows(reader.sort, c, n)
    BY <1>1, <2>1, <2>3 DEF SeenSoFar, FirstRows
  <2>6. reader'.items = PageRows(reader.sort, count, n)
    BY <1>0, <1>2, <2>2, PageIs DEF Offset, ListReader
  <2> QED
    BY <1>1, <1>2, <2>1, <2>2, <2>3, <2>4, <2>5, <2>6 DEF SeenSoFar
<1> QED
  BY <1>1, <1>3, <1>4, <1>5

\* Showing a page adds it to the rows seen, and counts them all.
LEMMA CountStep ==
  ASSUME DeskInv, Count
  PROVE  DeskInv'
<1> USE DEF DeskInv
<1>0. reader \in ListReader /\ reader.pc = "count"
  BY DEF Count, ReaderType, LookReader
<1>1. StoreType' /\ count' = count /\ count \in Nat
  BY DEF Count, storeVars, StoreType, Incidents
<1>2. /\ reader' \in ListReader /\ reader'.pc = "shown" /\ reader'.status = reader.status
      /\ reader'.sort = reader.sort /\ reader'.page = reader.page
      /\ reader'.seen = reader.seen \cup reader.items /\ reader'.before = reader.before
      /\ reader'.items = reader.items /\ reader'.total = count_incidents(reader.status)
  <2>1. count_incidents(reader.status) \in Nat
    <3>1. IsFiniteSet(1..count)
      BY <1>1, FS_Interval
    <3>2. IsFiniteSet({i \in 1..count : Listed(reader.status, i)})
      BY <3>1, FS_Subset
    <3> QED
      BY <3>2, FS_CardinalityType DEF count_incidents
  <2> HIDE DEF DeskInv
  <2> QED
    BY <1>0, <2>1 DEF Count, ListReader
<1>3. ReaderType'
  BY <1>2 DEF ReaderType
<1>4. LookInv'
  BY <1>2 DEF LookInv, ListReader, LookReader
<1>5. ListInv'
  <2> SUFFICES ASSUME reader.status = "any" PROVE \E c \in 0..count : SeenSoFar(c)'
    BY <1>1, <1>2 DEF ListInv
  <2>1. PICK c \in 0..count : SeenSoFar(c)
    BY <1>0 DEF ListInv
  <2>2. reader'.total = count
    BY <1>2, PageIs
  <2>3. Offset' = Offset
    BY <1>2 DEF Offset
  <2>4. SeenSoFar(c)'
    BY <1>0, <1>2, <2>1, <2>2, <2>3, <1>1 DEF SeenSoFar
  <2> QED
    BY <2>4
<1> QED
  BY <1>1, <1>3, <1>4, <1>5

\* The rows on the first places are, one page on, those and the page.
LEMMA TurnStep ==
  ASSUME DeskInv, Turn
  PROVE  DeskInv'
<1> USE DEF DeskInv
<1>0. reader \in ListReader /\ reader.pc = "shown"
  BY DEF Turn, ReaderType, LookReader
<1>1. StoreType' /\ count' = count /\ count \in Nat
  BY DEF Turn, storeVars, StoreType, Incidents
<1>2. /\ reader' \in ListReader /\ reader'.status = reader.status
      /\ reader'.sort = reader.sort /\ reader'.total = reader.total
      /\ reader'.seen = reader.seen /\ reader'.before = reader.before
      /\ reader'.items = reader.items
      /\ \/ reader'.pc = "end" /\ reader'.page = reader.page /\ reader.items = {}
         \/ reader'.pc = "list" /\ reader'.page = reader.page + 1
  <2> HIDE DEF DeskInv
  <2>1. CASE reader.items = {} /\ reader' = [reader EXCEPT !.pc = "end"]
    BY <1>0, <2>1 DEF ListReader
  <2>2. CASE reader' = [reader EXCEPT !.pc = "list", !.page = @ + 1]
    <3>1. reader.page + 1 \in Nat \ {0}
      BY <1>0 DEF ListReader
    <3> QED
      BY <1>0, <2>2, <3>1 DEF ListReader
  <2> QED
    BY <2>1, <2>2 DEF Turn
<1>3. ReaderType'
  BY <1>2 DEF ReaderType
<1>4. LookInv'
  BY <1>2 DEF LookInv, ListReader, LookReader
<1>5. ListInv'
  <2> SUFFICES ASSUME reader.status = "any" PROVE \E c \in 0..count : SeenSoFar(c)'
    BY <1>1, <1>2 DEF ListInv
  <2>1. PICK c \in 0..count : SeenSoFar(c)
    BY <1>0 DEF ListInv
  <2>2. CASE reader'.pc = "end"
    BY <1>0, <1>2, <2>1, <2>2 DEF SeenSoFar, Offset
  <2>3. CASE reader'.pc = "list" /\ reader'.page = reader.page + 1
    <3>1. PICK n : n = Offset
      OBVIOUS
    <3>2. n \in Nat /\ PageSize \in Nat /\ Offset' = n + PageSize
      BY <1>0, <2>3, <3>1, DeskAssumption DEF Offset, ListReader
    <3>3. FirstRows(reader.sort, c, n + PageSize)
            \subseteq FirstRows(reader.sort, c, n) \cup PageRows(reader.sort, c, n)
      BY <3>2 DEF FirstRows, PageRows
    <3>4. SeenSoFar(c)'
      BY <1>0, <1>2, <2>1, <2>3, <3>1, <3>2, <3>3 DEF SeenSoFar
    <3> QED
      BY <3>4
  <2> QED
    BY <1>2, <2>2, <2>3
<1> QED
  BY <1>1, <1>3, <1>4, <1>5

LEMMA OpenStep ==
  ASSUME DeskInv, NEW status \in {"any", "open"}, NEW sort \in {"newest", "oldest"},
         OpenList(status, sort)
  PROVE  DeskInv'
<1> USE DEF DeskInv
<1>1. StoreType' /\ count' = count /\ count \in Nat
  BY DEF OpenList, storeVars, StoreType, Incidents
<1>2. /\ reader' \in ListReader /\ reader'.pc = "list" /\ reader'.sort = sort
      /\ reader'.page = 1 /\ reader'.before = 1..count
  BY <1>1 DEF OpenList, ListReader
<1>3. ReaderType' /\ LookInv'
  BY <1>2 DEF ReaderType, LookInv, ListReader, LookReader
<1>4. Offset' = 0
  BY <1>2, DeskAssumption DEF Offset
<1>5. SeenSoFar(count)'
  BY <1>1, <1>2, <1>4 DEF SeenSoFar, FirstRows
<1> QED
  BY <1>1, <1>2, <1>3, <1>5 DEF ListInv

LEMMA LookStep ==
  ASSUME DeskInv, NEW i \in Incidents, Look(i)
  PROVE  DeskInv'
<1> USE DEF DeskInv
<1>1. StoreType' /\ UNCHANGED storeVars
  BY DEF Look, storeVars, StoreType, Incidents
<1>2. moved[i] \in Nat /\ logged[i] \in Nat
  BY DEF StoreType
<1>3. CASE reader.pc = "idle"
  <2>1. reader' \in LookReader /\ reader'.pc = "half" /\ reader'.of = i
        /\ reader'.status = moved[i] /\ (~reader'.torn => moved[i] = logged[i])
    <3>1. PICK halfway : halfway \in BOOLEAN /\ halfway = (moved[i] # logged[i])
      OBVIOUS
    <3>2. reader' = [pc |-> "half", of |-> i, status |-> moved[i], torn |-> halfway, events |-> 0]
      BY <1>3, <3>1 DEF Look
    <3> QED
      BY <1>2, <3>1, <3>2 DEF LookReader
  <2> QED
    BY <1>1, <1>2, <2>1 DEF ReaderType, ListInv, LookInv, ListReader, LookReader, storeVars
<1>4. CASE reader.pc = "half" /\ reader.of = i
  <2>1. reader \in LookReader
    BY <1>4 DEF ReaderType, ListReader
  <2>2. reader' \in LookReader /\ reader'.pc = "looked" /\ reader'.events = logged[i]
        /\ reader'.status = reader.status /\ reader'.torn = reader.torn
    <3> HIDE DEF DeskInv
    <3> QED
      BY <1>2, <1>4, <2>1 DEF Look, LookReader
  <2> QED
    BY <1>1, <1>4, <2>1, <2>2 DEF ReaderType, ListInv, LookInv, ListReader, LookReader, storeVars
<1> QED
  BY <1>3, <1>4 DEF Look

LEMMA DeskAlways == DeskSpec => []DeskInv
<1>1. DeskInit => DeskInv
  BY DeskAssumption DEF DeskInit, DeskInv, StoreType, ReaderType, ListInv, LookInv,
                        ListReader, LookReader, Incidents
<1>2. DeskInv /\ [DeskNext]_deskVars => DeskInv'
  <2> SUFFICES ASSUME DeskInv, [DeskNext]_deskVars PROVE DeskInv'
    OBVIOUS
  <2>1. CASE UNCHANGED deskVars
    BY <2>1 DEF deskVars, DeskInv, StoreType, ReaderType, ListInv, LookInv, ListReader, LookReader,
                SeenSoFar, Offset, FirstRows, PageRows
  <2>2. CASE Read
    BY <2>2, OpenStep, ListStep, CountStep, TurnStep, LookStep DEF Read
  <2> QED
    BY <2>1, <2>2, WorkStep DEF DeskNext
<1> QED
  BY <1>1, <1>2, PTL DEF DeskSpec

\* Whoever turns the pages of the whole list to the end has seen every incident
\* that was there when he began, and no page claims fewer rows than were shown.
THEOREM ListSafety == DeskSpec => []ListIsComplete
<1>1. DeskInv => ListIsComplete
  <2> SUFFICES ASSUME DeskInv, reader.pc \in {"shown", "end"}, reader.status = "any"
               PROVE  /\ reader.pc = "end" => reader.before \subseteq reader.seen
                      /\ reader.items # {} => Offset + Cardinality(reader.items) <= reader.total
    BY DEF ListIsComplete, Offset
  <2>1. reader \in ListReader
    BY DEF DeskInv, ReaderType, LookReader
  <2>2. PICK c \in 0..count : SeenSoFar(c)
    BY <2>1 DEF DeskInv, ListInv
  <2>3. PICK n : n = Offset
    OBVIOUS
  <2>4. n \in Nat /\ c \in Nat /\ PageSize \in Nat \ {0}
    BY <2>1, <2>3, DeskAssumption DEF Offset, ListReader, DeskInv, StoreType
  <2>5. ASSUME reader.pc = "end" PROVE reader.before \subseteq reader.seen
    <3>1. PageRows(reader.sort, c, n) = {}
      BY <2>2, <2>3, <2>5 DEF SeenSoFar
    <3>2. \A i \in 1..c : i \in FirstRows(reader.sort, c, n)
      <4>1. CASE reader.sort = "oldest"
        <5>1. ~(n < c)
          <6>1. n < c => n + 1 \in PageRows(reader.sort, c, n)
            BY <2>4, <4>1 DEF PageRows
          <6> QED
            BY <3>1, <6>1
        <5> QED
          BY <2>4, <4>1, <5>1 DEF FirstRows
      <4>2. CASE reader.sort # "oldest"
        <5>1. ~(n < c)
          <6>1. n < c => c - n \in PageRows(reader.sort, c, n)
            BY <2>4, <4>2 DEF PageRows
          <6> QED
            BY <3>1, <6>1
        <5> QED
          BY <2>4, <4>2, <5>1 DEF FirstRows
      <4> QED
        BY <4>1, <4>2
    <3> QED
      BY <2>2, <2>3, <3>2 DEF SeenSoFar
  <2>6. ASSUME reader.items # {} PROVE n + Cardinality(reader.items) <= reader.total
    <3>1. reader.items = PageRows(reader.sort, c, n) /\ c <= reader.total
      BY <2>2, <2>3 DEF SeenSoFar
    <3>2. n + Cardinality(PageRows(reader.sort, c, n)) <= c
      BY <2>4, <2>6, <3>1, PageFits
    <3>3. Cardinality(PageRows(reader.sort, c, n)) \in Nat
      <4>1. IsFiniteSet(1..c)
        BY <2>4, FS_Interval
      <4> QED
        BY <4>1, FS_Subset, FS_CardinalityType DEF PageRows
    <3> QED
      BY <2>1, <2>4, <3>1, <3>2, <3>3 DEF ListReader
  <2> QED
    BY <2>3, <2>5, <2>6
<1> QED
  BY <1>1, DeskAlways, PTL

\* The page of an incident accounts for the status it shows, whatever is moved
\* between its reads.
THEOREM PageSafety == DeskSpec => []PageExplainsStatus
<1>1. DeskInv => PageExplainsStatus
  BY DEF DeskInv, ReaderType, LookInv, ListReader, LookReader, PageExplainsStatus
<1> QED
  BY <1>1, DeskAlways, PTL

-----------------------------------------------------------------------------
(* RunbookSchema.                                                          *)

\* When no step has an error, the steps in order are all of them.
LEMMA AllClean ==
  ASSUME NEW S, NEW steps \in Seq(S), \A i \in DOMAIN steps : StepErrors(steps, i) = {}
  PROVE  CleanSteps(steps) = steps
<1> DEFINE n == Len(steps)
           PlaceOf(i) == Cardinality({j \in 1..n : j <= i})
<1>1. n \in Nat /\ DOMAIN steps = 1..n /\ steps = [k \in 1..n |-> steps[k]]
  BY LenProperties
<1>2. {i \in DOMAIN steps : StepErrors(steps, i) = {}} = 1..n /\ Cardinality(1..n) = n
  <2>1. Cardinality(1..n) = n
    BY <1>1, FS_Interval
  <2> QED
    BY <1>1, <2>1
<1>3. \A i \in 1..n : PlaceOf(i) = i
  <2> SUFFICES ASSUME NEW i \in 1..n PROVE PlaceOf(i) = i
    OBVIOUS
  <2>1. {j \in 1..n : j <= i} = 1..i
    BY <1>1
  <2>2. Cardinality(1..i) = i
    BY <1>1, FS_Interval
  <2> QED
    BY <2>1, <2>2
<1>4. CleanSteps(steps) = [k \in 1..n |-> steps[CHOOSE i \in 1..n : PlaceOf(i) = k]]
  <2> DEFINE clean == {i \in DOMAIN steps : StepErrors(steps, i) = {}}
             Nth(k) == CHOOSE i \in clean : Cardinality({j \in clean : j <= i}) = k
  <2>1. CleanSteps(steps) = [k \in 1..Cardinality(clean) |-> steps[Nth(k)]]
    BY DEF CleanSteps
  <2>2. clean = 1..n
    BY <1>2
  <2> HIDE DEF clean
  <2> QED
    BY <1>2, <2>1, <2>2
<1> HIDE DEF PlaceOf, n
<1>5. \A k \in 1..n : (CHOOSE i \in 1..n : PlaceOf(i) = k) = k
  BY <1>3
<1> QED
  BY <1>1, <1>4, <1>5

\* A runbook that is accepted is the one that was written, whatever it holds: no
\* step is missing or out of place, and each has a name of its own.
THEOREM RunbookIsWhole ==
  ASSUME NEW S, NEW raw, raw.steps \in Seq(S)
  PROVE  AcceptedIsWhole(raw)
<1> DEFINE steps == raw.steps
           n == Len(steps)
<1> SUFFICES ASSUME parse_runbook(raw).ok
             PROVE  /\ parse_runbook(raw).steps = steps
                    /\ Cardinality({steps[i].name : i \in DOMAIN steps}) = n
                    /\ max_risk(parse_runbook(raw).steps) = "mutating"
                         <=> \E i \in DOMAIN steps : steps[i].risk = "mutating"
  BY DEF AcceptedIsWhole
<1> DEFINE errors == HeadErrors(raw) \cup UNION {{<<i, f>> : f \in StepErrors(steps, i)} :
                                              i \in DOMAIN steps}
<1>1. errors = {} /\ parse_runbook(raw).steps = CleanSteps(steps)
  BY DEF parse_runbook
<1>2. ASSUME NEW i \in DOMAIN steps PROVE StepErrors(steps, i) = {}
  <2>1. \A f \in StepErrors(steps, i) : <<i, f>> \in errors
    OBVIOUS
  <2> QED
    BY <1>1, <2>1
<1>3. CleanSteps(steps) = steps
  BY <1>2, AllClean
<1>4. n \in Nat /\ DOMAIN steps = 1..n
  BY LenProperties
<1>5. ASSUME NEW i \in 1..n, NEW j \in 1..n, steps[i].name = steps[j].name PROVE i = j
  <2>1. \A k \in 1..n : steps[k].name # "bad" /\ steps[k].name \notin SeenBefore(steps, k)
    BY <1>2, <1>4 DEF StepErrors
  <2>2. \A k \in 1..n : \A l \in 1..k - 1 : steps[l].name # steps[k].name
    BY <1>4, <2>1 DEF SeenBefore
  <2> QED
    BY <1>4, <1>5, <2>2
<1> DEFINE names == {steps[i].name : i \in 1..n}
<1>6. Cardinality(names) = n
  <2>1. [i \in 1..n |-> steps[i].name] \in Bijection(1..n, names)
    BY <1>5 DEF Bijection, Injection, Surjection, IsInjective
  <2>2. IsFiniteSet(1..n) /\ Cardinality(1..n) = n
    BY <1>4, FS_Interval
  <2> HIDE DEF names
  <2> QED
    BY <2>1, <2>2, FS_Bijection DEF ExistsBijection
<1>7. max_risk(steps) = "mutating" <=> \E i \in DOMAIN steps : steps[i].risk = "mutating"
  BY DEF max_risk
<1> QED
  BY <1>1, <1>3, <1>4, <1>6, <1>7

\* The same of every runbook that the run of MC_Desk looks at.
THEOREM RunbookSafety == MCSpec => []EveryRunbookIsWhole
<1> DEFINE Written == runbook.steps \in Seq(Steps)
<1>1. MCInit => Written
  <2>1. Blank.steps \in Seq(Steps)
    BY DEF Blank
  <2>2. ASSUME NEW raw \in Runbooks PROVE raw.steps \in Seq(Steps)
    <3>1. PICK m \in 0..2 : raw.steps \in [1..m -> Steps]
      BY DEF Runbooks, BoundedSeq, SeqOf
    <3> QED
      BY <3>1
  <2> QED
    BY <2>1, <2>2 DEF MCInit
<1>2. Written /\ [MCNext]_<<deskVars, calendar, runbook>> => Written'
  BY DEF MCNext
<1>3. Written => EveryRunbookIsWhole
  BY RunbookIsWhole DEF EveryRunbookIsWhole
<1> QED
  BY <1>1, <1>2, <1>3, PTL DEF MCSpec

-----------------------------------------------------------------------------
(* Roster.                                                                 *)

\* order is a strict and total order of S.
Orders(order, S) ==
  /\ \A i \in S : <<i, i>> \notin order
  /\ \A i, j \in S : i = j \/ <<i, j>> \in order \/ <<j, i>> \in order
  /\ \A i, j, k \in S : <<i, j>> \in order /\ <<j, k>> \in order => <<i, k>> \in order

\* The members of a finite set in an order are all of them, each once, in that order.
LEMMA OrderedIs ==
  ASSUME NEW S, IsFiniteSet(S), NEW order, Orders(order, S)
  PROVE  LET o == Ordered(S, order)
         IN /\ o \in Seq(S) /\ Len(o) = Cardinality(S)
            /\ \A i \in S : \E k \in 1..Len(o) : o[k] = i
            /\ \A j, k \in 1..Len(o) : j < k <=> <<o[j], o[k]>> \in order
<1> DEFINE n == Cardinality(S)
           Before(i) == {j \in S : <<j, i>> \in order}
           PlaceOf(i) == Cardinality(Before(i))
           o == [k \in 1..n |-> CHOOSE i \in S : PlaceOf(i) = k - 1]
<1>1. n \in Nat /\ \A i \in S : IsFiniteSet(Before(i)) /\ PlaceOf(i) \in 0..n - 1
  <2>1. n \in Nat
    BY FS_CardinalityType
  <2>2. ASSUME NEW i \in S PROVE IsFiniteSet(Before(i)) /\ PlaceOf(i) \in 0..n - 1
    <3>1. Before(i) \in SUBSET S /\ i \notin Before(i)
      BY DEF Orders
    <3> HIDE DEF Before
    <3>2. IsFiniteSet(Before(i)) /\ PlaceOf(i) <= n /\ PlaceOf(i) # n
      BY <3>1, FS_Subset
    <3>3. PlaceOf(i) \in Nat
      BY <3>2, FS_CardinalityType
    <3> QED
      BY <2>1, <3>2, <3>3
  <2> QED
    BY <2>1, <2>2
<1>2. \A i, j \in S : <<i, j>> \in order => PlaceOf(i) < PlaceOf(j)
  <2> SUFFICES ASSUME NEW i \in S, NEW j \in S, <<i, j>> \in order PROVE PlaceOf(i) < PlaceOf(j)
    OBVIOUS
  <2>1. Before(i) \in SUBSET Before(j)
    BY DEF Orders
  <2>2. i \in Before(j) /\ i \notin Before(i)
    BY DEF Orders
  <2> HIDE DEF Before
  <2>3. PlaceOf(i) <= PlaceOf(j) /\ PlaceOf(i) # PlaceOf(j)
    BY <1>1, <2>1, <2>2, FS_Subset
  <2> QED
    BY <1>1, <2>3
<1>a. n \in Nat /\ \A i \in S : PlaceOf(i) \in 0..n - 1
  BY <1>1
<1> HIDE DEF PlaceOf, n
<1>3. \A i, j \in S : PlaceOf(i) = PlaceOf(j) => i = j
  <2> SUFFICES ASSUME NEW i \in S, NEW j \in S, i # j PROVE PlaceOf(i) # PlaceOf(j)
    OBVIOUS
  <2>1. PlaceOf(i) \in Int /\ PlaceOf(j) \in Int
    BY <1>a
  <2>2. <<i, j>> \in order \/ <<j, i>> \in order
    BY DEF Orders
  <2>3. PlaceOf(i) < PlaceOf(j) \/ PlaceOf(j) < PlaceOf(i)
    BY <1>2, <2>2
  <2> QED
    BY <2>1, <2>3
<1>4. \A k \in 1..n : \E i \in S : PlaceOf(i) = k - 1
  <2> DEFINE f == [i \in S |-> PlaceOf(i)]
  <2>1. f \in Injection(S, 0..n - 1)
    BY <1>a, <1>3 DEF Injection, IsInjective
  <2>2. IsFiniteSet(0..n - 1) /\ Cardinality(0..n - 1) = n
    BY <1>a, FS_Interval
  <2> HIDE DEF f
  <2>3. f \in Surjection(S, 0..n - 1)
    BY <2>1, <2>2, FS_Injection DEF n
  <2>4. \A m \in 0..n - 1 : \E i \in S : f[i] = m
    BY <2>3 DEF Surjection
  <2> QED
    BY <1>a, <2>4 DEF f
<1>5. \A k \in 1..n : o[k] \in S /\ PlaceOf(o[k]) = k - 1
  BY <1>4
<1>6. o \in Seq(S) /\ Len(o) = n
  BY <1>a, <1>5
<1>7. ASSUME NEW i \in S PROVE \E k \in 1..n : o[k] = i
  <2>1. PICK m \in 0..n - 1 : PlaceOf(i) = m
    BY <1>a
  <2>2. m + 1 \in 1..n /\ (m + 1) - 1 = m
    BY <1>a
  <2>3. PlaceOf(o[m + 1]) = PlaceOf(i) /\ o[m + 1] \in S
    BY <1>5, <2>1, <2>2
  <2> QED
    BY <1>3, <2>2, <2>3
<1>8. ASSUME NEW j \in 1..n, NEW k \in 1..n PROVE j < k <=> <<o[j], o[k]>> \in order
  <2>1. /\ o[j] \in S /\ PlaceOf(o[j]) = j - 1
        /\ o[k] \in S /\ PlaceOf(o[k]) = k - 1
    BY <1>5
  <2> HIDE DEF o
  <2>2. CASE <<o[j], o[k]>> \in order
    <3>1. PlaceOf(o[j]) < PlaceOf(o[k])
      BY <1>2, <2>1, <2>2
    <3> QED
      BY <1>a, <2>1, <2>2, <3>1
  <2>3. CASE <<o[k], o[j]>> \in order
    <3>1. PlaceOf(o[k]) < PlaceOf(o[j])
      BY <1>2, <2>1, <2>3
    <3>2. <<o[j], o[k]>> \notin order
      BY <2>1, <2>3 DEF Orders
    <3> QED
      BY <1>a, <2>1, <3>1, <3>2
  <2>4. CASE o[j] = o[k]
    <3>1. <<o[j], o[k]>> \notin order
      BY <2>1, <2>4 DEF Orders
    <3>2. j - 1 = k - 1
      BY <2>1, <2>4
    <3> QED
      BY <1>a, <3>1, <3>2
  <2> QED
    BY <2>1, <2>2, <2>3, <2>4 DEF Orders
<1>9. Ordered(S, order) = o
  BY DEF Ordered, n, PlaceOf
<1> HIDE DEF o
<1> QED
  BY <1>6, <1>7, <1>8, <1>9 DEF n

\* Uniq names everybody at the places once, and from their first places in order.
LEMMA UniqIs ==
  ASSUME NEW P, NEW people \in Seq(P), NEW S \in SUBSET (1..Len(people))
  PROVE  LET u == Uniq(people, S)
         IN /\ u \in Seq(P)
            /\ \A j, k \in 1..Len(u) : u[j] = u[k] => j = k
            /\ 1 \in S => u # <<>> /\ u[1] = people[1]
            /\ \E from \in [1..Len(u) -> S] :
                 /\ \A n \in 1..Len(u) : u[n] = people[from[n]]
                 /\ \A m, n \in 1..Len(u) : m < n => from[m] < from[n]
<1> DEFINE first == {k \in S : \A j \in S : j < k => people[j] # people[k]}
           order == {pair \in first \X first : pair[1] < pair[2]}
           from == Ordered(first, order)
           u == Uniq(people, S)
<1>1. Len(people) \in Nat /\ S \subseteq Nat /\ first \subseteq S
  OBVIOUS
<1>2. IsFiniteSet(first)
  <2>1. IsFiniteSet(1..Len(people))
    BY <1>1, FS_Interval
  <2>2. first \in SUBSET (1..Len(people))
    OBVIOUS
  <2> QED
    BY <2>1, <2>2, FS_Subset
<1>3. \A j, k \in first : j # k => people[j] # people[k]
  BY <1>1
<1>4. 1 \in S => 1 \in first
  BY <1>1
<1>5. \A j, k \in first : <<j, k>> \in order <=> j < k
  OBVIOUS
<1> HIDE DEF first, order
<1>6. Orders(order, first)
  <2>1. \A i, j, k \in first : /\ ~(i < i) /\ (i = j \/ i < j \/ j < i)
                               /\ i < j /\ j < k => i < k
    BY <1>1
  <2> QED
    BY <1>5, <2>1 DEF Orders
<1>a. /\ from \in Seq(first)
      /\ \A i \in first : \E k \in 1..Len(from) : from[k] = i
      /\ \A j, k \in 1..Len(from) : j < k <=> <<from[j], from[k]>> \in order
  BY <1>2, <1>6, OrderedIs
<1>b. \A n \in 1..Len(from) : from[n] \in first
  BY <1>a
<1>7. /\ from \in Seq(first)
      /\ \A i \in first : \E k \in 1..Len(from) : from[k] = i
      /\ \A j, k \in 1..Len(from) : j < k <=> from[j] < from[k]
  <2>1. ASSUME NEW j \in 1..Len(from), NEW k \in 1..Len(from)
        PROVE  <<from[j], from[k]>> \in order <=> from[j] < from[k]
    BY <1>5, <1>b
  <2> QED
    BY <1>a, <2>1
<1> HIDE DEF from
<1>8. u = [n \in DOMAIN from |-> people[from[n]]]
  BY DEF Uniq, first, order, from
<1> HIDE DEF u
<1>9. /\ Len(from) \in Nat /\ DOMAIN from = 1..Len(from)
      /\ \A n \in 1..Len(from) : from[n] \in first /\ from[n] \in S /\ people[from[n]] \in P
      /\ \A n \in 1..Len(from) : from[n] \in 1..Len(people)
  <2>1. Len(from) \in Nat /\ DOMAIN from = 1..Len(from)
    BY <1>a
  <2>2. ASSUME NEW n \in 1..Len(from) PROVE  /\ from[n] \in first /\ from[n] \in S
               /\ people[from[n]] \in P /\ from[n] \in 1..Len(people)
    <3>1. from[n] \in first /\ from[n] \in S
      BY <1>1, <1>b
    <3>2. from[n] \in 1..Len(people)
      BY <3>1
    <3> QED
      BY <3>1, <3>2
  <2> HIDE DEF from
  <2> QED
    BY <2>1, <2>2
<1>10. u \in Seq(P) /\ Len(u) = Len(from) /\ \A n \in 1..Len(u) : u[n] = people[from[n]]
  BY <1>8, <1>9
<1>11. ASSUME NEW j \in 1..Len(u), NEW k \in 1..Len(u), u[j] = u[k] PROVE j = k
  <2>1. j \in 1..Len(from) /\ k \in 1..Len(from) /\ people[from[j]] = people[from[k]]
    BY <1>10, <1>11
  <2>2. from[j] = from[k]
    BY <1>3, <1>9, <2>1
  <2>3. ~(from[j] < from[k]) /\ ~(from[k] < from[j])
    <3>1. from[j] \in Nat
      BY <1>9, <2>1
    <3> QED
      BY <2>2, <3>1
  <2> QED
    BY <1>7, <1>9, <2>1, <2>3
<1>12. ASSUME 1 \in S PROVE u # <<>> /\ u[1] = people[1]
  <2>1. PICK k \in 1..Len(from) : from[k] = 1
    BY <1>4, <1>7, <1>12
  <2>2. 1 \in 1..Len(from)
    BY <1>9, <2>1
  <2>3. ~(from[1] < from[k])
    BY <1>9, <2>1, <2>2
  <2>4. k = 1
    BY <1>7, <1>9, <2>1, <2>2, <2>3
  <2> QED
    BY <1>10, <2>1, <2>2, <2>4
<1>13. from \in [1..Len(u) -> S] /\ \A m, n \in 1..Len(u) : m < n => from[m] < from[n]
  BY <1>7, <1>9, <1>10
<1> QED
  BY <1>10, <1>11, <1>12, <1>13 DEF u

\* The events of a calendar, and the calendars of some people.
Entries(People) == [person : People, form : {"utc", "date", "local", "none"}, start : Int]
Calendar(People) == Seq(Entries(People))

\* Whoever is on duty has a usable event: the one that began last, as it was
\* parsed, comes first, and those to come follow.
LEMMA OnDutyIs ==
  ASSUME NEW People, NEW events \in Calendar(People), NEW now \in Int
  PROVE  LET duty == OnDuty(events, now)
             began == {i \in Usable(events) : ts(events[i]) <= now}
         IN /\ duty \in Seq(Usable(events))
            /\ began # {} => /\ duty # <<>> /\ duty[1] \in began
                             /\ \A j \in began : ts(events[j]) <= ts(events[duty[1]])
            /\ \A k \in 1..Len(duty) : duty[k] \in began => k = 1
            /\ began = {} => \A k \in 1..Len(duty) : duty[k] \notin began
            /\ \A j, k \in 1..Len(duty) : 1 < j /\ j < k =>
                 ts(events[duty[j]]) <= ts(events[duty[k]])
<1> DEFINE U == Usable(events)
           began == {i \in U : ts(events[i]) <= now}
           coming == {i \in U : ts(events[i]) > now}
           order == Earlier(events)
           past == Ordered(began, order)
           future == Ordered(coming, order)
           duty == OnDuty(events, now)
           before(i, j) == \/ ts(events[i]) < ts(events[j])
                           \/ ts(events[i]) = ts(events[j]) /\ i < j
<1>1. /\ Len(events) \in Nat /\ DOMAIN events = 1..Len(events)
      /\ \A i \in 1..Len(events) : i \in Nat /\ ts(events[i]) \in Int
  <2>1. Len(events) \in Nat /\ DOMAIN events = 1..Len(events)
    BY DEF Calendar
  <2>2. ASSUME NEW i \in 1..Len(events) PROVE i \in Nat /\ ts(events[i]) \in Int
    <3>1. events[i] \in Entries(People)
      BY <2>1 DEF Calendar
    <3> QED
      BY <3>1, ZoneAssumption DEF Entries, ts
  <2> QED
    BY <2>1, <2>2
<1>2. U \subseteq 1..Len(events)
  BY <1>1 DEF Usable
<1>3. \A i, j \in 1..Len(events) : <<i, j>> \in order <=> before(i, j)
  <2> SUFFICES ASSUME NEW i \in 1..Len(events), NEW j \in 1..Len(events)
               PROVE  <<i, j>> \in order <=> before(i, j)
    OBVIOUS
  <2>1. <<i, j>> \in (DOMAIN events) \X (DOMAIN events) /\ <<i, j>>[1] = i /\ <<i, j>>[2] = j
    BY <1>1
  <2> QED
    BY <2>1 DEF Earlier
<1>4. /\ \A i \in 1..Len(events) : ~before(i, i)
      /\ \A i, j \in 1..Len(events) : i = j \/ before(i, j) \/ before(j, i)
      /\ \A i, j, k \in 1..Len(events) : before(i, j) /\ before(j, k) => before(i, k)
      /\ \A i, j \in 1..Len(events) : before(i, j) => ts(events[i]) <= ts(events[j])
  BY <1>1
<1> HIDE DEF before, order
<1>5. ASSUME NEW S \in SUBSET (1..Len(events))
      PROVE  IsFiniteSet(S) /\ Orders(order, S)
  <2>1. IsFiniteSet(1..Len(events))
    BY <1>1, FS_Interval
  <2>2. IsFiniteSet(S)
    BY <2>1, FS_Subset
  <2> QED
    BY <1>3, <1>4, <2>2 DEF Orders
<1>6. /\ IsFiniteSet(began) /\ Orders(order, began)
      /\ IsFiniteSet(coming) /\ Orders(order, coming)
  BY <1>2, <1>5
<1>7. /\ began \subseteq U /\ coming \subseteq U
      /\ \A i \in U : i \in 1..Len(events) /\ (i \in began <=> i \notin coming)
  BY <1>1, <1>2
<1>8. OnDuty(events, now) = IF past = <<>> THEN future ELSE <<past[Len(past)]>> \o future
  BY DEF OnDuty, ByStart, order
<1> HIDE DEF began, coming, U
<1>9. /\ past \in Seq(began)
      /\ \A i \in began : \E k \in 1..Len(past) : past[k] = i
      /\ \A j, k \in 1..Len(past) : j < k <=> <<past[j], past[k]>> \in order
  BY <1>6, OrderedIs
<1>10. /\ future \in Seq(coming)
       /\ \A j, k \in 1..Len(future) : j < k <=> <<future[j], future[k]>> \in order
  BY <1>6, OrderedIs
<1> HIDE DEF past, future
<1>11. ASSUME NEW j \in 1..Len(future), NEW k \in 1..Len(future), j < k
       PROVE  ts(events[future[j]]) <= ts(events[future[k]])
  <2>1. future[j] \in 1..Len(events) /\ future[k] \in 1..Len(events)
    BY <1>7, <1>10
  <2>2. before(future[j], future[k])
    BY <1>3, <1>10, <1>11, <2>1
  <2> QED
    BY <1>4, <2>1, <2>2
<1>12. CASE began = {}
  <2>1. past = <<>>
    BY <1>9, <1>12
  <2>2. duty = future
    BY <1>8, <2>1
  <2>3. duty \in Seq(U) /\ \A k \in 1..Len(duty) : duty[k] \notin began
    BY <1>7, <1>10, <1>12, <2>2
  <2> QED
    BY <1>11, <1>12, <2>2, <2>3 DEF began, U
<1>13. CASE began # {}
  <2> DEFINE last == past[Len(past)]
  <2>1. past # <<>> /\ Len(past) \in 1..Len(past) /\ Len(past) \in Nat
    BY <1>9, <1>13
  <2>2. last \in began /\ last \in 1..Len(events)
    BY <1>7, <1>9, <2>1
  <2>3. ASSUME NEW j \in began PROVE ts(events[j]) <= ts(events[last])
    <3>1. PICK k \in 1..Len(past) : past[k] = j
      BY <1>9
    <3>2. j \in 1..Len(events)
      BY <1>7
    <3>3. CASE k = Len(past)
      BY <1>1, <2>2, <3>1, <3>3
    <3>4. CASE k # Len(past)
      <4>1. k < Len(past)
        BY <2>1, <3>4
      <4>2. before(j, last)
        BY <1>3, <1>9, <2>1, <2>2, <3>1, <3>2, <4>1
      <4> QED
        BY <1>4, <2>2, <3>2, <4>2
    <3> QED
      BY <3>3, <3>4
  <2> HIDE DEF last
  <2>4. duty = <<last>> \o future
    BY <1>8, <2>1 DEF last
  <2>5. future \in Seq(U) /\ last \in U
    <3>1. future \in Seq(U)
      BY <1>7, <1>10
    <3> QED
      BY <1>7, <2>2, <3>1
  <2>6. /\ duty \in Seq(U) /\ Len(duty) = Len(future) + 1 /\ Len(future) \in Nat
        /\ duty[1] = last
        /\ \A k \in 2..Len(duty) : duty[k] = future[k - 1] /\ k - 1 \in 1..Len(future)
    BY <2>4, <2>5
  <2>7. ASSUME NEW k \in 1..Len(duty), duty[k] \in began PROVE k = 1
    <3>1. SUFFICES ASSUME k # 1 PROVE FALSE
      OBVIOUS
    <3>2. duty[k] = future[k - 1] /\ k - 1 \in 1..Len(future)
      BY <2>6, <3>1
    <3>3. duty[k] \in coming
      BY <1>10, <3>2
    <3> QED
      BY <1>7, <2>7, <3>3
  <2>8. ASSUME NEW j \in 1..Len(duty), NEW k \in 1..Len(duty), 1 < j, j < k
        PROVE  ts(events[duty[j]]) <= ts(events[duty[k]])
    <3>1. /\ j - 1 \in 1..Len(future) /\ duty[j] = future[j - 1]
          /\ k - 1 \in 1..Len(future) /\ duty[k] = future[k - 1] /\ j - 1 < k - 1
      BY <2>6, <2>8
    <3> QED
      BY <1>11, <3>1
  <2>9. duty # <<>>
    BY <2>6
  <2> QED
    BY <1>13, <2>2, <2>3, <2>6, <2>7, <2>8, <2>9 DEF began, U
<1> QED
  BY <1>12, <1>13

\* Whatever the calendar holds, whatever the hour and the zone: somebody is called,
\* nobody twice, first the one whose shift began last, then those whose shifts are
\* still to come, the nearest first, and the admin only in the last place, among
\* the shifts that can be read and up to what the zone puts their times off by.
THEOREM ChainIsAlwaysSound ==
  ASSUME NEW People, NEW events \in Calendar(People), NEW now \in Int
  PROVE  ChainIsSound(events, now)
<1> DEFINE Callees == (People \cup {Admin}) \ {Nobody}
           U == Usable(events)
           began == {i \in U : ts(events[i]) <= now}
           duty == OnDuty(events, now)
           people == [k \in DOMAIN duty |-> events[duty[k]].person]
           uniq == Uniq(people, DOMAIN duty)
           roster == roster_from_ics(events, now)
           who == chain(roster)
<1>1. /\ Len(events) \in Nat /\ DOMAIN events = 1..Len(events)
      /\ \A i \in 1..Len(events) :
           /\ events[i].person \in People /\ events[i].start \in Int
           /\ events[i].form \in {"utc", "date", "local", "none"}
  <2>1. Len(events) \in Nat /\ DOMAIN events = 1..Len(events)
    BY DEF Calendar
  <2>2. ASSUME NEW i \in 1..Len(events)
        PROVE  /\ events[i].person \in People /\ events[i].start \in Int
               /\ events[i].form \in {"utc", "date", "local", "none"}
    <3>1. events[i] \in Entries(People)
      BY <2>1 DEF Calendar
    <3> QED
      BY <3>1 DEF Entries
  <2> QED
    BY <2>1, <2>2
<1>2. U = {i \in DOMAIN events :
             events[i].person # Nobody /\ events[i].form \notin {"local", "none"}}
  BY <1>1 DEF Usable
<1> DEFINE off == IF Zone < 0 THEN -Zone ELSE Zone
<1>z. /\ \A i \in U : /\ ts(events[i]) <= now => events[i].start <= now + off
                      /\ events[i].start <= now - off => ts(events[i]) <= now
      /\ \A i, j \in U : ts(events[i]) <= ts(events[j]) => events[i].start <= events[j].start + off
  <2>1. /\ off \in Int /\ Zone \in Int /\ -Zone <= off /\ Zone <= off /\ 0 <= off
        /\ Zone >= 0 \/ off = -Zone
        /\ Zone < 0 \/ off = Zone
    BY ZoneAssumption
  <2>2. ASSUME NEW i \in U
        PROVE  /\ events[i].start \in Int
               /\ ts(events[i]) = events[i].start - Zone \/ ts(events[i]) = events[i].start
    BY <1>1, <1>2 DEF ts
  <2> HIDE DEF off, U
  <2> QED
    BY <2>1, <2>2
<1>3. \A i \in U : events[i].start \in Int /\ events[i].person \in Callees
  BY <1>1, <1>2
<1>4. /\ duty \in Seq(U)
      /\ began # {} => /\ duty # <<>> /\ duty[1] \in began
                       /\ \A j \in began : ts(events[j]) <= ts(events[duty[1]])
      /\ \A k \in 1..Len(duty) : duty[k] \in began => k = 1
      /\ \A j, k \in 1..Len(duty) : 1 < j /\ j < k =>
           ts(events[duty[j]]) <= ts(events[duty[k]])
  BY OnDutyIs
<1>a. Admin \in Callees
  BY DEF Admin, Nobody
<1>b. \A name \in Callees : name # Nobody
  OBVIOUS
<1> HIDE DEF Callees, U, began, duty, off
<1>5. /\ Len(duty) \in Nat /\ DOMAIN duty = 1..Len(duty)
      /\ people \in Seq(Callees) /\ Len(people) = Len(duty)
      /\ \A k \in 1..Len(duty) : people[k] = events[duty[k]].person /\ duty[k] \in U
  BY <1>3, <1>4
<1> HIDE DEF people
<1>6. /\ uniq \in Seq(Callees)
      /\ 1 \in 1..Len(duty) => uniq # <<>> /\ uniq[1] = people[1]
      /\ \E from \in [1..Len(uniq) -> 1..Len(duty)] :
           /\ \A n \in 1..Len(uniq) : uniq[n] = people[from[n]]
           /\ \A m, n \in 1..Len(uniq) : m < n => from[m] < from[n]
  <2>1. DOMAIN duty = 1..Len(duty) /\ 1..Len(duty) \in SUBSET (1..Len(people))
    BY <1>5
  <2>2. people \in Seq(Callees)
    BY <1>5
  <2> QED
    BY <2>1, <2>2, UniqIs, SMTT(30)
<1>7. roster = SubSeq(uniq \o <<Admin, Admin, Admin>>, 1, 3)
  BY DEF roster_from_ics, duty, people
<1> HIDE DEF uniq, roster
<1>8. /\ Len(uniq) \in Nat /\ roster \in Seq(Callees) /\ Len(roster) = 3
      /\ \A k \in 1..3 : roster[k] = IF k <= Len(uniq) THEN uniq[k] ELSE Admin
  <2> DEFINE filled == uniq \o <<Admin, Admin, Admin>>
  <2>1. Len(uniq) \in Nat /\ Admin \in Callees
    BY <1>6, <1>a
  <2>2. /\ <<Admin, Admin, Admin>> \in Seq(Callees)
        /\ Len(<<Admin, Admin, Admin>>) = 3
        /\ \A k \in 1..3 : <<Admin, Admin, Admin>>[k] = Admin
    <3>1. \A k \in 1..3 : k = 1 \/ k = 2 \/ k = 3
      OBVIOUS
    <3> QED
      BY <2>1, <3>1
  <2>3. /\ filled \in Seq(Callees) /\ Len(filled) = Len(uniq) + 3
        /\ \A k \in 1..3 : filled[k] = IF k <= Len(uniq) THEN uniq[k] ELSE Admin
    <3>1. filled \in Seq(Callees) /\ Len(filled) = Len(uniq) + 3
      BY <1>6, <2>1, <2>2, ConcatProperties
    <3>2. ASSUME NEW k \in 1..3 PROVE filled[k] = IF k <= Len(uniq) THEN uniq[k] ELSE Admin
      <4>1. CASE k <= Len(uniq)
        BY <1>6, <2>1, <2>2, <4>1, ConcatProperties
      <4>2. CASE ~(k <= Len(uniq))
        <5>1. k - Len(uniq) \in 1..3 /\ k \in 1..Len(uniq) + 3
          BY <2>1, <4>2
        <5>2. filled[k] = <<Admin, Admin, Admin>>[k - Len(uniq)]
          BY <1>6, <2>1, <2>2, <4>2, <5>1, ConcatProperties
        <5> QED
          BY <2>2, <4>2, <5>1, <5>2
      <4> QED
        BY <4>1, <4>2
    <3> QED
      BY <3>1, <3>2
  <2> HIDE DEF filled
  <2>4. roster = SubSeq(filled, 1, 3)
    BY <1>7 DEF filled
  <2>5. /\ roster \in Seq(Callees) /\ Len(roster) = 3
        /\ \A k \in 1..3 : roster[k] = filled[k]
    BY <2>1, <2>3, <2>4, SubSeqProperties
  <2> QED
    BY <2>1, <2>3, <2>5
<1>9. who = Uniq(roster, 1..3)
  <2>1. DOMAIN roster = 1..3 /\ \A k \in 1..3 : roster[k] # Nobody
    <3>1. DOMAIN roster = 1..3 /\ \A k \in 1..3 : roster[k] \in Callees
      <4>1. roster \in Seq(Callees) /\ Len(roster) = 3
        BY <1>8
      <4>2. DOMAIN roster = 1..3
        BY <4>1, LenProperties
      <4>3. \A k \in 1..3 : roster[k] \in Callees
        BY <4>1, ElementOfSeq
      <4> QED
        BY <4>2, <4>3
    <3> QED
      BY <1>b, <3>1
  <2>2. {k \in DOMAIN roster : roster[k] # Nobody} = 1..3
    BY <2>1
  <2> QED
    BY <2>2 DEF chain
<1> HIDE DEF who
<1>10. /\ who \in Seq(Callees)
       /\ \A j, k \in 1..Len(who) : who[j] = who[k] => j = k
       /\ who # <<>> /\ who[1] = roster[1]
       /\ \E from \in [1..Len(who) -> 1..3] :
            /\ \A n \in 1..Len(who) : who[n] = roster[from[n]]
            /\ \A m, n \in 1..Len(who) : m < n => from[m] < from[n]
  <2>1. roster \in Seq(Callees) /\ 1..3 \in SUBSET (1..Len(roster)) /\ 1 \in 1..3
    BY <1>8
  <2> QED
    BY <1>9, <2>1, UniqIs, SMTT(30)
<1>11. Len(who) \in Nat /\ DOMAIN who = 1..Len(who)
  BY <1>10
<1>12. ASSUME began # {}
       PROVE  \E i \in began : /\ events[i].person = who[1]
                               /\ \A j \in began : ts(events[j]) <= ts(events[i])
  <2>1. 1 \in 1..Len(duty)
    BY <1>4, <1>5, <1>12
  <2>2. uniq # <<>> /\ uniq[1] = people[1]
    BY <1>6, <2>1
  <2>3. 1 <= Len(uniq)
    BY <1>6, <2>2
  <2>4. who[1] = events[duty[1]].person
    BY <1>5, <1>8, <1>10, <2>1, <2>2, <2>3
  <2> QED
    BY <1>4, <1>12, <2>4
<1>13. ASSUME NEW k \in 2..Len(who)
       PROVE  \/ who[k] = Admin /\ \A j \in k + 1..Len(who) : FALSE
              \/ \E i \in U \ began :
                   /\ events[i].person = who[k]
                   /\ \A j \in 2..k - 1 :
                        \E h \in U \ began : /\ events[h].person = who[j]
                                             /\ ts(events[h]) <= ts(events[i])
  <2>1. PICK from \in [1..Len(who) -> 1..3] :
             /\ \A n \in 1..Len(who) : who[n] = roster[from[n]]
             /\ \A m, n \in 1..Len(who) : m < n => from[m] < from[n]
    BY <1>10
  <2>2. PICK place \in [1..Len(uniq) -> 1..Len(duty)] :
             /\ \A n \in 1..Len(uniq) : uniq[n] = people[place[n]]
             /\ \A m, n \in 1..Len(uniq) : m < n => place[m] < place[n]
    BY <1>6
  <2>3. \A n \in 1..Len(who) : from[n] \in 1..3
    BY <2>1
  <2>4. k \in 1..Len(who) /\ from[k] \in 1..3
    BY <1>11, <2>3
  <2>5. CASE from[k] > Len(uniq)
    <3>1. who[k] = Admin
      BY <1>8, <2>1, <2>4, <2>5
    <3>2. ASSUME NEW j \in k + 1..Len(who) PROVE FALSE
      <4>1. j \in 1..Len(who) /\ k < j
        BY <1>11
      <4>2. from[k] < from[j] /\ from[j] \in 1..3
        BY <2>1, <2>3, <2>4, <4>1
      <4>3. who[j] = Admin
        BY <1>8, <2>1, <2>4, <2>5, <4>1, <4>2
      <4>4. j = k
        BY <1>10, <2>4, <3>1, <4>1, <4>3
      <4> QED
        BY <1>11, <4>1, <4>4
    <3> QED
      BY <3>1, <3>2
  <2>6. CASE ~(from[k] > Len(uniq))
    <3>1. from[k] \in 1..Len(uniq)
      BY <1>8, <2>4, <2>6
    <3>2. ASSUME NEW n \in 2..k
          PROVE  /\ n \in 1..Len(who) /\ from[n] \in 1..Len(uniq) /\ 1 < place[from[n]]
                 /\ place[from[n]] \in 1..Len(duty) /\ from[n] <= from[k]
                 /\ who[n] = events[duty[place[from[n]]]].person
                 /\ duty[place[from[n]]] \in U \ began
      <4>1. n \in 1..Len(who) /\ 1 \in 1..Len(who) /\ 1 < n
        BY <1>11
      <4>2. from[1] < from[n] /\ from[1] \in 1..3 /\ from[n] \in 1..3
        BY <2>1, <2>3, <4>1
      <4>3. from[n] <= from[k]
        <5>1. n = k \/ n < k
          BY <1>11
        <5> QED
          BY <2>1, <2>3, <2>4, <4>1, <4>2, <5>1
      <4>4. from[n] \in 1..Len(uniq) /\ from[1] \in 1..Len(uniq)
        <5>1. 1 <= from[1] /\ from[1] <= from[n] /\ from[n] <= Len(uniq)
          BY <1>8, <3>1, <4>2, <4>3
        <5> QED
          BY <1>8, <4>2, <5>1
      <4>5. /\ place[from[n]] \in 1..Len(duty) /\ place[from[1]] \in 1..Len(duty)
            /\ place[from[1]] < place[from[n]]
        BY <2>2, <4>2, <4>4
      <4>6. 1 < place[from[n]]
        BY <1>5, <4>5
      <4>7. who[n] = uniq[from[n]]
        BY <1>8, <2>1, <4>1, <4>2, <4>4
      <4>8. who[n] = people[place[from[n]]]
        BY <2>2, <4>4, <4>7
      <4>9. duty[place[from[n]]] \in U \ began
        BY <1>4, <1>5, <4>5, <4>6
      <4> QED
        BY <1>5, <4>1, <4>3, <4>4, <4>5, <4>6, <4>8, <4>9
    <3>3. k \in 2..k
      BY <1>11
    <3> DEFINE i == duty[place[from[k]]]
    <3>4. i \in U \ began /\ events[i].person = who[k]
      BY <3>2, <3>3
    <3>5. ASSUME NEW j \in 2..k - 1
          PROVE  \E h \in U \ began : events[h].person = who[j] /\ ts(events[h]) <= ts(events[i])
      <4>1. j \in 2..k /\ j \in 1..Len(who) /\ j < k
        BY <1>11
      <4>2. from[j] < from[k]
        BY <2>1, <2>4, <4>1
      <4>3. place[from[j]] < place[from[k]]
        BY <2>2, <3>2, <3>3, <4>1, <4>2
      <4>4. ts(events[duty[place[from[j]]]]) <= ts(events[i])
        BY <1>4, <3>2, <3>3, <4>1, <4>3
      <4> QED
        BY <3>2, <4>1, <4>4
    <3> HIDE DEF i
    <3> QED
      BY <3>4, <3>5
  <2> QED
    BY <2>5, <2>6
<1> DEFINE readable == {i \in DOMAIN events :
                          events[i].person # Nobody /\ events[i].form \notin {"local", "none"}}
           begun == {i \in readable : events[i].start <= now - off}
           Shift(i, p) == i \in readable /\ events[i].person = p
<1>14. readable = U
  BY <1>2
<1>15. begun \subseteq began /\ began \subseteq U
  BY <1>z, <1>14 DEF began
<1> HIDE DEF readable
<1>16. who # <<>> /\ \A j, k \in DOMAIN who : who[j] = who[k] => j = k
  BY <1>10, <1>11
<1>17. ASSUME begun # {}
       PROVE  \E i \in readable : /\ Shift(i, who[1]) /\ events[i].start <= now + off
                                  /\ \A j \in begun : events[j].start <= events[i].start + off
  <2>1. PICK i \in began : /\ events[i].person = who[1]
                           /\ \A j \in began : ts(events[j]) <= ts(events[i])
    BY <1>12, <1>15, <1>17
  <2>2. i \in U /\ ts(events[i]) <= now
    BY <1>15 DEF began
  <2>3. \A j \in begun : events[j].start <= events[i].start + off
    BY <1>15, <1>z, <2>1, <2>2
  <2>4. i \in readable /\ Shift(i, who[1])
    BY <1>14, <2>1, <2>2
  <2>5. events[i].start <= now + off
    BY <1>z, <2>2
  <2> HIDE DEF Shift, begun
  <2> QED
    BY <2>3, <2>4, <2>5
<1>18. ASSUME NEW k \in 2..Len(who)
       PROVE  \/ who[k] = Admin /\ \A j \in k + 1..Len(who) : FALSE
              \/ \E i \in readable \ begun :
                   /\ Shift(i, who[k])
                   /\ \A j \in 2..k - 1 : \E h \in readable \ begun :
                        Shift(h, who[j]) /\ events[h].start <= events[i].start + off
  <2>1. CASE who[k] = Admin /\ \A j \in k + 1..Len(who) : FALSE
    BY <2>1
  <2>2. ASSUME NEW i \in U \ began, events[i].person = who[k],
               \A j \in 2..k - 1 :
                 \E h \in U \ began : events[h].person = who[j] /\ ts(events[h]) <= ts(events[i])
        PROVE  \E m \in readable \ begun :
                 /\ Shift(m, who[k])
                 /\ \A j \in 2..k - 1 : \E h \in readable \ begun :
                      Shift(h, who[j]) /\ events[h].start <= events[m].start + off
    <3>1. i \in readable \ begun /\ Shift(i, who[k])
      BY <1>14, <1>15, <2>2
    <3>2. ASSUME NEW j \in 2..k - 1
          PROVE  \E h \in readable \ begun : Shift(h, who[j]) /\ events[h].start <= events[i].start + off
      <4>1. PICK h \in U \ began : events[h].person = who[j] /\ ts(events[h]) <= ts(events[i])
        BY <2>2
      <4>2. h \in readable \ begun /\ Shift(h, who[j])
        BY <1>14, <1>15, <4>1
      <4> QED
        BY <1>z, <4>1, <4>2
    <3> QED
      BY <3>1, <3>2
  <2> HIDE DEF Shift, begun
  <2> QED
    BY <1>13, <2>1, <2>2
<1> QED
  BY <1>16, <1>17, <1>18 DEF ChainIsSound, who, roster, begun, readable, off

\* The same of every calendar that the run of MC_Desk looks at.
THEOREM ChainSafety == MCSpec => []EveryChainIsSound
<1> DEFINE People == {"ann", "bob", "cy", Nobody}
           Given == calendar \in Calendar(People)
<1>1. MCInit => Given
  <2>1. <<>> \in Calendar(People)
    BY DEF Calendar
  <2>2. ASSUME NEW file \in Calendars PROVE file \in Calendar(People)
    <3> DEFINE E == [person : People, form : {"utc", "date", "local"}, start : {0, 2, 3, 5}]
               F == Entries(People)
    <3>1. E \subseteq F
      BY DEF Entries
    <3>2. Calendars = BoundedSeq(E, 3)
      BY DEF Calendars
    <3> HIDE DEF E, F
    <3>3. PICK m \in 0..3 : file \in [1..m -> E]
      BY <3>2 DEF BoundedSeq, SeqOf
    <3>4. file \in Seq(F)
      BY <3>1, <3>3
    <3> QED
      BY <3>4 DEF Calendar, F
  <2> QED
    BY <2>1, <2>2 DEF MCInit
<1>2. Given /\ [MCNext]_<<deskVars, calendar, runbook>> => Given'
  BY DEF MCNext
<1>3. Given => EveryChainIsSound
  BY ChainIsAlwaysSound DEF EveryChainIsSound
<1> QED
  BY <1>1, <1>2, <1>3, PTL DEF MCSpec
=============================================================================
