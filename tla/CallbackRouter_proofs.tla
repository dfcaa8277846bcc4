----------------------- MODULE CallbackRouter_proofs -----------------------
(***************************************************************************)
(* Proofs about CallbackRouter, for every number of updates, every limit   *)
(* of the retry queue and every number of failures and restarts: the       *)
(* offset, the batch and the queue of the gate never lose a press between  *)
(* them, and the queue keeps the order of the presses.                     *)
(***************************************************************************)
EXTENDS CallbackRouter, SequenceTheorems, TLAPS

-----------------------------------------------------------------------------
(* The inductive invariant.                                                *)

\* Outside FlushPending everything it uses is empty, during it the queue is;
\* outside FetchOnce there is no batch.
Positions ==
  /\ pc # "flush" => queue = <<>> /\ remaining = <<>>
  /\ pc = "flush" => pending = <<>>
  /\ pc # "dispatch" => batch = <<>>

\* The first update the gate has not seen, as far as it knows.
NextUpdate == IF offset > 0 THEN offset ELSE confirmed + 1

\* A batch has what comes next, without a gap.
BatchFollows ==
  /\ confirmed < NextUpdate
  /\ \A k \in DOMAIN batch : batch[k] = NextUpdate + k - 1

\* What waits for a retry was seen before.
MemoryBehind == \A u \in InMemory : u < NextUpdate

\* Every callback that was seen is with the core, in memory, or given up.
Accounted ==
  \A u \in Callbacks : u < NextUpdate => Understood(u) \/ u \in InMemory \cup dropped \cup lost

\* Without a restart what the core took is behind the offset, and no longer in
\* memory unless its call failed.
TakenBehind ==
  crashes = 0 => \A u \in Taken : u < NextUpdate /\ (u \in unsure \/ u \notin InMemory)

RouterInv ==
  /\ TypeOK /\ Positions /\ BatchFollows /\ MemoryBehind /\ QueueInOrder
  /\ Accounted /\ TakenBehind /\ TwiceOnlyIfUnsure

-----------------------------------------------------------------------------
(* Lemmas about sequences.                                                 *)

Increasing(s) == \A i, j \in DOMAIN s : i < j => s[i] < s[j]

\* The first element and the rest make up a sequence.
LEMMA TailSet ==
  ASSUME NEW S, NEW q \in Seq(S), q # <<>>
  PROVE  /\ Tail(q) \in Seq(S) /\ Len(Tail(q)) = Len(q) - 1 /\ Len(q) \in Nat \ {0}
         /\ Head(q) = q[1] /\ Head(q) \in S
         /\ \A i \in DOMAIN Tail(q) : Tail(q)[i] = q[i + 1] /\ i + 1 \in DOMAIN q
         /\ DOMAIN q = 1..Len(q) /\ DOMAIN Tail(q) = 1..Len(q) - 1
         /\ ToSet(q) = {Head(q)} \cup ToSet(Tail(q))
<1>1. /\ Tail(q) \in Seq(S) /\ Len(Tail(q)) = Len(q) - 1 /\ Len(q) \in Nat \ {0}
      /\ Head(q) \in S /\ Head(q) = q[1]
      /\ \A i \in 1..Len(Tail(q)) : Tail(q)[i] = q[i + 1]
  BY HeadTailProperties, EmptySeq
<1>2. DOMAIN q = 1..Len(q) /\ DOMAIN Tail(q) = 1..Len(q) - 1
  BY <1>1, LenProperties
<1>3. ToSet(q) \subseteq {Head(q)} \cup ToSet(Tail(q))
  <2> SUFFICES ASSUME NEW i \in 1..Len(q), i # 1 PROVE q[i] \in ToSet(Tail(q))
    BY <1>1, <1>2 DEF ToSet
  <2>1. i - 1 \in DOMAIN Tail(q) /\ Tail(q)[i - 1] = q[i]
    BY <1>1, <1>2
  <2> QED
    BY <2>1 DEF ToSet
<1>4. {Head(q)} \cup ToSet(Tail(q)) \subseteq ToSet(q)
  BY <1>1, <1>2 DEF ToSet
<1> QED
  BY <1>1, <1>2, <1>3, <1>4

\* Append adds its element.
LEMMA AppendSet ==
  ASSUME NEW S, NEW q \in Seq(S), NEW e \in S
  PROVE  /\ Append(q, e) \in Seq(S) /\ Len(Append(q, e)) = Len(q) + 1 /\ Len(q) \in Nat
         /\ DOMAIN q = 1..Len(q) /\ DOMAIN Append(q, e) = 1..Len(q) + 1
         /\ \A i \in 1..Len(q) : Append(q, e)[i] = q[i]
         /\ Append(q, e)[Len(q) + 1] = e
         /\ ToSet(Append(q, e)) = ToSet(q) \cup {e}
<1>1. /\ Append(q, e) \in Seq(S) /\ Len(Append(q, e)) = Len(q) + 1 /\ Len(q) \in Nat
      /\ DOMAIN q = 1..Len(q) /\ DOMAIN Append(q, e) = 1..Len(q) + 1
      /\ \A i \in 1..Len(q) : Append(q, e)[i] = q[i]
      /\ Append(q, e)[Len(q) + 1] = e
  BY AppendProperties, LenProperties
<1> QED
  BY <1>1 DEF ToSet

\* A larger element at the end leaves a sequence increasing.
LEMMA IncreasingAppend ==
  ASSUME NEW q \in Seq(Nat), NEW e \in Nat, Increasing(q), \A u \in ToSet(q) : u < e
  PROVE  Increasing(Append(q, e))
BY AppendSet DEF Increasing, ToSet

\* An increasing sequence stays one without its head, which it had only once.
LEMMA IncreasingTail ==
  ASSUME NEW q \in Seq(Nat), q # <<>>, Increasing(q)
  PROVE  Increasing(Tail(q)) /\ Head(q) \notin ToSet(Tail(q))
<1>1. /\ \A i \in DOMAIN Tail(q) : Tail(q)[i] = q[i + 1] /\ i + 1 \in DOMAIN q
      /\ DOMAIN q = 1..Len(q) /\ DOMAIN Tail(q) = 1..Len(q) - 1 /\ Len(q) \in Nat \ {0}
      /\ Head(q) = q[1] /\ \A i \in DOMAIN q : q[i] \in Nat
  BY TailSet, ElementOfSeq
<1>2. \A i \in DOMAIN Tail(q) : q[1] < Tail(q)[i]
  BY <1>1 DEF Increasing
<1>3. Head(q) \notin ToSet(Tail(q))
  BY <1>1, <1>2 DEF ToSet
<1> QED
  BY <1>1, <1>3 DEF Increasing

\* In what FlushPending holds, the failures r and the queue q, the head of the
\* queue may be taken out or moved over to the failures.
LEMMA IncreasingMove ==
  ASSUME NEW r \in Seq(Nat), NEW q \in Seq(Nat), q # <<>>, Increasing(r \o q)
  PROVE  /\ Increasing(r \o Tail(q)) /\ Append(r, Head(q)) \o Tail(q) = r \o q
         /\ Head(q) \notin ToSet(r) \cup ToSet(Tail(q))
<1>1. /\ Tail(q) \in Seq(Nat) /\ Len(Tail(q)) = Len(q) - 1 /\ Len(q) \in Nat \ {0}
      /\ Head(q) = q[1] /\ Head(q) \in Nat
      /\ \A i \in 1..Len(q) - 1 : Tail(q)[i] = q[i + 1]
      /\ DOMAIN Tail(q) = 1..Len(q) - 1
  BY TailSet
<1>2. Len(r) \in Nat /\ DOMAIN r = 1..Len(r)
  BY LenProperties
<1>3. /\ r \o q \in Seq(Nat) /\ DOMAIN (r \o q) = 1..Len(r) + Len(q)
      /\ Len(r \o q) = Len(r) + Len(q)
      /\ \A i \in 1..Len(r) + Len(q) : (r \o q)[i] = IF i <= Len(r) THEN r[i] ELSE q[i - Len(r)]
  BY ConcatProperties, LenProperties
<1>a. /\ \A i \in 1..Len(r) : i \in DOMAIN (r \o q) /\ (r \o q)[i] = r[i]
      /\ \A i \in 1..Len(q) : Len(r) + i \in DOMAIN (r \o q) /\ (r \o q)[Len(r) + i] = q[i]
  <2>1. ASSUME NEW i \in 1..Len(r) PROVE i \in DOMAIN (r \o q) /\ (r \o q)[i] = r[i]
    BY <1>1, <1>2, <1>3
  <2>2. ASSUME NEW i \in 1..Len(q)
        PROVE  Len(r) + i \in DOMAIN (r \o q) /\ (r \o q)[Len(r) + i] = q[i]
    <3>1. Len(r) + i \in 1..Len(r) + Len(q) /\ ~(Len(r) + i <= Len(r)) /\ Len(r) + i - Len(r) = i
      BY <1>1, <1>2
    <3> QED
      BY <1>3, <3>1
  <2> QED
    BY <2>1, <2>2
<1>4. /\ r \o Tail(q) \in Seq(Nat) /\ DOMAIN (r \o Tail(q)) = 1..Len(r) + Len(q) - 1
      /\ \A i \in 1..Len(r) + Len(q) - 1 :
           (r \o Tail(q))[i] = IF i <= Len(r) THEN r[i] ELSE q[i - Len(r) + 1]
  <2>1. /\ r \o Tail(q) \in Seq(Nat) /\ Len(r \o Tail(q)) = Len(r) + Len(q) - 1
        /\ \A i \in 1..Len(r) + Len(q) - 1 :
             (r \o Tail(q))[i] = IF i <= Len(r) THEN r[i] ELSE Tail(q)[i - Len(r)]
    BY <1>1, <1>2, ConcatProperties
  <2>2. DOMAIN (r \o Tail(q)) = 1..Len(r) + Len(q) - 1
    BY <2>1, LenProperties
  <2> QED
    BY <1>1, <1>2, <2>1, <2>2
<1>5. Increasing(r \o Tail(q))
  <2> SUFFICES ASSUME NEW i \in 1..Len(r) + Len(q) - 1, NEW j \in 1..Len(r) + Len(q) - 1, i < j
               PROVE  (r \o Tail(q))[i] < (r \o Tail(q))[j]
    BY <1>4 DEF Increasing
  <2> DEFINE At(k) == IF k <= Len(r) THEN k ELSE k + 1
  <2>1. At(i) < At(j) /\ At(i) \in DOMAIN (r \o q) /\ At(j) \in DOMAIN (r \o q)
    BY SMTT(30), <1>1, <1>2, <1>3
  <2>2. ASSUME NEW k \in 1..Len(r) + Len(q) - 1
        PROVE  (r \o Tail(q))[k] = (r \o q)[At(k)]
    <3>1. CASE k <= Len(r)
      BY <1>2, <1>4, <1>a, <3>1
    <3>2. CASE k > Len(r)
      <4>1. k - Len(r) + 1 \in 1..Len(q) /\ Len(r) + (k - Len(r) + 1) = k + 1
        BY <1>1, <1>2, <3>2
      <4>2. (r \o q)[Len(r) + (k - Len(r) + 1)] = q[k - Len(r) + 1]
        BY <1>a, <4>1
      <4> QED
        BY <1>2, <1>4, <3>2, <4>1, <4>2
    <3> QED
      BY <1>2, <3>1, <3>2
  <2> QED
    BY <2>1, <2>2 DEF Increasing
<1>6. Append(r, Head(q)) \o Tail(q) = r \o q
  <2>1. /\ Append(r, Head(q)) \in Seq(Nat) /\ Len(Append(r, Head(q))) = Len(r) + 1
        /\ \A i \in 1..Len(r) : Append(r, Head(q))[i] = r[i]
        /\ Append(r, Head(q))[Len(r) + 1] = q[1]
    BY <1>1, AppendProperties
  <2>2. /\ Append(r, Head(q)) \o Tail(q) \in Seq(Nat)
        /\ Len(Append(r, Head(q)) \o Tail(q)) = Len(r) + 1 + Len(q) - 1
        /\ \A i \in 1..Len(r) + 1 + Len(q) - 1 :
             (Append(r, Head(q)) \o Tail(q))[i] =
               IF i <= Len(r) + 1 THEN Append(r, Head(q))[i] ELSE Tail(q)[i - (Len(r) + 1)]
    BY <1>1, <1>2, <2>1, ConcatProperties
  <2>3. ASSUME NEW i \in 1..Len(r) + Len(q)
        PROVE  (Append(r, Head(q)) \o Tail(q))[i] = (r \o q)[i]
    <3>1. CASE i <= Len(r)
      BY <1>2, <1>3, <2>1, <2>2, <3>1
    <3>2. CASE i = Len(r) + 1
      BY <1>1, <1>2, <1>3, <2>1, <2>2, <3>2
    <3>3. CASE i > Len(r) + 1
      <4>1. i - (Len(r) + 1) \in 1..Len(q) - 1
        BY <1>1, <1>2, <3>3
      <4>2. (Append(r, Head(q)) \o Tail(q))[i] = q[i - (Len(r) + 1) + 1]
        BY <1>1, <1>2, <2>2, <3>3, <4>1
      <4> QED
        BY <1>1, <1>2, <1>3, <3>3, <4>2
    <3> QED
      BY <1>2, <3>1, <3>2, <3>3
  <2> QED
    BY SMTT(30), <1>1, <1>2, <1>3, <2>2, <2>3, SeqEqual
<1>7. Head(q) \notin ToSet(r) \cup ToSet(Tail(q))
  <2>1. ASSUME NEW i \in DOMAIN r PROVE r[i] # q[1]
    <3>1. i < Len(r) + 1 /\ i \in DOMAIN (r \o q) /\ Len(r) + 1 \in DOMAIN (r \o q)
      BY <1>1, <1>2, <1>3
    <3>2. (r \o q)[i] < (r \o q)[Len(r) + 1]
      BY <3>1 DEF Increasing
    <3>3. (r \o q)[i] = r[i] /\ (r \o q)[Len(r) + 1] = q[1] /\ q[1] \in Nat
      BY <1>1, <1>2, <1>a
    <3> QED
      BY <3>2, <3>3
  <2>2. ASSUME NEW i \in DOMAIN Tail(q) PROVE Tail(q)[i] # q[1]
    <3>0. i + 1 \in 1..Len(q)
      BY <1>1
    <3>1. /\ Len(r) + 1 < Len(r) + (i + 1)
          /\ Len(r) + 1 \in DOMAIN (r \o q) /\ Len(r) + (i + 1) \in DOMAIN (r \o q)
      BY SMTT(30), <1>1, <1>2, <1>3, <3>0
    <3>2. (r \o q)[Len(r) + 1] < (r \o q)[Len(r) + (i + 1)]
      BY <3>1 DEF Increasing
    <3>3. /\ (r \o q)[Len(r) + (i + 1)] = q[i + 1] /\ (r \o q)[Len(r) + 1] = q[1] /\ q[1] \in Nat
          /\ Tail(q)[i] = q[i + 1]
      BY SMTT(30), <1>1, <1>2, <1>a, <3>0
    <3> QED
      BY <3>2, <3>3
  <2> QED
    BY <1>1, <2>1, <2>2 DEF ToSet
<1> QED
  BY <1>5, <1>6, <1>7

\* Of the three parts two are empty, or the last one is.
LEMMA Emptied ==
  ASSUME NEW S, NEW r \in Seq(S), NEW q \in Seq(S)
  PROVE  (r \o q) \o <<>> = r \o q /\ (<<>> \o <<>>) \o q = q /\ ToSet(<<>>) = {}
BY ConcatEmptySeq, ConcatProperties, EmptySeq DEF ToSet

-----------------------------------------------------------------------------
(* The call of ActionCallback.                                             *)

Requests == {Request(u) : u \in Callbacks}

\* What a button says is what the core gets, and what it got before stays.
LEMMA AcceptTakes ==
  ASSUME CoreType, NEW u \in Callbacks, Accept(u)
  PROVE  /\ taken' \in Seq(Requests) /\ taken' = Append(taken, Request(u))
         /\ Request(u) \in Requests /\ Request(u).callback_id = u
         /\ ToSet(taken') = ToSet(taken) \cup {Request(u)} /\ Taken' = Taken \cup {u}
         /\ logged' \subseteq ToSet(taken') /\ {h.callback_id : h \in handled'} \subseteq Taken'
         /\ Understood(u)' /\ \A v \in Callbacks : Understood(v) => Understood(v)'
<1>1. taken' = Append(taken, Request(u)) /\ Request(u) \in Requests /\ taken \in Seq(Requests)
  BY DEF Accept, CoreType, Requests
<1>2. ToSet(taken') = ToSet(taken) \cup {Request(u)} /\ taken' \in Seq(Requests)
  BY <1>1, AppendSet
<1>3. Request(u).callback_id = u
  BY DEF Request
<1>4. Taken' = Taken \cup {u}
  BY <1>2, <1>3 DEF Taken
<1>5. logged' \subseteq ToSet(taken')
  BY <1>2 DEF CoreType, Accept
<1>6. {h.callback_id : h \in handled'} \subseteq Taken'
  <2>1. \A h \in handled' : h \in handled \/ h.callback_id = u
    BY <1>3 DEF Accept
  <2> QED
    BY <1>4, <2>1 DEF CoreType
<1>7. Request(u).request_id = RequestId[u] /\ (Request(u).kind = Verb[u] \/ Verb[u] = "other")
  <2>1. Verb[u] \in {"approve", "reject", "snooze", "other"}
    BY RouterAssumption
  <2>2. Len(Data(u)) > 1 /\ Data(u)[2] = RequestId[u] /\ Head(Data(u)) = Verb[u]
    BY DEF Data
  <2> QED
    BY <2>1, <2>2 DEF Request, parseRequestID, parseKind, hasPrefixFold
<1>8. Understood(u)'
  BY <1>2, <1>3, <1>7 DEF Understood
<1>9. \A v \in Callbacks : Understood(v) => Understood(v)'
  BY <1>2 DEF Understood
<1> QED
  BY <1>1, <1>2, <1>3, <1>4, <1>5, <1>6, <1>8, <1>9

\* A call that succeeds, or fails before or after the core took the callback.
Forward(u) == (Accept(u) /\ UNCHANGED <<unsure, failures>>) \/ Refuse(u)

\* Either way the core takes no callback twice that it answered.
LEMMA ForwardTakes ==
  ASSUME TypeOK, TwiceOnlyIfUnsure, NEW u \in Callbacks, Forward(u), crashes' = crashes,
         crashes = 0 => (u \in Taken => u \in unsure)
  PROVE  /\ taken' \in Seq(Requests) /\ logged' \subseteq ToSet(taken')
         /\ {h.callback_id : h \in handled'} \subseteq Taken'
         /\ Taken \subseteq Taken' /\ Taken' \subseteq Taken \cup {u}
         /\ unsure \subseteq unsure' /\ unsure' \subseteq unsure \cup {u}
         /\ failures' \in 0..MaxFailures
         /\ Accept(u) => Understood(u)'
         /\ Refuse(u) => (u \in Taken' => u \in unsure' \/ u \in Taken)
         /\ \A v \in Callbacks : Understood(v) => Understood(v)'
         /\ TwiceOnlyIfUnsure'
<1>1. CoreType /\ failures \in 0..MaxFailures /\ MaxFailures \in Nat
  BY RouterAssumption DEF TypeOK
<1>2. unsure \subseteq unsure' /\ unsure' \subseteq unsure \cup {u} /\ failures' \in 0..MaxFailures
  BY <1>1 DEF Forward, Refuse
<1>3. CASE Accept(u)
  <2>1. /\ taken' \in Seq(Requests) /\ taken' = Append(taken, Request(u))
        /\ Request(u) \in Requests /\ Request(u).callback_id = u /\ Taken' = Taken \cup {u}
        /\ logged' \subseteq ToSet(taken') /\ {h.callback_id : h \in handled'} \subseteq Taken'
        /\ Understood(u)' /\ \A v \in Callbacks : Understood(v) => Understood(v)'
    BY <1>1, <1>3, AcceptTakes
  <2>2. Refuse(u) => u \in unsure' \/ u \in Taken
    <3>1. CASE UNCHANGED coreVars
      <4>1. Taken' = Taken
        BY <3>1 DEF Taken, coreVars
      <4> QED
        BY <2>1, <4>1
    <3> QED
      BY <3>1 DEF Refuse
  <2>3. TwiceOnlyIfUnsure'
    <3> SUFFICES ASSUME NEW i \in DOMAIN taken', NEW j \in DOMAIN taken', i < j,
                        taken'[i] = taken'[j], crashes' = 0
                 PROVE  taken'[i].callback_id \in unsure'
      <4>1. crashes' = 0 \/ crashes' > 0
        BY RouterAssumption DEF TypeOK
      <4> QED
        BY <4>1 DEF TwiceOnlyIfUnsure
    <3>1. /\ Len(taken) \in Nat /\ DOMAIN taken = 1..Len(taken) /\ DOMAIN taken' = 1..Len(taken) + 1
          /\ \A k \in 1..Len(taken) : taken'[k] = taken[k]
          /\ taken'[Len(taken) + 1] = Request(u)
      BY <1>1, <2>1, AppendSet DEF CoreType, Requests
    <3>2. CASE j = Len(taken) + 1
      <4>1. i \in 1..Len(taken) /\ taken[i] = Request(u)
        BY <3>1, <3>2
      <4>2. u \in Taken
        BY <2>1, <3>1, <4>1 DEF Taken, ToSet
      <4> QED
        BY <1>2, <2>1, <3>1, <4>1, <4>2
    <3>3. CASE j # Len(taken) + 1
      <4>1. i \in 1..Len(taken) /\ j \in 1..Len(taken)
        BY <3>1, <3>3
      <4>2. taken[i].callback_id \in unsure
        BY <3>1, <4>1 DEF TwiceOnlyIfUnsure
      <4> QED
        BY <1>2, <3>1, <4>1, <4>2
    <3> QED
      BY <3>2, <3>3
  <2> QED
    BY <1>2, <2>1, <2>2, <2>3
<1>4. CASE ~Accept(u)
  <2>1. UNCHANGED <<taken, handled, logged, unsure>> /\ Refuse(u)
    BY <1>4 DEF Forward, Refuse, coreVars
  <2> QED
    BY <1>1, <1>2, <1>4, <2>1 DEF CoreType, Requests, Taken, Understood, TwiceOnlyIfUnsure
<1> QED
  BY <1>3, <1>4

-----------------------------------------------------------------------------
(* The steps, one lemma each.                                              *)

\* What the types say, in the form the steps use.
LEMMA Types ==
  ASSUME TypeOK, BatchFollows
  PROVE  /\ Callbacks \subseteq Nat /\ maxPending \in Nat \ {0} /\ MaxUpdates \in Nat
         /\ sent \in Nat /\ confirmed \in Nat /\ offset \in Nat /\ NextUpdate \in Nat \ {0}
         /\ sent <= MaxUpdates /\ confirmed <= sent /\ offset <= sent + 1 /\ NextUpdate <= sent + 1
         /\ pending \in Seq(Nat) /\ queue \in Seq(Nat) /\ remaining \in Seq(Nat)
         /\ InMemory \subseteq Callbacks /\ InMemory \subseteq 1..sent
<1>1. /\ Callbacks \subseteq 1..MaxUpdates /\ maxPending \in Nat \ {0} /\ MaxUpdates \in Nat
      /\ sent \in 0..MaxUpdates /\ confirmed \in 0..sent /\ offset \in 0..sent + 1
      /\ pending \in Seq(Callbacks) /\ queue \in Seq(Callbacks) /\ remaining \in Seq(Callbacks)
      /\ InMemory \subseteq 1..sent
  BY RouterAssumption DEF TypeOK, QueueType, CoreType
<1>2. Callbacks \subseteq Nat
  BY <1>1
<1>3. pending \in Seq(Nat) /\ queue \in Seq(Nat) /\ remaining \in Seq(Nat)
  BY <1>1, <1>2, SeqMonotonic
<1>4. \A q \in Seq(Callbacks) : ToSet(q) \subseteq Callbacks
  BY ElementOfSeq, LenProperties DEF ToSet
<1> QED
  BY <1>1, <1>2, <1>3, <1>4 DEF InMemory, NextUpdate, BatchFollows

\* A press changes nothing the gate knows.
LEMMA PressStep == RouterInv /\ Press => RouterInv'
<1> SUFFICES ASSUME RouterInv, Press PROVE RouterInv'
  OBVIOUS
<1> USE DEF RouterInv
<1>1. /\ UNCHANGED <<confirmed, offset, pending, pc, batch, queue, remaining, taken, handled, logged,
                     dropped, lost, unsure, failures, crashes>>
      /\ sent < MaxUpdates /\ sent' = sent + 1
  BY DEF Press, routerVars, coreVars, history
<1>2. sent \in Nat /\ sent' \in 0..MaxUpdates /\ 1..sent \subseteq 1..sent' /\ 0..sent \subseteq 0..sent'
      /\ 0..sent + 1 \subseteq 0..sent' + 1
  BY <1>1, Types
<1>3. batch' \in Seq(1..sent')
  BY <1>1, <1>2, SeqMonotonic DEF TypeOK, QueueType
<1>4. InMemory' = InMemory /\ Taken' = Taken /\ NextUpdate' = NextUpdate
  BY <1>1 DEF InMemory, Taken, NextUpdate
<1>5. TypeOK'
  BY <1>1, <1>2, <1>3, <1>4 DEF TypeOK, QueueType, CoreType
<1> QED
  BY <1>1, <1>4, <1>5
     DEF Positions, BatchFollows, MemoryBehind, QueueInOrder, Accounted, TakenBehind,
         TwiceOnlyIfUnsure, Understood

\* getUpdates confirms no more than was handled and answers what comes next.
LEMMA FetchStep == RouterInv /\ FetchOnce => RouterInv'
<1> SUFFICES ASSUME RouterInv, FetchOnce PROVE RouterInv'
  OBVIOUS
<1> USE DEF RouterInv
<1>1. /\ UNCHANGED <<sent, offset, pending, queue, remaining, taken, handled, logged, dropped, lost,
                     unsure, crashes>>
      /\ pc = "fetch" /\ pc' \in {"dispatch", "tick"}
      /\ confirmed' \in {confirmed, IF offset > 0 THEN offset - 1 ELSE confirmed}
      /\ failures' \in 0..MaxFailures
  BY RouterAssumption DEF FetchOnce, coreVars, history, TypeOK
<1>2. InMemory' = InMemory /\ Taken' = Taken
  BY <1>1 DEF InMemory, Taken
<1>3. NextUpdate' = NextUpdate /\ confirmed' \in 0..sent /\ confirmed' < NextUpdate
  BY <1>1, Types DEF NextUpdate, BatchFollows
<1>4. /\ batch' \in Seq(1..sent) /\ (pc' = "tick" => batch' = <<>>)
      /\ \A k \in DOMAIN batch' : batch'[k] = NextUpdate + k - 1
  <2>1. CASE pc' = "tick"
    BY <1>1, <2>1 DEF FetchOnce, Positions, TypeOK, QueueType
  <2>2. CASE pc' = "dispatch"
    <3>1. /\ confirmed' = (IF offset > 0 THEN offset - 1 ELSE confirmed)
          /\ batch' = Numbers(confirmed' + 1, sent)
      BY <1>1, <2>2 DEF FetchOnce
    <3>2. NextUpdate = confirmed' + 1 /\ confirmed' \in Nat /\ sent \in Nat
      BY <3>1, Types DEF NextUpdate
    <3> DEFINE n == IF sent < NextUpdate THEN 0 ELSE sent + 1 - NextUpdate
    <3>3. batch' = [i \in 1..n |-> NextUpdate + i - 1]
      BY <3>1, <3>2 DEF Numbers
    <3>4. n \in Nat /\ \A i \in 1..n : NextUpdate + i - 1 \in 1..sent
      <4>1. NextUpdate \in Nat \ {0} /\ sent \in Nat
        BY Types
      <4> QED
        BY ONLY <4>1
    <3> HIDE DEF n
    <3>5. batch' \in [1..n -> 1..sent]
      BY <3>3, <3>4
    <3>6. batch' \in Seq(1..sent)
      BY <3>4, <3>5, SeqDef
    <3> QED
      BY <2>2, <3>3, <3>6
  <2> QED
    BY <1>1, <2>1, <2>2
<1>5. TypeOK'
  BY <1>1, <1>2, <1>3, <1>4 DEF TypeOK, QueueType, CoreType
<1>6. Positions' /\ BatchFollows' /\ MemoryBehind' /\ QueueInOrder'
  BY <1>1, <1>2, <1>3, <1>4 DEF Positions, BatchFollows, MemoryBehind, QueueInOrder
<1>7. Accounted' /\ TakenBehind' /\ TwiceOnlyIfUnsure'
  BY <1>1, <1>2, <1>3 DEF Accounted, Understood, TakenBehind, TwiceOnlyIfUnsure
<1> QED
  BY <1>5, <1>6, <1>7

\* enqueue keeps the order and gives up only what it drops.
LEMMA EnqueueKeeps ==
  ASSUME pending \in Seq(Callbacks), Callbacks \subseteq Nat, maxPending \in Nat \ {0},
         Len(pending) <= maxPending, Increasing(pending),
         NEW u \in Callbacks, \A v \in ToSet(pending) : v < u, Enqueue(u), dropped \subseteq Callbacks
  PROVE  /\ pending' \in Seq(Callbacks) /\ Len(pending') <= maxPending /\ Increasing(pending')
         /\ dropped' \subseteq Callbacks
         /\ ToSet(pending') \subseteq ToSet(pending) \cup {u} /\ u \in ToSet(pending')
         /\ ToSet(pending) \cup dropped \subseteq ToSet(pending') \cup dropped'
<1>1. pending \in Seq(Nat)
  BY SeqMonotonic
<1>2. CASE Len(pending) >= maxPending
  <2>1. pending' = Append(Tail(pending), u) /\ dropped' = dropped \cup {Head(pending)}
    BY <1>2 DEF Enqueue
  <2>2. pending # <<>>
    BY <1>2, EmptySeq
  <2>3. /\ Tail(pending) \in Seq(Callbacks) /\ Len(Tail(pending)) = Len(pending) - 1
        /\ Len(pending) \in Nat /\ Head(pending) \in Callbacks
        /\ ToSet(pending) = {Head(pending)} \cup ToSet(Tail(pending))
    BY <2>2, TailSet
  <2>4. Tail(pending) \in Seq(Nat) /\ Increasing(Tail(pending))
    BY <1>1, <2>2, <2>3, IncreasingTail, TailSet
  <2> DEFINE t == Tail(pending)
             h == Head(pending)
  <2> HIDE DEF t, h
  <2>5. /\ Append(t, u) \in Seq(Callbacks) /\ Len(Append(t, u)) = Len(t) + 1
        /\ ToSet(Append(t, u)) = ToSet(t) \cup {u}
    <3>1. t \in Seq(Callbacks)
      BY <2>3 DEF t
    <3> QED
      BY <3>1, AppendSet
  <2>6. Increasing(Append(t, u))
    BY <2>3, <2>4, IncreasingAppend DEF t
  <2>7. Len(pending') <= maxPending
    BY <2>1, <2>3, <2>5 DEF t
  <2>8. ToSet(pending) = {h} \cup ToSet(t) /\ h \in Callbacks /\ dropped' = dropped \cup {h}
    BY <2>1, <2>3 DEF t, h
  <2> QED
    BY <2>1, <2>5, <2>6, <2>7, <2>8 DEF t
<1>3. CASE ~(Len(pending) >= maxPending)
  <2>1. pending' = Append(pending, u) /\ dropped' = dropped
    BY <1>3 DEF Enqueue
  <2>2. /\ pending' \in Seq(Callbacks) /\ Len(pending') = Len(pending) + 1 /\ Len(pending) \in Nat
        /\ ToSet(pending') = ToSet(pending) \cup {u}
    BY <2>1, AppendSet
  <2>3. Increasing(pending')
    BY <1>1, <2>1, IncreasingAppend
  <2> QED
    BY <1>3, <2>1, <2>2, <2>3
<1> QED
  BY <1>2, <1>3
\* The update dispatched next is the one the offset points to.
LEMMA DispatchStep == RouterInv /\ Dispatch => RouterInv'
<1> SUFFICES ASSUME RouterInv, Dispatch PROVE RouterInv'
  OBVIOUS
<1> USE DEF RouterInv
<1> PICK u \in 1..sent : u = Head(batch)
  BY TailSet DEF Dispatch, TypeOK, QueueType
<1>1. /\ pc = "dispatch" /\ batch # <<>> /\ offset' = u + 1 /\ batch' = Tail(batch)
      /\ UNCHANGED <<sent, confirmed, pc, queue, remaining, lost, crashes>>
      /\ queue = <<>> /\ remaining = <<>>
  BY DEF Dispatch, Positions
<1>2. /\ batch' \in Seq(1..sent) /\ u = batch[1] /\ 1 \in DOMAIN batch
      /\ DOMAIN batch' = 1..Len(batch) - 1 /\ Len(batch) \in Nat
      /\ \A k \in DOMAIN batch' : batch'[k] = batch[k + 1] /\ k + 1 \in DOMAIN batch
  BY <1>1, TailSet DEF TypeOK, QueueType
<1>t. /\ Callbacks \subseteq Nat /\ maxPending \in Nat \ {0} /\ sent \in Nat /\ confirmed \in Nat
      /\ NextUpdate \in Nat \ {0} /\ InMemory \subseteq Callbacks
  BY Types
<1>3. /\ u \in Nat /\ u = NextUpdate /\ NextUpdate' = u + 1 /\ offset' \in 0..sent + 1
  <2>1. u = NextUpdate
    BY <1>2, <1>t DEF BatchFollows
  <2>2. u \in Nat /\ u + 1 > 0 /\ u + 1 \in 0..sent + 1
    BY <1>t
  <2> QED
    BY <1>1, <2>1, <2>2 DEF NextUpdate
<1>4. BatchFollows'
  <2>1. confirmed < NextUpdate'
    BY <1>3, <1>t DEF BatchFollows
  <2>2. ASSUME NEW k \in DOMAIN batch' PROVE batch'[k] = NextUpdate' + k - 1
    <3>1. batch'[k] = NextUpdate + (k + 1) - 1 /\ k \in Nat
      BY <1>2 DEF BatchFollows
    <3> QED
      BY <1>3, <3>1
  <2> QED
    BY <1>1, <2>1, <2>2 DEF BatchFollows
<1>5. InMemory = ToSet(pending) /\ InMemory' = ToSet(pending')
  BY <1>1, Emptied, EmptySeq DEF InMemory, ToSet
<1>6. /\ pending \in Seq(Callbacks) /\ Len(pending) <= maxPending /\ Increasing(pending)
      /\ dropped \subseteq Callbacks /\ lost \subseteq Callbacks /\ unsure \subseteq Callbacks
      /\ Len(queue) = 0 /\ Len(remaining) = 0
  <2>1. (remaining \o queue) \o pending = pending
    BY <1>1, Emptied DEF TypeOK, QueueType
  <2>2. Len(queue) = 0 /\ Len(remaining) = 0 /\ Len(pending) \in Nat
    BY <1>1, EmptySeq, LenProperties DEF TypeOK, QueueType
  <2> QED
    BY <2>1, <2>2 DEF TypeOK, QueueType, QueueInOrder, Increasing
<1>7. ASSUME /\ pending' \in Seq(Callbacks) /\ Len(pending') <= maxPending /\ Increasing(pending')
             /\ dropped' \subseteq Callbacks /\ unsure' \subseteq Callbacks /\ failures' \in 0..MaxFailures
             /\ taken' \in Seq(Requests) /\ logged' \subseteq ToSet(taken')
             /\ {h.callback_id : h \in handled'} \subseteq Taken'
             /\ Taken' \subseteq Taken \cup {u} /\ InMemory' \subseteq InMemory \cup {u}
             /\ unsure \subseteq unsure' /\ TwiceOnlyIfUnsure'
             /\ InMemory \cup dropped \subseteq InMemory' \cup dropped'
             /\ \A v \in Callbacks : Understood(v) => Understood(v)'
             /\ u \in Callbacks => Understood(u)' \/ u \in InMemory'
             /\ crashes = 0 /\ u \in Taken' => u \in unsure' \/ u \notin InMemory'
      PROVE  RouterInv'
  <2>1. InMemory' \cup Taken' \subseteq 1..sent
    BY <1>7 DEF TypeOK, CoreType
  <2>2. TypeOK'
    <3>1. QueueType'
      <4>1. Len(pending') \in Nat /\ Len(queue') = 0 /\ Len(remaining') = 0
        BY <1>1, <1>6, <1>7, LenProperties
      <4> QED
        BY <1>1, <1>2, <1>7, <4>1 DEF TypeOK, QueueType
    <3>2. CoreType'
      BY <1>1, <1>7, <2>1 DEF CoreType, Requests
    <3> QED
      BY <1>1, <1>3, <1>6, <1>7, <3>1, <3>2 DEF TypeOK
  <2>3. QueueInOrder'
    <3>1. (remaining' \o queue') \o pending' = pending'
      BY <1>1, <1>7, Emptied
    <3> QED
      BY <1>7, <3>1 DEF QueueInOrder, Increasing
  <2>4. Positions'
    BY <1>1 DEF Positions
  <2>5. MemoryBehind'
    <3> SUFFICES ASSUME NEW v \in InMemory' PROVE v < u + 1
      BY <1>3 DEF MemoryBehind
    <3>1. v = u \/ (v \in InMemory /\ v < u /\ v \in Nat)
      BY <1>3, <1>7, <1>t DEF MemoryBehind
    <3> QED
      BY <1>3, <3>1
  <2>6. Accounted'
    <3>1. \A v \in Callbacks : v < u + 1 => v < NextUpdate \/ v = u
      BY <1>3, <1>t
    <3> QED
      BY <1>1, <1>3, <1>7, <3>1 DEF Accounted
  <2>7. TakenBehind'
    <3> SUFFICES ASSUME crashes = 0, NEW v \in Taken'
                 PROVE  v < u + 1 /\ (v \in unsure' \/ v \notin InMemory')
      BY <1>1, <1>3 DEF TakenBehind
    <3>1. CASE v = u
      BY <1>3, <1>7, <3>1
    <3>2. CASE v # u
      <4>1. v \in Taken /\ v < NextUpdate /\ (v \in unsure \/ v \notin InMemory) /\ v \in Nat
        BY <1>7, <3>2 DEF TakenBehind, TypeOK, CoreType
      <4> QED
        BY <1>3, <1>7, <3>2, <4>1
    <3> QED
      BY <3>1, <3>2
  <2> QED
    BY <1>4, <1>7, <2>2, <2>3, <2>4, <2>5, <2>6, <2>7
<1>8. CASE u \notin Callbacks
  <2>1. UNCHANGED <<pending, dropped, taken, handled, logged, unsure, failures>>
    BY <1>8 DEF Dispatch, coreVars
  <2>2. Taken' = Taken /\ InMemory' = InMemory
    BY <1>1, <2>1 DEF Taken, InMemory
  <2>3. u \notin InMemory
    BY <1>3, <1>t DEF MemoryBehind
  <2> QED
    BY <1>1, <1>6, <1>7, <1>8, <2>1, <2>2, <2>3
       DEF TypeOK, CoreType, Requests, Understood, TwiceOnlyIfUnsure
<1>9. CASE u \in Callbacks
  <2>1. \/ Accept(u) /\ UNCHANGED <<pending, dropped, unsure, failures>>
        \/ Refuse(u) /\ Enqueue(u)
    BY <1>9 DEF Dispatch
  <2>2. Forward(u)
    BY <2>1 DEF Forward
  <2>3. (crashes = 0 => u \notin Taken) /\ u \notin InMemory /\ \A v \in ToSet(pending) : v < u
    BY <1>3, <1>5, <1>t DEF TakenBehind, MemoryBehind
  <2>4. /\ taken' \in Seq(Requests) /\ logged' \subseteq ToSet(taken')
        /\ {h.callback_id : h \in handled'} \subseteq Taken'
        /\ Taken \subseteq Taken' /\ Taken' \subseteq Taken \cup {u}
        /\ unsure \subseteq unsure' /\ unsure' \subseteq unsure \cup {u}
        /\ failures' \in 0..MaxFailures
        /\ Accept(u) => Understood(u)'
        /\ Refuse(u) => (u \in Taken' => u \in unsure' \/ u \in Taken)
        /\ \A v \in Callbacks : Understood(v) => Understood(v)'
        /\ TwiceOnlyIfUnsure'
    BY <1>1, <1>9, <2>2, <2>3, ForwardTakes
  <2>5. CASE Accept(u) /\ UNCHANGED <<pending, dropped, unsure, failures>>
    BY <1>5, <1>6, <1>7, <2>3, <2>4, <2>5
  <2>6. CASE Refuse(u) /\ Enqueue(u)
    <3>1. /\ pending' \in Seq(Callbacks) /\ Len(pending') <= maxPending /\ Increasing(pending')
          /\ dropped' \subseteq Callbacks
          /\ ToSet(pending') \subseteq ToSet(pending) \cup {u} /\ u \in ToSet(pending')
          /\ ToSet(pending) \cup dropped \subseteq ToSet(pending') \cup dropped'
      BY <1>6, <1>9, <2>3, <2>6, <1>t, EnqueueKeeps
    <3>2. unsure' \subseteq Callbacks
      BY <1>6, <1>9, <2>4
    <3> QED
      BY <1>5, <1>7, <2>3, <2>4, <2>6, <3>1, <3>2
  <2> QED
    BY <2>1, <2>5, <2>6
<1> QED
  BY <1>8, <1>9

\* The end of a batch.
LEMMA BatchDoneStep == RouterInv /\ BatchDone => RouterInv'
<1> SUFFICES ASSUME RouterInv, BatchDone PROVE RouterInv'
  OBVIOUS
<1> USE DEF RouterInv
<1>1. /\ UNCHANGED <<sent, confirmed, offset, pending, batch, queue, remaining, taken, handled, logged,
                     dropped, lost, unsure, failures, crashes>>
      /\ pc = "dispatch" /\ batch = <<>> /\ pc' = "tick"
  BY DEF BatchDone, coreVars, history
<1>2. InMemory' = InMemory /\ Taken' = Taken /\ NextUpdate' = NextUpdate
  BY <1>1 DEF InMemory, Taken, NextUpdate
<1>3. TypeOK' /\ Positions'
  BY <1>1, <1>2 DEF TypeOK, QueueType, CoreType, Positions
<1> QED
  BY <1>1, <1>2, <1>3
     DEF BatchFollows, MemoryBehind, QueueInOrder, Accounted, TakenBehind, TwiceOnlyIfUnsure, Understood

\* FlushPending takes the whole queue and gives back the failures: what is in
\* memory and its order stay.
LEMMA FlushSteps == RouterInv /\ (BeginFlush \/ EndFlush) => RouterInv'
<1> SUFFICES ASSUME RouterInv, BeginFlush \/ EndFlush PROVE RouterInv'
  OBVIOUS
<1> USE DEF RouterInv
<1>1. /\ UNCHANGED <<sent, confirmed, offset, batch, taken, handled, logged, dropped, lost, unsure,
                     failures, crashes>>
      /\ pc \in {"tick", "flush"} /\ pc' \in {"flush", "fetch"} /\ batch = <<>>
  BY DEF BeginFlush, EndFlush, coreVars, history, Positions
<1>2. pending \in Seq(Callbacks) /\ queue \in Seq(Callbacks) /\ remaining \in Seq(Callbacks)
  BY DEF TypeOK, QueueType
<1>3. /\ QueueType' /\ Positions' /\ InMemory' = InMemory
      /\ (remaining' \o queue') \o pending' = (remaining \o queue) \o pending
  <2>1. CASE BeginFlush
    <3>1. /\ queue' = pending /\ pending' = <<>> /\ remaining' = <<>> /\ queue = <<>> /\ remaining = <<>>
          /\ pc' = "flush"
      BY <2>1 DEF BeginFlush, Positions
    <3>2. (<<>> \o pending) \o <<>> = pending /\ (<<>> \o <<>>) \o pending = pending
      BY <1>2, ConcatEmptySeq, Emptied
    <3>3. Positions' /\ InMemory' = InMemory
      BY <1>1, <3>1 DEF Positions, InMemory
    <3>4. QueueType'
      BY <1>1, <1>2, <3>1, EmptySeq, LenProperties DEF TypeOK, QueueType
    <3> QED
      BY <3>1, <3>2, <3>3, <3>4
  <2>2. CASE EndFlush
    <3>1. /\ queue' = <<>> /\ remaining' = <<>> /\ queue = <<>> /\ pending = <<>> /\ pc' = "fetch"
          /\ pending' = remaining \o pending
      BY <2>2 DEF EndFlush, Positions
    <3>2. pending' = remaining /\ (<<>> \o <<>>) \o remaining = remaining
          /\ (remaining \o <<>>) \o <<>> = remaining
      BY <1>2, <3>1, ConcatEmptySeq, Emptied
    <3>3. Positions' /\ InMemory' = InMemory
      BY <1>1, <3>1, <3>2 DEF Positions, InMemory
    <3>4. QueueType'
      BY <1>1, <1>2, <3>1, <3>2, EmptySeq, LenProperties DEF TypeOK, QueueType
    <3> QED
      BY <3>1, <3>2, <3>3, <3>4
  <2> QED
    BY <2>1, <2>2
<1>4. Taken' = Taken /\ NextUpdate' = NextUpdate
  BY <1>1 DEF Taken, NextUpdate
<1>5. TypeOK'
  BY <1>1, <1>3, <1>4 DEF TypeOK, CoreType
<1>6. QueueInOrder'
  BY <1>3 DEF QueueInOrder
<1> QED
  BY <1>1, <1>3, <1>4, <1>5, <1>6
     DEF BatchFollows, MemoryBehind, Accounted, TakenBehind, TwiceOnlyIfUnsure, Understood

\* A callback sent again leaves the queue, or goes over to the failures in its
\* place.
LEMMA ResendStep == RouterInv /\ Resend => RouterInv'
<1> SUFFICES ASSUME RouterInv, Resend PROVE RouterInv'
  OBVIOUS
<1> USE DEF RouterInv
<1>t. /\ Callbacks \subseteq Nat /\ InMemory \subseteq Callbacks
      /\ queue \in Seq(Nat) /\ remaining \in Seq(Nat)
      /\ queue \in Seq(Callbacks) /\ remaining \in Seq(Callbacks) /\ queue # <<>>
  BY Types DEF TypeOK, QueueType, Resend
<1> PICK u \in Callbacks : u = Head(queue)
  BY <1>t, TailSet
<1>1. /\ pc = "flush" /\ pending = <<>> /\ queue' = Tail(queue)
      /\ UNCHANGED <<sent, confirmed, offset, pending, pc, batch, dropped, lost, crashes>>
      /\ \/ Accept(u) /\ UNCHANGED <<remaining, unsure, failures>>
         \/ Refuse(u) /\ remaining' = Append(remaining, u)
  BY DEF Resend, Positions
<1>2. /\ queue' \in Seq(Callbacks) /\ Len(queue') = Len(queue) - 1 /\ Len(queue) \in Nat
      /\ ToSet(queue) = {u} \cup ToSet(queue')
  BY <1>1, <1>t, TailSet
<1>3. Increasing(remaining \o queue)
  <2>1. (remaining \o queue) \o <<>> = remaining \o queue
    BY <1>t, Emptied
  <2> QED
    BY <1>1, <2>1 DEF QueueInOrder, Increasing
<1>4. /\ Increasing(remaining \o queue') /\ Append(remaining, u) \o queue' = remaining \o queue
      /\ u \notin ToSet(remaining) \cup ToSet(queue')
  BY <1>1, <1>3, <1>t, IncreasingMove
<1>5. /\ InMemory = ToSet(remaining) \cup ToSet(queue)
      /\ InMemory' = ToSet(remaining') \cup ToSet(queue') /\ NextUpdate' = NextUpdate
  BY <1>1, Emptied, EmptySeq DEF InMemory, NextUpdate, ToSet
<1>6. u \in InMemory /\ Forward(u) /\ (crashes = 0 => (u \in Taken => u \in unsure))
  BY <1>1, <1>2, <1>5 DEF TakenBehind, Forward
<1>7. /\ taken' \in Seq(Requests) /\ logged' \subseteq ToSet(taken')
      /\ {h.callback_id : h \in handled'} \subseteq Taken'
      /\ Taken \subseteq Taken' /\ Taken' \subseteq Taken \cup {u}
      /\ unsure \subseteq unsure' /\ unsure' \subseteq unsure \cup {u}
      /\ failures' \in 0..MaxFailures
      /\ Accept(u) => Understood(u)'
      /\ Refuse(u) => (u \in Taken' => u \in unsure' \/ u \in Taken)
      /\ \A v \in Callbacks : Understood(v) => Understood(v)'
      /\ TwiceOnlyIfUnsure'
  BY <1>1, <1>6, ForwardTakes
<1>8. /\ remaining' \in Seq(Callbacks) /\ Len(remaining') <= Len(remaining) + 1 /\ Len(remaining) \in Nat
      /\ Len(remaining') \in Nat /\ Increasing(remaining' \o queue')
      /\ InMemory' \subseteq InMemory /\ InMemory \subseteq InMemory' \cup {u}
      /\ (Refuse(u) /\ u \in InMemory') \/ (Accept(u) /\ u \notin InMemory')
  <2>0. Len(remaining) \in Nat
    BY <1>t, LenProperties
  <2>1. CASE Accept(u) /\ UNCHANGED <<remaining, unsure, failures>>
    BY <1>2, <1>4, <1>5, <1>t, <2>0, <2>1
  <2>2. CASE Refuse(u) /\ remaining' = Append(remaining, u)
    <3>1. /\ remaining' \in Seq(Callbacks) /\ Len(remaining') = Len(remaining) + 1
          /\ ToSet(remaining') = ToSet(remaining) \cup {u}
      BY <1>t, <2>2, AppendSet
    <3>2. Increasing(remaining' \o queue')
      BY <1>3, <1>4, <2>2
    <3>3. InMemory' = InMemory
      BY <1>2, <1>5, <3>1
    <3>4. Len(remaining') <= Len(remaining) + 1 /\ Len(remaining') \in Nat
      BY <2>0, <3>1
    <3>5. Refuse(u) /\ u \in InMemory'
      BY <1>6, <2>2, <3>3
    <3> QED
      BY <2>0, <3>1, <3>2, <3>3, <3>4, <3>5
  <2> QED
    BY <1>1, <2>1, <2>2
<1>9. TypeOK'
  <2>1. QueueType'
    <3>1. Len(pending') + Len(queue') + Len(remaining') <= maxPending
      <4>1. Len(pending) = 0 /\ Len(pending) + Len(queue) + Len(remaining) <= maxPending
        BY <1>1, EmptySeq DEF TypeOK, QueueType
      <4>2. maxPending \in Nat
        BY RouterAssumption
      <4> QED
        BY <1>1, <1>2, <1>8, <4>1, <4>2
    <3> QED
      BY <1>1, <1>2, <1>8, <3>1 DEF TypeOK, QueueType
  <2>2. CoreType'
    BY <1>1, <1>6, <1>7, <1>8 DEF TypeOK, CoreType, Requests
  <2>3. unsure' \subseteq Callbacks
    BY <1>7 DEF TypeOK
  <2> QED
    BY <1>1, <1>7, <2>1, <2>2, <2>3 DEF TypeOK
<1>10. QueueInOrder'
  <2>1. remaining' \in Seq(Nat) /\ queue' \in Seq(Nat)
    BY <1>2, <1>8, <1>t, SeqMonotonic
  <2>2. (remaining' \o queue') \o <<>> = remaining' \o queue'
    BY <2>1, Emptied
  <2> QED
    BY <1>1, <1>8, <2>2 DEF QueueInOrder, Increasing
<1>11. Positions' /\ BatchFollows' /\ MemoryBehind'
  BY <1>1, <1>5, <1>8 DEF Positions, BatchFollows, MemoryBehind
<1>12. Accounted'
  BY <1>1, <1>5, <1>7, <1>8 DEF Accounted
<1>13. TakenBehind'
  BY <1>1, <1>5, <1>6, <1>7, <1>8 DEF TakenBehind, MemoryBehind
<1> QED
  BY <1>7, <1>9, <1>10, <1>11, <1>12, <1>13

\* The gate dies; what it had in memory is lost, the updates behind the
\* confirmed ones come again.
LEMMA CrashStep == RouterInv /\ Crash => RouterInv'
<1> SUFFICES ASSUME RouterInv, Crash PROVE RouterInv'
  OBVIOUS
<1> USE DEF RouterInv
<1>1. /\ UNCHANGED <<sent, confirmed, taken, handled, logged, dropped, unsure, failures>>
      /\ crashes < MaxCrashes /\ crashes' = crashes + 1 /\ crashes \in 0..MaxCrashes /\ MaxCrashes \in Nat
      /\ lost' = lost \cup InMemory /\ offset' = 0 /\ pc' = "fetch"
      /\ pending' = <<>> /\ batch' = <<>> /\ queue' = <<>> /\ remaining' = <<>>
  BY RouterAssumption DEF Crash, coreVars, TypeOK
<1>t. /\ sent \in Nat /\ confirmed \in Nat /\ NextUpdate \in Nat /\ InMemory \subseteq Callbacks
      /\ Callbacks \subseteq Nat /\ maxPending \in Nat /\ confirmed < NextUpdate
  BY Types DEF BatchFollows
<1>2. NextUpdate' = confirmed + 1 /\ NextUpdate' <= NextUpdate
  BY <1>1, <1>t DEF NextUpdate
<1>3. InMemory' = {} /\ Taken' = Taken
  BY <1>1, Emptied, EmptySeq DEF InMemory, Taken, ToSet
<1>4. TypeOK'
  <2>1. QueueType'
    BY <1>1, <1>t, EmptySeq DEF QueueType
  <2>2. CoreType'
    BY <1>1, <1>3 DEF TypeOK, CoreType
  <2> QED
    BY <1>1, <1>t, <2>1, <2>2 DEF TypeOK
<1>5. Positions' /\ BatchFollows' /\ MemoryBehind' /\ TakenBehind' /\ TwiceOnlyIfUnsure'
  BY <1>1, <1>2, <1>3, <1>t, EmptySeq DEF Positions, BatchFollows, MemoryBehind, TakenBehind, TwiceOnlyIfUnsure
<1>6. QueueInOrder'
  <2>1. (<<>> \o <<>>) \o <<>> = <<>>
    BY Emptied, EmptySeq
  <2> QED
    BY <1>1, <2>1, EmptySeq DEF QueueInOrder
<1>7. Accounted'
  <2>1. \A v \in Callbacks : v < NextUpdate' => v < NextUpdate
    BY <1>2, <1>t
  <2> QED
    BY <1>1, <2>1 DEF Accounted, Understood
<1> QED
  BY <1>4, <1>5, <1>6, <1>7

\* The inductive invariant holds.
LEMMA RouterAlways == Spec => []RouterInv
<1>1. Init => RouterInv
  <2> SUFFICES ASSUME Init PROVE RouterInv
    OBVIOUS
  <2> USE RouterAssumption DEF Init
  <2>1. InMemory = {} /\ Taken = {} /\ ToSet(taken) = {}
    BY EmptySeq DEF InMemory, Taken, ToSet
  <2>2. TypeOK
    BY <2>1, EmptySeq DEF TypeOK, QueueType, CoreType
  <2>3. QueueInOrder
    <3>1. (<<>> \o <<>>) \o <<>> = <<>>
      BY Emptied, EmptySeq
    <3> QED
      BY <3>1, EmptySeq DEF QueueInOrder
  <2>4. NextUpdate = 1
    BY DEF NextUpdate
  <2>5. Positions /\ BatchFollows /\ MemoryBehind /\ TakenBehind /\ TwiceOnlyIfUnsure
    BY <2>1, <2>4, EmptySeq DEF Positions, BatchFollows, MemoryBehind, TakenBehind, TwiceOnlyIfUnsure
  <2>6. Accounted
    BY <2>4 DEF Accounted
  <2> QED
    BY <2>2, <2>3, <2>5, <2>6 DEF RouterInv
<1>2. RouterInv /\ [Next]_vars => RouterInv'
  <2> SUFFICES ASSUME RouterInv, [Next]_vars PROVE RouterInv'
    OBVIOUS
  <2>1. CASE Run
    BY <2>1, FetchStep, DispatchStep, BatchDoneStep, FlushSteps, ResendStep DEF Run
  <2>2. CASE UNCHANGED vars
    BY <2>2 DEF RouterInv, TypeOK, QueueType, CoreType, Positions, BatchFollows, NextUpdate, MemoryBehind,
                QueueInOrder, Accounted, TakenBehind, TwiceOnlyIfUnsure, InMemory, Taken, Understood,
                vars, routerVars, coreVars, history
  <2> QED
    BY <2>1, <2>2, PressStep, CrashStep DEF Next
<1> QED
  BY <1>1, <1>2, PTL DEF Spec

-----------------------------------------------------------------------------
\* The variables stay in their types; in particular the gate never holds more
\* callbacks than maxPending, also while it sends them again.
THEOREM TypeCorrect == Spec => []TypeOK
BY RouterAlways, PTL DEF RouterInv

\* No press Telegram will not repeat is unaccounted for, whatever fails and
\* whenever the gate dies.
THEOREM NothingLost == Spec => []NothingVanishesUnseen
<1>1. RouterInv => NothingVanishesUnseen
  <2> SUFFICES ASSUME RouterInv, NEW u \in Callbacks, u <= confirmed
               PROVE  Understood(u) \/ u \in InMemory \cup dropped \cup lost
    BY DEF NothingVanishesUnseen
  <2>1. u \in Nat /\ confirmed \in Nat /\ NextUpdate \in Nat /\ confirmed < NextUpdate
    BY Types DEF RouterInv, BatchFollows
  <2> QED
    BY <2>1 DEF RouterInv, Accounted
<1> QED
  BY <1>1, RouterAlways, PTL

\* The retry queue keeps the order of the presses.
THEOREM OrderSafety == Spec => []QueueInOrder
BY RouterAlways, PTL DEF RouterInv

\* The core takes a callback twice only after a call that failed late or a
\* restart of the gate.
THEOREM TwiceSafety == Spec => []TwiceOnlyIfUnsure
BY RouterAlways, PTL DEF RouterInv
=============================================================================
