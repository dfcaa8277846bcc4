------------------------- MODULE IncidentLog_proofs -------------------------
(***************************************************************************)
(* Proofs about IncidentLog, for every set of writers and operators,       *)
(* whatever is rewritten or deleted behind the program's back.             *)
(***************************************************************************)
EXTENDS IncidentLog, SequenceTheorems, WellFoundedInduction, TLAPS

-----------------------------------------------------------------------------
(* The inductive invariants.                                               *)

\* A row carries the hash of its contents or no hash at all, until it is
\* rewritten: then its hash is that of something else.
RowInv ==
  \A i \in DOMAIN rows :
    IF rows[i].event.data = Forged
    THEN rows[i].hash # compute_event_hash(rows[i].prev, rows[i].event)
    ELSE \/ rows[i].hash = compute_event_hash(rows[i].prev, rows[i].event)
         \/ rows[i].hash = NoHash /\ rows[i].prev = NoHash

\* A thread about to insert holds the last hash of the rows it could see, and a
\* row continues the last chained one before it that its writer could see.
Seen(places, n) == {i \in places : rows[i].id < n}
ReaderInv ==
  ~deleted => \A a \in Actors :
    pc[a] = "insert" => local[a].prev = HashAt(Seen(Chained, local[a].seen))
ForkInv == ReaderInv /\ ForkNeedsRace

\* Where a transition went whose event is still to come, and where the last
\* recorded one went.
Meant(op) == local[op].event.data[2]
LastTold == Told(Max(Changes))

\* Only an operator that wrote the status has a change of it to record; as long as
\* no such event died with the process one of those to come or of those recorded
\* went to the status, and when no two of them overlapped it is the only one to
\* come or, when none is to come, the last recorded one.
EventInv ==
  /\ \A w \in Writers : local[w].event.kind # "status_changed"
  /\ \A op \in Operators :
       pc[op] \in {"idle", "check", "update"} => local[op].event.kind # "status_changed"
Explained ==
  attacks = 0 /\ ~torn =>
    \/ \E op \in Operators : Owed(op) /\ Meant(op) = status
    \/ \E i \in Changes : Told(i) = status
    \/ Changes = {} /\ (\A op \in Operators : ~Owed(op)) /\ status = "open"
Exact ==
  attacks = 0 /\ ~torn /\ ~overlapped =>
    /\ \A op \in Operators :
         Owed(op) => Meant(op) = status /\ \A other \in Operators : Owed(other) => other = op
    /\ Changes # {} /\ (\A op \in Operators : ~Owed(op)) => LastTold = status
StatusInv == EventInv /\ Explained /\ Exact

-----------------------------------------------------------------------------
(* Lemmas on numbers, events and rows.                                     *)

\* The smallest of some natural numbers.
LEMMA MinOf ==
  ASSUME NEW S \in SUBSET Nat, S # {}
  PROVE  Min(S) \in S /\ \A y \in S : Min(S) <= y
<1>1. PICK x \in S : \A y \in S : ~(<<y, x>> \in OpToRel(<, Nat))
  BY NatLessThanWellFounded, WFMin
<1>2. \A y \in S : x <= y
  <2> TAKE y \in S
  <2>1. ~(y < x)
    BY <1>1 DEF OpToRel
  <2>2. x \in Nat /\ y \in Nat
    OBVIOUS
  <2> QED
    BY <2>1, <2>2
<1> QED
  BY <1>2 DEF Min

\* The greatest of some natural numbers that have a bound.
LEMMA MaxOf ==
  ASSUME NEW S \in SUBSET Nat, S # {}, NEW n \in Nat, \A y \in S : y <= n
  PROVE  Max(S) \in S /\ \A y \in S : y <= Max(S)
<1> DEFINE T == {n - y : y \in S}
<1>0. \A y \in S : n - y \in Nat
  <2> TAKE y \in S
  <2>1. y \in Nat /\ y <= n
    OBVIOUS
  <2> QED
    BY <2>1
<1>1. T \in SUBSET Nat /\ T # {}
  BY <1>0
<1>2. Min(T) \in T /\ \A z \in T : Min(T) <= z
  BY <1>1, MinOf
<1>3. PICK x \in S : Min(T) = n - x
  BY <1>2
<1>4. \A y \in S : n - x <= n - y
  BY <1>2, <1>3
<1>5. \A y \in S : x >= y
  <2> TAKE y \in S
  <2>1. n - x <= n - y /\ x \in Nat /\ y \in Nat
    BY <1>4
  <2> QED
    BY <2>1
<1> QED
  BY <1>5 DEF Max

\* No event of the program has the contents of a rewritten row.
LEMMA ForgedApart == \A d \in Data : d # Forged
BY DEF Data, Forged

\* A sequence over a set is one over any larger set.
LEMMA SeqMono ==
  ASSUME NEW S, NEW T, S \subseteq T, NEW q \in Seq(S)
  PROVE  q \in Seq(T)
<1>1. Len(q) \in Nat /\ q \in [1..Len(q) -> S]
  BY LenProperties
<1>2. q \in [1..Len(q) -> T]
  BY <1>1
<1> QED
  BY <1>1, <1>2, SeqDef

\* The hash of an event binds it and the hash before it.
LEMMA HashBinds ==
  ASSUME NEW h \in Hashes, NEW e \in Events, NEW f, f \in [kind : Kinds, data : Data \cup {Forged}]
  PROVE  /\ compute_event_hash(h, e) \in Hashes
         /\ compute_event_hash(h, e) # h /\ compute_event_hash(h, e) # genesis_hash
         /\ compute_event_hash(h, e) = compute_event_hash(h, f) => e = f
<1> DEFINE E == [kind : Kinds, data : Data \cup {Forged}]
<1>1. h \in Seq(E) /\ e \in E /\ f \in E
  <2>1. Events \subseteq E
    BY DEF Events
  <2> QED
    BY <2>1, SeqMono DEF Hashes
<1>2. Append(h, e) \in Seq(Events) /\ Append(h, e) # <<>> /\ Len(Append(h, e)) = Len(h) + 1 /\ Len(h) \in Nat
  BY AppendProperties, LenProperties DEF Hashes
<1>3. Append(h, e) # h
  BY <1>2
<1>4. Append(h, e) = Append(h, f) => e = f
  BY <1>1, AppendInjective
<1> QED
  BY <1>2, <1>3, <1>4 DEF compute_event_hash, genesis_hash, Hashes

\* Every place of the timeline holds a row.
LEMMA RowsTyped ==
  ASSUME LogType
  PROVE  /\ Len(rows) \in Nat /\ DOMAIN rows = 1..Len(rows)
         /\ \A i \in DOMAIN rows : rows[i] \in Rows
BY LenProperties, ElementOfSeq DEF LogType

\* The null hash is a hash.
LEMMA NoHashTyped == NoHash \in Hashes /\ genesis_hash \in Hashes
BY DEF NoHash, genesis_hash, Hashes, Events, Event, Kinds, Data

\* The null hash is not the hash of anything that follows it.
LEMMA NullApart ==
  ASSUME NEW f \in [kind : Kinds, data : Data \cup {Forged}]
  PROVE  NoHash # compute_event_hash(NoHash, f)
<1> DEFINE E == [kind : Kinds, data : Data \cup {Forged}]
<1>1. Event("NULL", <<>>) \in E
  BY DEF Event, Kinds, Data
<1>2. NoHash \in Seq(E) /\ Len(NoHash) = 1
  BY <1>1 DEF NoHash
<1> HIDE DEF E
<1>3. Len(Append(NoHash, f)) # Len(NoHash)
  <2>1. f \in E
    BY DEF E
  <2> QED
    BY SMTT(30), <1>2, <2>1, AppendProperties
<1>4. Append(NoHash, f) # NoHash
  BY <1>3
<1> QED
  BY <1>4 DEF compute_event_hash

-----------------------------------------------------------------------------
(* What a step does to the rows.                                           *)

Appended(row) ==
  /\ DOMAIN rows' = 1..Len(rows) + 1 /\ Len(rows') = Len(rows) + 1
  /\ \A i \in DOMAIN rows : rows'[i] = rows[i]
  /\ rows'[Len(rows) + 1] = row

LEMMA AppendRow ==
  ASSUME LogType, NEW row, row \in Rows, row.id = nextId, row.seen <= nextId,
         rows' = Append(rows, row), nextId' = nextId + 1
  PROVE  LogType' /\ Appended(row)
<1>1. /\ Len(rows) \in Nat /\ DOMAIN rows = 1..Len(rows)
      /\ \A i \in DOMAIN rows : rows[i] \in Rows
  BY RowsTyped
<1>2. /\ rows' \in Seq(Rows) /\ Len(rows') = Len(rows) + 1 /\ rows'[Len(rows) + 1] = row
      /\ \A i \in 1..Len(rows) : rows'[i] = rows[i]
  BY AppendProperties DEF LogType
<1>3. DOMAIN rows' = 1..Len(rows) + 1
  BY <1>2, LenProperties
<1>4. Appended(row)
  BY <1>1, <1>2, <1>3 DEF Appended
<1>5. nextId \in Nat \ {0} /\ nextId' \in Nat \ {0} /\ nextId < nextId'
  BY DEF LogType
<1>6. \A i \in 1..Len(rows) : rows[i].id \in Nat /\ rows[i].seen \in Nat
  BY <1>1 DEF Rows
<1>7. ASSUME NEW i \in DOMAIN rows'
      PROVE  /\ rows'[i].id < nextId' /\ rows'[i].seen <= rows'[i].id
             /\ \A j \in DOMAIN rows' : i < j => rows'[i].id < rows'[j].id
  <2>1. CASE i = Len(rows) + 1
    BY <1>1, <1>2, <1>3, <1>5, <2>1
  <2>2. CASE i \in 1..Len(rows)
    <3>1. /\ rows[i].id < nextId /\ rows[i].seen <= rows[i].id
          /\ \A j \in 1..Len(rows) : i < j => rows[i].id < rows[j].id
      BY <1>1, <2>2 DEF LogType
    <3>2. rows'[i] = rows[i]
      BY <1>2, <2>2
    <3>3. \A j \in DOMAIN rows' : i < j => rows'[i].id < rows'[j].id
      BY <1>1, <1>2, <1>3, <3>1, <3>2
    <3> QED
      BY <1>5, <1>6, <2>2, <3>1, <3>2, <3>3
  <2> QED
    BY <1>1, <1>3, <2>1, <2>2
<1> QED
  BY <1>2, <1>4, <1>5, <1>7 DEF LogType

\* Rewriting a row changes its payload and nothing else.
LEMMA TamperRow ==
  ASSUME LogType, NEW i \in DOMAIN rows, Tamper(i)
  PROVE  /\ LogType' /\ DOMAIN rows' = DOMAIN rows /\ Len(rows') = Len(rows)
         /\ \A j \in DOMAIN rows :
              /\ rows'[j].id = rows[j].id /\ rows'[j].seen = rows[j].seen
              /\ rows'[j].prev = rows[j].prev /\ rows'[j].hash = rows[j].hash
              /\ rows'[j].event.kind = rows[j].event.kind
              /\ j # i => rows'[j] = rows[j]
         /\ rows'[i].event = [rows[i].event EXCEPT !.data = Forged]
         /\ rows'[i].event.data = Forged
<1>1. /\ Len(rows) \in Nat /\ DOMAIN rows = 1..Len(rows)
      /\ \A j \in DOMAIN rows : rows[j] \in Rows
  BY RowsTyped
<1> DEFINE new == [rows[i] EXCEPT !.event.data = Forged]
<1>2. rows' = [rows EXCEPT ![i] = new]
  BY DEF Tamper
<1>3. rows[i] \in Rows
  BY <1>1
<1>4. /\ new \in Rows
      /\ new.id = rows[i].id /\ new.seen = rows[i].seen /\ new.prev = rows[i].prev
      /\ new.hash = rows[i].hash /\ new.event = [rows[i].event EXCEPT !.data = Forged]
      /\ new.event.kind = rows[i].event.kind /\ new.event.data = Forged
  BY <1>3 DEF Rows
<1> HIDE DEF new
<1>5. rows \in [1..Len(rows) -> Rows]
  BY LenProperties DEF LogType
<1>6. rows' \in [1..Len(rows) -> Rows] /\ rows'[i] = new /\ \A j \in DOMAIN rows : j # i => rows'[j] = rows[j]
  BY <1>1, <1>2, <1>4, <1>5
<1>7. rows' \in Seq(Rows) /\ DOMAIN rows' = 1..Len(rows) /\ Len(rows') = Len(rows)
  <2>1. rows' \in Seq(Rows)
    BY <1>1, <1>6, SeqDef
  <2> QED
    BY <1>1, <1>6, <2>1, LenProperties
<1>8. \A j \in DOMAIN rows :
        /\ rows'[j].id = rows[j].id /\ rows'[j].seen = rows[j].seen
        /\ rows'[j].prev = rows[j].prev /\ rows'[j].hash = rows[j].hash
        /\ rows'[j].event.kind = rows[j].event.kind
  BY <1>4, <1>6
<1>9. nextId' = nextId
  BY DEF Tamper
<1>10. LogType'
  BY <1>1, <1>7, <1>8, <1>9 DEF LogType
<1> QED
  BY <1>1, <1>4, <1>6, <1>7, <1>8, <1>10

\* Deleting a row moves those behind it one place forward.
LEMMA DeleteRow ==
  ASSUME LogType, NEW i \in DOMAIN rows, Delete(i)
  PROVE  /\ LogType' /\ DOMAIN rows' = 1..Len(rows) - 1 /\ Len(rows') = Len(rows) - 1
         /\ \A j \in DOMAIN rows' : rows'[j] = IF j < i THEN rows[j] ELSE rows[j + 1]
<1>1. /\ Len(rows) \in Nat /\ DOMAIN rows = 1..Len(rows)
      /\ \A j \in DOMAIN rows : rows[j] \in Rows
  BY RowsTyped
<1>2. rows' = [j \in 1..Len(rows) - 1 |-> IF j < i THEN rows[j] ELSE rows[j + 1]]
  BY DEF Delete
<1>3. Len(rows) - 1 \in Nat /\ i \in 1..Len(rows)
  BY <1>1
<1>4. \A j \in 1..Len(rows) - 1 : j \in DOMAIN rows /\ j + 1 \in DOMAIN rows
  BY <1>1
<1>5. DOMAIN rows' = 1..Len(rows) - 1
      /\ \A j \in 1..Len(rows) - 1 : rows'[j] = (IF j < i THEN rows[j] ELSE rows[j + 1]) /\ rows'[j] \in Rows
  BY <1>1, <1>2, <1>4
<1>6. rows' \in [1..Len(rows) - 1 -> Rows]
  BY <1>2, <1>5
<1>7. rows' \in Seq(Rows)
  BY <1>3, <1>6, SeqDef
<1>8. Len(rows') = Len(rows) - 1
  BY <1>3, <1>5, <1>7, LenProperties
<1>9. nextId' = nextId
  BY DEF Delete
<1>10. \A j \in 1..Len(rows) : /\ rows[j].id < nextId /\ rows[j].seen <= rows[j].id
                               /\ \A k \in 1..Len(rows) : j < k => rows[j].id < rows[k].id
  BY <1>1 DEF LogType
<1>11. ASSUME NEW j \in DOMAIN rows'
       PROVE  /\ rows'[j].id < nextId' /\ rows'[j].seen <= rows'[j].id
              /\ \A k \in DOMAIN rows' : j < k => rows'[j].id < rows'[k].id
  <2>1. j \in 1..Len(rows) - 1 /\ j \in 1..Len(rows) /\ j + 1 \in 1..Len(rows)
    BY <1>3, <1>5
  <2>2. rows'[j].id < nextId' /\ rows'[j].seen <= rows'[j].id
    BY <1>5, <1>9, <1>10, <2>1
  <2>3. ASSUME NEW k \in DOMAIN rows', j < k PROVE rows'[j].id < rows'[k].id
    <3>1. k \in 1..Len(rows) - 1 /\ k \in 1..Len(rows) /\ k + 1 \in 1..Len(rows)
      BY <1>3, <1>5
    <3>2. rows'[k] = IF k < i THEN rows[k] ELSE rows[k + 1]
      BY <1>5, <3>1
    <3>3. rows'[j] = IF j < i THEN rows[j] ELSE rows[j + 1]
      BY <1>5, <2>1
    <3>4. CASE j < i /\ k < i
      BY <1>10, <2>1, <2>3, <3>1, <3>2, <3>3, <3>4
    <3>5. CASE j < i /\ ~(k < i)
      <4>1. rows[j].id < rows[k + 1].id
        BY <1>10, <2>1, <2>3, <3>1
      <4> QED
        BY <3>2, <3>3, <3>5, <4>1
    <3>6. CASE ~(j < i)
      <4>1. ~(k < i) /\ j + 1 < k + 1
        BY <1>3, <2>1, <2>3, <3>1, <3>6
      <4>2. rows[j + 1].id < rows[k + 1].id
        BY <1>10, <2>1, <3>1, <4>1
      <4> QED
        BY <3>2, <3>3, <3>6, <4>1, <4>2
    <3> QED
      BY <3>4, <3>5, <3>6
  <2> QED
    BY <2>2, <2>3
<1>12. nextId \in Nat \ {0}
  BY DEF LogType
<1> QED
  BY <1>5, <1>7, <1>8, <1>9, <1>11, <1>12 DEF LogType

\* The row a call inserts, and the one a plain append_timeline does.
NewRow(a) ==
  [id |-> nextId, event |-> local[a].event, prev |-> local[a].prev,
   hash |-> compute_event_hash(local[a].prev, local[a].event), seen |-> local[a].seen]
PlainRow == [id |-> nextId, event |-> Event("unchained", <<>>),
             prev |-> NoHash, hash |-> NoHash, seen |-> nextId]

\* What the locals of a thread hold.
LEMMA LocalTyped ==
  ASSUME ActorType, NEW a \in Actors
  PROVE  /\ local[a] \in Locals /\ local[a].event \in Events /\ local[a].prev \in Hashes
         /\ local[a].seen \in Nat /\ local[a].current \in States /\ local[a].target \in States
         /\ local[a].event.data # Forged
<1>1. local[a] \in Locals
  BY DEF ActorType
<1>2. local[a].event \in Events
  BY <1>1 DEF Locals
<1>3. local[a].event.data \in Data
  BY <1>2 DEF Events
<1> QED
  BY <1>1, <1>2, <1>3, ForgedApart DEF Locals

\* An insert appends the row of its call.
LEMMA InsertRow ==
  ASSUME LogType, ActorType, NEW a \in Actors, Insert(a)
  PROVE  LogType' /\ Appended(NewRow(a)) /\ nextId' = nextId + 1
<1>1. /\ local[a].event \in Events /\ local[a].prev \in Hashes /\ local[a].seen \in 1..nextId
      /\ nextId \in Nat \ {0}
  BY LocalTyped DEF Insert, ActorType, LogType
<1>2. local[a].event \in [kind : Kinds, data : Data \cup {Forged}]
  BY <1>1 DEF Events
<1>3. compute_event_hash(local[a].prev, local[a].event) \in Hashes
  BY <1>1, <1>2, HashBinds
<1>4. local[a].seen \in Nat \ {0} /\ local[a].seen <= nextId
  BY <1>1
<1>5. NewRow(a) \in Rows /\ NewRow(a).id = nextId /\ NewRow(a).seen <= nextId
  BY <1>1, <1>2, <1>3, <1>4 DEF NewRow, Rows
<1>6. rows' = Append(rows, NewRow(a)) /\ nextId' = nextId + 1
  BY DEF Insert, NewRow
<1> QED
  BY <1>5, <1>6, AppendRow

\* append_timeline appends a row without hashes.
LEMMA PlainAppend ==
  ASSUME LogType, AppendTimeline
  PROVE  LogType' /\ Appended(PlainRow) /\ nextId' = nextId + 1
<1>1. nextId \in Nat \ {0}
  BY DEF LogType
<1>2. Event("unchained", <<>>) \in [kind : Kinds, data : Data \cup {Forged}]
  BY DEF Event, Kinds, Data
<1>3. PlainRow \in Rows /\ PlainRow.id = nextId /\ PlainRow.seen <= nextId
  BY <1>1, <1>2, NoHashTyped DEF PlainRow, Rows
<1>4. rows' = Append(rows, PlainRow) /\ nextId' = nextId + 1
  BY DEF AppendTimeline, PlainRow
<1> QED
  BY <1>3, <1>4, AppendRow

-----------------------------------------------------------------------------
(* The type invariant.                                                     *)

\* A thread's locals at rest are well typed.
LEMMA BlankTyped == Blank \in Locals
<1>1. Event("note", <<>>) \in Events
  BY DEF Event, Events, Kinds, Data
<1> QED
  BY <1>1, NoHashTyped DEF Blank, Locals, States

\* The last chained hash is a hash.
LEMMA LastHashTyped ==
  ASSUME LogType, NEW S \in SUBSET DOMAIN rows
  PROVE  /\ HashAt(S) \in Hashes
         /\ S # {} => Max(S) \in S /\ \A y \in S : y <= Max(S)
<1>1. /\ Len(rows) \in Nat /\ DOMAIN rows = 1..Len(rows)
      /\ \A j \in DOMAIN rows : rows[j] \in Rows
  BY RowsTyped
<1>2. S \in SUBSET Nat /\ \A y \in S : y <= Len(rows)
  BY <1>1
<1>3. S # {} => Max(S) \in S /\ \A y \in S : y <= Max(S)
  BY <1>1, <1>2, MaxOf
<1>4. S # {} => rows[Max(S)].hash \in Hashes
  BY <1>1, <1>3 DEF Rows
<1> QED
  BY <1>3, <1>4, NoHashTyped DEF HashAt

\* Every action keeps the variables in their types.
LEMMA TypeStep == TypeOK /\ [Next]_vars => TypeOK'
<1> SUFFICES ASSUME TypeOK, [Next]_vars PROVE TypeOK'
  OBVIOUS
<1>0. /\ LogType /\ ActorType /\ status \in States /\ attacks \in 0..MaxAttacks /\ deleted \in BOOLEAN
      /\ crashes \in 0..MaxCrashes /\ overlapped \in BOOLEAN /\ torn \in BOOLEAN
  BY DEF TypeOK
<1>a. nextId \in Nat \ {0} /\ \A a \in Actors : pc[a] = "insert" => local[a].seen \in 1..nextId
  BY <1>0 DEF LogType, ActorType
<1>1. ASSUME NEW w \in Writers, Begin(w) PROVE TypeOK'
  <2>1. LogType'
    BY <1>0, <1>1 DEF LogType, Begin
  <2>2. ActorType'
    BY <1>0, <1>1 DEF ActorType, Begin, Actors
  <2> QED
    BY <1>0, <1>1, <2>1, <2>2 DEF TypeOK, Begin, changeVars
<1>2. ASSUME NEW a \in Actors, ReadLast(a) PROVE TypeOK'
  <2>1. LogType'
    BY <1>0, <1>2 DEF LogType, ReadLast
  <2>2. LastHash \in Hashes
    BY <1>0, LastHashTyped DEF LastHash, Chained
  <2>3. /\ local' = [local EXCEPT ![a] = [@ EXCEPT !.prev = LastHash, !.seen = nextId]]
        /\ pc' = [pc EXCEPT ![a] = "insert"] /\ nextId' = nextId
    BY <1>0, <1>2 DEF ReadLast, ActorType
  <2> DEFINE new == [local[a] EXCEPT !.prev = LastHash, !.seen = nextId]
  <2>4. new \in Locals /\ new.seen = nextId
    BY <1>0, <1>a, <2>2, LocalTyped DEF Locals
  <2> HIDE DEF new
  <2>5. local' = [local EXCEPT ![a] = new]
    BY <2>3 DEF new
  <2>6. nextId \in 1..nextId
    BY <1>a
  <2>7. ActorType'
    BY <1>0, <2>3, <2>4, <2>5, <2>6 DEF ActorType
  <2> QED
    BY <1>0, <1>2, <2>1, <2>7 DEF TypeOK, ReadLast, changeVars
<1>3. ASSUME NEW a \in Actors, Insert(a) PROVE TypeOK'
  <2>1. LogType' /\ nextId' = nextId + 1
    BY <1>0, <1>3, InsertRow
  <2>2. \A n \in 1..nextId : n \in 1..nextId + 1
    BY <1>a
  <2>3. ActorType'
    BY <1>0, <1>3, <2>1, <2>2, BlankTyped DEF ActorType, Insert
  <2> QED
    BY <1>0, <1>3, <2>1, <2>3 DEF TypeOK, Insert, changeVars
<1>4. ASSUME AppendTimeline PROVE TypeOK'
  <2>1. LogType' /\ nextId' = nextId + 1
    BY <1>0, <1>4, PlainAppend
  <2>2. \A n \in 1..nextId : n \in 1..nextId + 1
    BY <1>a
  <2>3. ActorType'
    BY <1>0, <1>4, <2>1, <2>2 DEF ActorType, AppendTimeline, actorVars
  <2> QED
    BY <1>0, <1>4, <2>1, <2>3 DEF TypeOK, AppendTimeline, changeVars
<1>5. ASSUME NEW op \in Operators, NEW to \in States, ReadStatus(op, to) PROVE TypeOK'
  <2>1. LogType'
    BY <1>0, <1>5 DEF LogType, ReadStatus
  <2>2. op \in Actors
    BY DEF Actors
  <2> DEFINE new == [local[op] EXCEPT !.current = status, !.target = to]
  <2>3. new \in Locals
    BY <1>0, <2>2, LocalTyped DEF Locals
  <2>4. local' = [local EXCEPT ![op] = new] /\ pc' = [pc EXCEPT ![op] = "check"] /\ nextId' = nextId
    BY <1>0, <1>5, <2>2 DEF ReadStatus, ActorType
  <2> HIDE DEF new
  <2>5. ActorType'
    BY <1>0, <2>2, <2>3, <2>4 DEF ActorType
  <2> QED
    BY <1>0, <1>5, <2>1, <2>5 DEF TypeOK, ReadStatus, changeVars
<1>6. ASSUME NEW op \in Operators, Check(op) PROVE TypeOK'
  <2>1. LogType'
    BY <1>0, <1>6 DEF LogType, Check
  <2>2. op \in Actors
    BY DEF Actors
  <2>3. Event("illegal_transition_rejected", Change(op)) \in Events
    BY <1>0, <2>2, LocalTyped DEF Event, Change, Events, Kinds, Data
  <2> DEFINE new == [local[op] EXCEPT !.event = Event("illegal_transition_rejected", Change(op))]
  <2>4. new \in Locals
    BY <1>0, <2>2, <2>3, LocalTyped DEF Locals
  <2>5. \/ local' = local /\ pc' = [pc EXCEPT ![op] = "update"]
        \/ local' = [local EXCEPT ![op] = new] /\ pc' = [pc EXCEPT ![op] = "read"]
    BY <1>0, <1>6, <2>2 DEF Check, ActorType
  <2> HIDE DEF new
  <2>6. ActorType'
    BY <1>0, <1>6, <2>2, <2>4, <2>5 DEF ActorType, Check
  <2> QED
    BY <1>0, <1>6, <2>1, <2>6 DEF TypeOK, Check, changeVars
<1>7. ASSUME NEW op \in Operators, Update(op) PROVE TypeOK'
  <2>1. LogType'
    BY <1>0, <1>7 DEF LogType, Update
  <2>2. op \in Actors
    BY DEF Actors
  <2>3. Event("status_changed", Change(op)) \in Events
    BY <1>0, <2>2, LocalTyped DEF Event, Change, Events, Kinds, Data
  <2> DEFINE new == [local[op] EXCEPT !.event = Event("status_changed", Change(op))]
  <2>4. new \in Locals
    BY <1>0, <2>2, <2>3, LocalTyped DEF Locals
  <2>5. local' = [local EXCEPT ![op] = new] /\ pc' = [pc EXCEPT ![op] = "read"]
    BY <1>0, <1>7, <2>2 DEF Update, ActorType
  <2> HIDE DEF new
  <2>6. ActorType'
    BY <1>0, <1>7, <2>2, <2>4, <2>5 DEF ActorType, Update
  <2>7. status' \in States
    BY <1>0, <1>7, <2>2, LocalTyped DEF Update
  <2> QED
    BY <1>0, <1>7, <2>1, <2>6, <2>7 DEF TypeOK, Update
<1>8. ASSUME NEW i \in DOMAIN rows, Tamper(i) PROVE TypeOK'
  <2>1. LogType'
    BY <1>0, <1>8, TamperRow
  <2>2. ActorType'
    BY <1>0, <1>8 DEF ActorType, Tamper, actorVars
  <2>3. attacks' \in 0..MaxAttacks
    BY <1>0, <1>8, LogAssumption DEF Tamper
  <2> QED
    BY <1>0, <1>8, <2>1, <2>2, <2>3 DEF TypeOK, Tamper, changeVars
<1>9. ASSUME NEW i \in DOMAIN rows, Delete(i) PROVE TypeOK'
  <2>1. LogType'
    BY <1>0, <1>9, DeleteRow
  <2>2. ActorType'
    BY <1>0, <1>9 DEF ActorType, Delete, actorVars
  <2>3. attacks' \in 0..MaxAttacks
    BY <1>0, <1>9, LogAssumption DEF Delete
  <2> QED
    BY <1>0, <1>9, <2>1, <2>2, <2>3 DEF TypeOK, Delete, changeVars
<1>10. ASSUME UNCHANGED vars PROVE TypeOK'
  BY <1>0, <1>10 DEF TypeOK, LogType, ActorType, vars, actorVars, changeVars
<1>11. ASSUME Crash PROVE TypeOK'
  <2>1. LogType'
    BY <1>0, <1>11 DEF LogType, Crash
  <2>2. ActorType'
    BY <1>11, BlankTyped DEF ActorType, Crash
  <2>3. crashes' \in 0..MaxCrashes
    BY <1>0, <1>11, LogAssumption DEF Crash
  <2>4. torn' \in BOOLEAN
    BY <1>0, <1>11 DEF Crash
  <2> QED
    BY <1>0, <1>11, <2>1, <2>2, <2>3, <2>4 DEF TypeOK, Crash
<1> QED
  BY <1>1, <1>2, <1>3, <1>4, <1>5, <1>6, <1>7, <1>8, <1>9, <1>10, <1>11 DEF Next

\* Every reachable state of the timeline and of its threads has its type; the
\* rows stay in the order of their ids whatever is deleted.
THEOREM TypeCorrect == Spec => []TypeOK
<1>1. Init => TypeOK
  <2> SUFFICES ASSUME Init PROVE TypeOK
    OBVIOUS
  <2>1. LogType
    BY EmptySeq DEF Init, LogType
  <2>2. ActorType
    BY BlankTyped DEF Init, ActorType
  <2>3. attacks = 0 /\ 0 \in 0..MaxAttacks /\ crashes = 0 /\ 0 \in 0..MaxCrashes
    BY LogAssumption DEF Init
  <2>4. status \in States /\ deleted \in BOOLEAN /\ overlapped \in BOOLEAN /\ torn \in BOOLEAN
    BY DEF Init, States
  <2> QED
    BY <2>1, <2>2, <2>3, <2>4 DEF TypeOK
<1> QED
  BY <1>1, TypeStep, PTL DEF Spec

-----------------------------------------------------------------------------
(* Rewritten rows are found.                                               *)

\* A row's contents, with and without its payload rewritten, have hashes of
\* their own.
LEMMA RowHash ==
  ASSUME TypeOK, RowInv, NEW i \in DOMAIN rows, rows[i].event.data # Forged,
         rows[i].hash = compute_event_hash(rows[i].prev, rows[i].event)
  PROVE  /\ rows[i].hash # rows[i].prev /\ rows[i].hash # genesis_hash
         /\ \A f \in [kind : Kinds, data : Data \cup {Forged}] :
              rows[i].hash = compute_event_hash(rows[i].prev, f) => rows[i].event = f
<1>1. rows[i] \in Rows
  BY RowsTyped DEF TypeOK
<1>2. rows[i].event \in Events /\ rows[i].prev \in Hashes
  BY <1>1 DEF Rows, Events
<1>3. rows[i].event \in [kind : Kinds, data : Data \cup {Forged}]
  BY <1>2 DEF Events
<1> QED
  BY <1>2, <1>3, HashBinds

\* Every action keeps the rows sound.
LEMMA RowStep == TypeOK /\ RowInv /\ [Next]_vars => RowInv'
<1> SUFFICES ASSUME TypeOK, RowInv, [Next]_vars PROVE RowInv'
  OBVIOUS
<1>0. LogType /\ ActorType
  BY DEF TypeOK
<1>r. /\ Len(rows) \in Nat /\ DOMAIN rows = 1..Len(rows)
      /\ \A j \in DOMAIN rows : rows[j] \in Rows
  BY <1>0, RowsTyped
<1>1. ASSUME NEW a \in Actors, Insert(a) PROVE RowInv'
  <2>1. Appended(NewRow(a))
    BY <1>0, <1>1, InsertRow
  <2>2. /\ NewRow(a).event.data # Forged
        /\ NewRow(a).hash = compute_event_hash(NewRow(a).prev, NewRow(a).event)
    BY <1>0, LocalTyped DEF NewRow
  <2>3. \A i \in DOMAIN rows' : i \in DOMAIN rows \/ i = Len(rows) + 1
    BY <1>r, <2>1 DEF Appended
  <2>4. rows'[Len(rows) + 1] = NewRow(a) /\ \A i \in DOMAIN rows : rows'[i] = rows[i]
    BY <2>1 DEF Appended
  <2> HIDE DEF NewRow
  <2> QED
    BY <2>2, <2>3, <2>4 DEF RowInv, compute_event_hash
<1>2. ASSUME AppendTimeline PROVE RowInv'
  <2>1. Appended(PlainRow)
    BY <1>0, <1>2, PlainAppend
  <2>2. PlainRow.event.data # Forged /\ PlainRow.hash = NoHash /\ PlainRow.prev = NoHash
    BY ForgedApart DEF PlainRow, Event, Data
  <2> QED
    BY SMTT(30), <1>r, <2>1, <2>2 DEF RowInv, Appended, compute_event_hash
<1>3. ASSUME NEW i \in DOMAIN rows, Tamper(i) PROVE RowInv'
  <2>1. /\ DOMAIN rows' = DOMAIN rows
        /\ rows'[i].prev = rows[i].prev /\ rows'[i].hash = rows[i].hash
        /\ \A j \in DOMAIN rows : j # i => rows'[j] = rows[j]
        /\ rows'[i].event = [rows[i].event EXCEPT !.data = Forged]
        /\ rows'[i].event.data = Forged
    BY <1>0, <1>3, TamperRow
  <2>2. rows[i].event \in [kind : Kinds, data : Data \cup {Forged}] /\ rows[i].prev \in Hashes
    BY <1>r DEF Rows
  <2>3. rows'[i].event \in [kind : Kinds, data : Data \cup {Forged}]
    BY <2>1, <2>2
  <2>4. rows'[i].hash # compute_event_hash(rows'[i].prev, rows'[i].event)
    <3>1. CASE rows[i].event.data = Forged
      <4>1. rows'[i].event = rows[i].event
        BY <2>1, <2>2, <3>1
      <4> QED
        BY <2>1, <3>1, <4>1 DEF RowInv, compute_event_hash
    <3>2. CASE rows[i].event.data # Forged /\ rows[i].hash = compute_event_hash(rows[i].prev, rows[i].event)
      BY <2>1, <2>3, <3>2, RowHash DEF compute_event_hash
    <3>3. CASE rows[i].hash = NoHash /\ rows[i].prev = NoHash
      BY <2>1, <2>3, <3>3, NullApart
    <3> QED
      BY <3>1, <3>2, <3>3 DEF RowInv
  <2>5. ASSUME NEW j \in DOMAIN rows, j # i
        PROVE  IF rows'[j].event.data = Forged
               THEN rows'[j].hash # compute_event_hash(rows'[j].prev, rows'[j].event)
               ELSE \/ rows'[j].hash = compute_event_hash(rows'[j].prev, rows'[j].event)
                    \/ rows'[j].hash = NoHash /\ rows'[j].prev = NoHash
    <3>1. rows'[j] = rows[j]
      BY <2>1, <2>5
    <3> QED
      BY <3>1 DEF RowInv, compute_event_hash
  <2> QED
    BY <2>1, <2>4, <2>5 DEF RowInv, compute_event_hash
<1>4. ASSUME NEW i \in DOMAIN rows, Delete(i) PROVE RowInv'
  <2>1. /\ DOMAIN rows' = 1..Len(rows) - 1
        /\ \A j \in DOMAIN rows' : rows'[j] = IF j < i THEN rows[j] ELSE rows[j + 1]
    BY <1>0, <1>4, DeleteRow
  <2>2. \A j \in 1..Len(rows) - 1 : j \in DOMAIN rows /\ j + 1 \in DOMAIN rows
    BY <1>r
  <2> QED
    BY ZenonT(60), <2>1, <2>2 DEF RowInv, compute_event_hash
<1>5. ASSUME UNCHANGED rows PROVE RowInv'
  BY <1>5 DEF RowInv, compute_event_hash
<1> QED
  BY <1>1, <1>2, <1>3, <1>4, <1>5 DEF Next, Begin, ReadLast, ReadStatus, Check, Update, Crash, vars

\* The rows are sound in every reachable state.
LEMMA RowAlways == Spec => [](TypeOK /\ RowInv)
<1>1. Init => RowInv
  BY DEF Init, RowInv
<1> QED
  BY <1>1, RowStep, TypeCorrect, PTL DEF Spec

\* verify stops at the first broken row.
LEMMA CorruptFirst ==
  ASSUME LogType, NEW i \in DOMAIN rows, Broken(i)
  PROVE  ~VerdictOk /\ CorruptAt \in DOMAIN rows /\ Broken(CorruptAt) /\ CorruptAt <= i
<1> DEFINE B == {j \in DOMAIN rows : Broken(j)}
<1>1. B \in SUBSET Nat /\ i \in B
  BY RowsTyped
<1>2. Min(B) \in B /\ Min(B) <= i
  BY <1>1, MinOf
<1> QED
  BY <1>2 DEF VerdictOk, CorruptAt

\* verify reports every rewritten row, or one before it: no later append, race
\* or deletion hides it (append and verify of the hash chain).
THEOREM TamperSafety == Spec => []TamperDetected
<1>1. TypeOK /\ RowInv => TamperDetected
  <2> SUFFICES ASSUME TypeOK, RowInv, NEW i \in DOMAIN rows, rows[i].event.data = Forged
               PROVE  ~VerdictOk /\ CorruptAt <= i
    BY DEF TamperDetected
  <2>1. Broken(i)
    BY DEF RowInv, Broken
  <2> QED
    BY <2>1, CorruptFirst DEF TypeOK
<1> QED
  BY <1>1, RowAlways, PTL

\* A step that leaves the rows where they are, appending at most, leaves broken
\* rows broken.
LEMMA BrokenStays ==
  ASSUME TypeOK, RowInv, RowInv', Next, Len(rows') >= Len(rows),
         NEW i \in DOMAIN rows, Broken(i)
  PROVE  i \in DOMAIN rows' /\ Broken(i)'
<1>0. LogType /\ ActorType
  BY DEF TypeOK
<1>r. Len(rows) \in Nat /\ DOMAIN rows = 1..Len(rows)
  BY <1>0, RowsTyped
<1>i. i = 1 \/ i - 1 \in DOMAIN rows
  BY <1>r
<1>1. ASSUME NEW row, Appended(row) PROVE i \in DOMAIN rows' /\ Broken(i)'
  <2>1. i \in DOMAIN rows' /\ rows'[i] = rows[i]
    BY <1>r, <1>1 DEF Appended
  <2>2. i # 1 => rows'[i - 1] = rows[i - 1]
    BY <1>i, <1>1 DEF Appended
  <2> QED
    BY <2>1, <2>2 DEF Broken, compute_event_hash, genesis_hash
<1>2. ASSUME NEW k \in DOMAIN rows, Tamper(k) PROVE i \in DOMAIN rows' /\ Broken(i)'
  <2>1. /\ DOMAIN rows' = DOMAIN rows
        /\ \A j \in DOMAIN rows : rows'[j].prev = rows[j].prev /\ rows'[j].hash = rows[j].hash
        /\ \A j \in DOMAIN rows : j # k => rows'[j] = rows[j]
        /\ rows'[k].event.data = Forged
    BY <1>0, <1>2, TamperRow
  <2>2. CASE i = k
    BY <2>1, <2>2 DEF RowInv, Broken
  <2>3. CASE i # k
    <3>1. rows'[i] = rows[i] /\ (i # 1 => rows'[i - 1].hash = rows[i - 1].hash)
      BY <1>i, <2>1, <2>3
    <3> QED
      BY <2>1, <3>1 DEF Broken, compute_event_hash, genesis_hash
  <2> QED
    BY <2>2, <2>3
<1>3. ASSUME NEW k \in DOMAIN rows, Delete(k) PROVE FALSE
  <2>1. Len(rows') = Len(rows) - 1
    BY <1>0, <1>3, DeleteRow
  <2> QED
    BY <1>r, <2>1
<1>4. ASSUME UNCHANGED rows PROVE i \in DOMAIN rows' /\ Broken(i)'
  BY <1>4 DEF Broken, compute_event_hash, genesis_hash
<1>5. \A a \in Actors : Insert(a) => Appended(NewRow(a))
  BY <1>0, InsertRow
<1>6. AppendTimeline => Appended(PlainRow)
  BY <1>0, PlainAppend
<1> QED
  BY <1>1, <1>2, <1>3, <1>4, <1>5, <1>6 DEF Next, Begin, ReadLast, ReadStatus, Check, Update, Crash

\* Taking a row other than the newest out of a timeline that verifies breaks the
\* row that followed it.
LEMMA GapBroken ==
  ASSUME TypeOK, RowInv, VerdictOk, NEW i \in DOMAIN rows, Delete(i), i # Len(rows)
  PROVE  i \in DOMAIN rows' /\ Broken(i)'
<1>0. LogType
  BY DEF TypeOK
<1>r. Len(rows) \in Nat /\ DOMAIN rows = 1..Len(rows)
  BY <1>0, RowsTyped
<1>1. /\ DOMAIN rows' = 1..Len(rows) - 1
      /\ \A j \in DOMAIN rows' : rows'[j] = IF j < i THEN rows[j] ELSE rows[j + 1]
  BY <1>0, DeleteRow
<1>2. /\ i \in DOMAIN rows' /\ i + 1 \in DOMAIN rows /\ i + 1 # 1 /\ ~(i < i) /\ (i + 1) - 1 = i
  BY <1>r, <1>1
<1>3. rows'[i] = rows[i + 1]
  BY <1>1, <1>2
<1>4. ~Broken(i) /\ ~Broken(i + 1)
  BY <1>2 DEF VerdictOk
<1>5. rows[i + 1].prev = rows[i].hash /\ rows[i].hash = compute_event_hash(rows[i].prev, rows[i].event)
  BY <1>2, <1>4 DEF Broken
<1>6. rows[i].event.data # Forged
  BY <1>5 DEF RowInv
<1>7. rows[i].hash # rows[i].prev /\ rows[i].hash # genesis_hash
  BY <1>5, <1>6, RowHash
<1>8. CASE i = 1
  BY <1>2, <1>3, <1>5, <1>7, <1>8 DEF Broken, genesis_hash
<1>9. CASE i # 1
  <2>1. i - 1 \in DOMAIN rows' /\ i - 1 < i
    BY <1>r, <1>1, <1>2, <1>9
  <2>2. rows'[i - 1] = rows[i - 1]
    BY <1>1, <2>1
  <2>3. rows[i].prev = rows[i - 1].hash
    BY <1>4, <1>9 DEF Broken
  <2> QED
    BY <1>2, <1>3, <1>5, <1>7, <1>9, <2>2, <2>3 DEF Broken
<1> QED
  BY <1>8, <1>9

\* The newest row may be taken away unnoticed: what is left are the rows before it.
LEMMA LastCut ==
  ASSUME TypeOK, NEW i \in DOMAIN rows, Delete(i), i = Len(rows)
  PROVE  rows' = SubSeq(rows, 1, Len(rows) - 1)
<1>0. LogType
  BY DEF TypeOK
<1>r. Len(rows) \in Nat /\ DOMAIN rows = 1..Len(rows) /\ rows \in Seq(Rows)
  BY <1>0, RowsTyped DEF LogType
<1>1. Len(rows) - 1 \in 0..Len(rows)
  BY <1>r
<1>2. SubSeq(rows, 1, Len(rows) - 1) = [j \in 1..Len(rows) - 1 |-> rows[j]]
  BY <1>r, <1>1, SubSeqRestrict DEF Restrict
<1>3. \A j \in 1..Len(rows) - 1 : j < i
  BY <1>r
<1>4. rows' = [j \in 1..Len(rows) - 1 |-> rows[j]]
  BY <1>3 DEF Delete
<1> QED
  BY <1>2, <1>4

\* Appending never repairs a timeline that does not verify nor moves the reported
\* place back, and a row other than the newest cannot be taken out of one that
\* verifies without verify noticing.
THEOREM DamageSafety == Spec => DamageShows
<1> DEFINE Stays == ~VerdictOk /\ Len(rows') >= Len(rows) => ~VerdictOk' /\ CorruptAt' <= CorruptAt
           Noticed == VerdictOk /\ Len(rows') < Len(rows) /\ rows' # SubSeq(rows, 1, Len(rows) - 1)
                        => ~VerdictOk'
<1> DEFINE Found == LogType => \A i \in DOMAIN rows : Broken(i) => ~VerdictOk /\ CorruptAt <= i
<1>f. Found
  BY CorruptFirst
<1> HIDE DEF Found
<1>0. Found'
  BY <1>f, PTL
<1>1. ASSUME TypeOK, RowInv, TypeOK', RowInv', Next PROVE Stays
  <2> SUFFICES ASSUME ~VerdictOk, Len(rows') >= Len(rows) PROVE ~VerdictOk' /\ CorruptAt' <= CorruptAt
    OBVIOUS
  <2>1. CorruptAt \in DOMAIN rows /\ Broken(CorruptAt)
    BY <1>1, CorruptFirst DEF VerdictOk, TypeOK
  <2>2. \A i \in DOMAIN rows : Broken(i) => i \in DOMAIN rows' /\ Broken(i)'
    BY <1>1, BrokenStays
  <2>3. PICK k \in DOMAIN rows : k = CorruptAt
    BY <2>1
  <2>4. k \in DOMAIN rows' /\ Broken(k)'
    BY <2>1, <2>2, <2>3
  <2> QED
    BY <1>0, <1>1, <2>3, <2>4 DEF TypeOK, Found
<1>2. ASSUME TypeOK, RowInv, TypeOK', RowInv', Next PROVE Noticed
  <2> SUFFICES ASSUME VerdictOk, Len(rows') < Len(rows), rows' # SubSeq(rows, 1, Len(rows) - 1)
               PROVE  ~VerdictOk'
    OBVIOUS
  <2>0. LogType /\ ActorType /\ Len(rows) \in Nat
    BY <1>1, <1>2, RowsTyped DEF TypeOK
  <2>1. ASSUME NEW i \in DOMAIN rows, Delete(i) PROVE ~VerdictOk'
    <3>1. i # Len(rows)
      BY <1>2, <2>1, LastCut
    <3> QED
      BY <1>2, <2>1, <3>1, GapBroken DEF VerdictOk
  <2>2. ASSUME NEW i \in DOMAIN rows, Tamper(i) PROVE FALSE
    <3>1. Len(rows') = Len(rows)
      BY <2>0, <2>2, TamperRow
    <3> QED
      BY <2>0, <3>1
  <2>3. ASSUME NEW row, Appended(row) PROVE FALSE
    BY <2>0, <2>3 DEF Appended
  <2>4. ASSUME UNCHANGED rows PROVE FALSE
    BY <2>0, <2>4
  <2>5. \A a \in Actors : Insert(a) => Appended(NewRow(a))
    BY <2>0, InsertRow
  <2>6. AppendTimeline => Appended(PlainRow)
    BY <2>0, PlainAppend
  <2> QED
    BY <1>2, <2>1, <2>2, <2>3, <2>4, <2>5, <2>6 DEF Next, Begin, ReadLast, ReadStatus, Check, Update, Crash
<1>3. TypeOK /\ RowInv /\ (TypeOK /\ RowInv)' /\ [Next]_vars => [Stays /\ Noticed]_vars
  BY <1>1, <1>2
<1> QED
  BY <1>3, RowAlways, PTL DEF Spec, DamageShows

-----------------------------------------------------------------------------
(* Only a race forks the chain.                                            *)

\* The rows there are keep everything but their payload.
Kept == \A i \in DOMAIN rows : /\ i \in DOMAIN rows'
                               /\ rows'[i].id = rows[i].id /\ rows'[i].seen = rows[i].seen
                               /\ rows'[i].prev = rows[i].prev /\ rows'[i].hash = rows[i].hash

\* Then what they give as the last hash is kept, too.
LEMMA HashKept ==
  ASSUME LogType, Kept, NEW S \in SUBSET DOMAIN rows
  PROVE  HashAt(S)' = HashAt(S)
<1>1. S # {} => Max(S) \in S
  BY LastHashTyped
<1> QED
  BY <1>1 DEF HashAt, Kept, genesis_hash

\* What a thread could see stays what it was: new rows have later ids.
LEMMA SeenKept ==
  ASSUME LogType, Kept, NEW n, \A i \in DOMAIN rows' \ DOMAIN rows : ~(rows'[i].id < n)
  PROVE  HashAt(Seen(Chained, n))' = HashAt(Seen(Chained, n))
<1> DEFINE S == Seen(Chained, n)
<1>1. S' = S
  BY DEF Seen, Chained, Kept, NoHash, Event
<1>2. S \in SUBSET DOMAIN rows
  BY DEF Seen, Chained
<1>3. PICK T : T = S
  OBVIOUS
<1>4. HashAt(T)' = HashAt(T)
  BY <1>2, <1>3, HashKept
<1> QED
  BY <1>1, <1>3, <1>4 DEF HashAt, genesis_hash

\* A row still continues what it continued.
LEMMA ContinuesKept ==
  ASSUME LogType, LogType', Kept, NEW j \in DOMAIN rows, Continues(j)
  PROVE  Continues(j)'
<1>0. DOMAIN rows = 1..Len(rows) /\ Len(rows) \in Nat
  BY RowsTyped
<1>1. Before(j)' = Before(j)
  <2>1. \A i \in DOMAIN rows : i \in DOMAIN rows' /\ rows'[i].hash = rows[i].hash
    BY DEF Kept
  <2>2. Before(j) = {i \in DOMAIN rows : rows[i].hash # NoHash /\ i < j}
    BY DEF Before, Chained
  <2>3. Before(j)' = {i \in DOMAIN rows' : rows'[i].hash # NoHash /\ i < j}
    BY DEF Before, Chained, NoHash, Event
  <2>4. \A i \in DOMAIN rows' : i < j => i \in DOMAIN rows
    <3>1. Len(rows') \in Nat /\ DOMAIN rows' = 1..Len(rows')
      BY LenProperties DEF LogType
    <3> QED
      BY <1>0, <3>1
  <2> QED
    BY <2>1, <2>2, <2>3, <2>4
<1>2. Before(j) \in SUBSET DOMAIN rows
  BY DEF Before, Chained
<1>3. PICK T : T = Before(j)
  OBVIOUS
<1>4. HashAt(T)' = HashAt(T)
  BY <1>2, <1>3, HashKept
<1>5. Before(j) # {} => Max(Before(j)) \in DOMAIN rows
  BY <1>2, LastHashTyped
<1>6. HashAt(Before(j))' = HashAt(Before(j))
  BY <1>1, <1>3, <1>4 DEF HashAt, genesis_hash
<1> QED
  BY <1>1, <1>5, <1>6 DEF Continues, Kept

\* The rows a step leaves keep everything but their payload, and new rows have
\* ids nobody could have seen.
LEMMA StepKeeps ==
  ASSUME TypeOK, [Next]_vars, ~deleted'
  PROVE  /\ ~deleted /\ Kept
         /\ \A i \in DOMAIN rows' \ DOMAIN rows : rows'[i].id = nextId
<1>0. LogType /\ ActorType /\ Len(rows) \in Nat /\ DOMAIN rows = 1..Len(rows)
  BY RowsTyped DEF TypeOK
<1>1. ASSUME NEW row, row.id = nextId, Appended(row)
      PROVE  Kept /\ \A i \in DOMAIN rows' \ DOMAIN rows : rows'[i].id = nextId
  <2>1. \A i \in DOMAIN rows' \ DOMAIN rows : i = Len(rows) + 1
    BY <1>0, <1>1 DEF Appended
  <2> QED
    BY <1>0, <1>1, <2>1 DEF Appended, Kept
<1>2. ASSUME NEW a \in Actors, Insert(a)
      PROVE  ~deleted /\ Kept /\ \A i \in DOMAIN rows' \ DOMAIN rows : rows'[i].id = nextId
  <2>1. Appended(NewRow(a)) /\ NewRow(a).id = nextId
    BY <1>0, <1>2, InsertRow DEF NewRow
  <2> QED
    BY <1>1, <1>2, <2>1 DEF Insert
<1>3. ASSUME AppendTimeline
      PROVE  ~deleted /\ Kept /\ \A i \in DOMAIN rows' \ DOMAIN rows : rows'[i].id = nextId
  <2>1. Appended(PlainRow) /\ PlainRow.id = nextId
    BY <1>0, <1>3, PlainAppend DEF PlainRow
  <2> QED
    BY <1>1, <1>3, <2>1 DEF AppendTimeline
<1>4. ASSUME NEW i \in DOMAIN rows, Tamper(i)
      PROVE  ~deleted /\ Kept /\ DOMAIN rows' = DOMAIN rows
  <2>1. /\ DOMAIN rows' = DOMAIN rows
        /\ \A j \in DOMAIN rows :
             /\ rows'[j].id = rows[j].id /\ rows'[j].seen = rows[j].seen
             /\ rows'[j].prev = rows[j].prev /\ rows'[j].hash = rows[j].hash
    BY <1>0, <1>4, TamperRow
  <2> QED
    BY <1>4, <2>1 DEF Tamper, Kept
<1>5. ASSUME UNCHANGED <<rows, deleted>>
      PROVE  ~deleted /\ Kept /\ DOMAIN rows' = DOMAIN rows
  BY <1>5 DEF Kept
<1>6. \A i \in DOMAIN rows : ~Delete(i)
  BY DEF Delete
<1> QED
  BY <1>2, <1>3, <1>4, <1>5, <1>6 DEF Next, Begin, ReadLast, ReadStatus, Check, Update, Crash, vars

\* The last hash a thread reads is that of the rows it can see.
LEMMA LastSeen == LogType => LastHash = HashAt(Seen(Chained, nextId))
<1> SUFFICES ASSUME LogType PROVE Seen(Chained, nextId) = Chained
  BY DEF LastHash
<1> QED
  BY DEF Seen, Chained, LogType

\* A row inserted now continues the last chained one, or one its writer saw
\* before that was inserted.
LEMMA InsertContinues ==
  ASSUME LogType, NEW n \in Nat
  PROVE  \/ HashAt(Seen(Chained, n)) = HashAt(Chained)
         \/ Chained # {} /\ n <= rows[Max(Chained)].id
<1>0. DOMAIN rows = 1..Len(rows) /\ Len(rows) \in Nat /\ \A i \in DOMAIN rows : rows[i] \in Rows
  BY RowsTyped
<1>1. Chained \in SUBSET DOMAIN rows /\ Seen(Chained, n) \in SUBSET DOMAIN rows
  BY DEF Chained, Seen
<1>2. CASE Chained = {}
  BY <1>2 DEF Seen
<1>3. CASE Chained # {}
  <2>1. Max(Chained) \in Chained /\ \A y \in Chained : y <= Max(Chained)
    BY <1>1, <1>3, LastHashTyped
  <2>2. rows[Max(Chained)].id \in Nat
    BY <1>0, <1>1, <2>1 DEF Rows
  <2>3. CASE rows[Max(Chained)].id < n
    <3>1. Max(Chained) \in Seen(Chained, n)
      BY <2>1, <2>3 DEF Seen
    <3>2. Max(Seen(Chained, n)) \in Seen(Chained, n) /\ \A y \in Seen(Chained, n) : y <= Max(Seen(Chained, n))
      BY <1>1, <3>1, LastHashTyped
    <3>3. Max(Seen(Chained, n)) \in Chained
      BY <3>2 DEF Seen
    <3>4. Max(Seen(Chained, n)) \in Nat /\ Max(Chained) \in Nat
      BY <1>0, <1>1, <2>1, <3>3
    <3>5. Max(Seen(Chained, n)) = Max(Chained)
      BY <2>1, <3>1, <3>2, <3>3, <3>4
    <3> QED
      BY <1>3, <3>1, <3>5 DEF HashAt
  <2>4. CASE ~(rows[Max(Chained)].id < n)
    BY <1>3, <2>2, <2>4
  <2> QED
    BY <2>3, <2>4
<1> QED
  BY <1>2, <1>3

\* Every action keeps the forks explained.
LEMMA ForkStep == TypeOK /\ ForkInv /\ [Next]_vars => ForkInv'
<1> SUFFICES ASSUME TypeOK, TypeOK', ForkInv, [Next]_vars, ~deleted' PROVE ForkInv'
  BY TypeStep DEF ForkInv, ReaderInv, ForkNeedsRace
<1>0. LogType /\ ActorType /\ LogType' /\ ActorType'
  BY DEF TypeOK
<1>r. DOMAIN rows = 1..Len(rows) /\ Len(rows) \in Nat /\ nextId \in Nat
  BY <1>0, RowsTyped DEF LogType
<1>k. ~deleted /\ Kept /\ \A i \in DOMAIN rows' \ DOMAIN rows : rows'[i].id = nextId
  BY StepKeeps
<1>i. /\ \A a \in Actors : pc[a] = "insert" => local[a].prev = HashAt(Seen(Chained, local[a].seen))
      /\ \A j \in Chained : Continues(j)
  BY <1>k DEF ForkInv, ReaderInv, ForkNeedsRace
<1>s. ASSUME NEW n \in 1..nextId PROVE HashAt(Seen(Chained, n))' = HashAt(Seen(Chained, n))
  <2>1. \A i \in DOMAIN rows' \ DOMAIN rows : ~(rows'[i].id < n)
    BY <1>r, <1>k
  <2> QED
    BY <1>0, <1>k, <2>1, SeenKept
<1>1. \A j \in DOMAIN rows : j \in Chained' => Continues(j)'
  <2> SUFFICES ASSUME NEW j \in DOMAIN rows, j \in Chained' PROVE Continues(j)'
    OBVIOUS
  <2>1. j \in Chained
    BY <1>k DEF Chained, Kept, NoHash, Event
  <2> QED
    BY <1>0, <1>i, <1>k, <2>1, ContinuesKept
<1> DEFINE Reads(a) == pc[a] = "insert" => local[a].prev = HashAt(Seen(Chained, local[a].seen))
<1>2. ASSUME NEW a \in Actors, pc[a] = "insert", local'[a] = local[a] PROVE Reads(a)'
  <2>1. PICK n \in 1..nextId : n = local[a].seen
    BY <1>0, <1>2 DEF ActorType
  <2>2. HashAt(Seen(Chained, n))' = HashAt(Seen(Chained, n))
    BY <1>s
  <2>3. local[a].prev = HashAt(Seen(Chained, n))
    BY <1>2, <1>i, <2>1
  <2>4. Seen(Chained, local[a].seen)' = Seen(Chained, n)'
    BY <1>2, <2>1 DEF Seen
  <2>5. HashAt(Seen(Chained, local[a].seen))' = HashAt(Seen(Chained, n))'
    BY <2>4 DEF HashAt
  <2> QED
    BY <1>2, <2>2, <2>3, <2>5
<1>3. ASSUME NEW a \in Actors, pc'[a] = "insert" => pc[a] = "insert" /\ local'[a] = local[a] PROVE Reads(a)'
  BY <1>2, <1>3
<1>4. ASSUME NEW b \in Actors, ReadLast(b), NEW a \in Actors PROVE Reads(a)'
  <2>1. CASE a # b
    <3>1. pc'[a] = pc[a] /\ local'[a] = local[a]
      BY <1>0, <1>4, <2>1 DEF ReadLast, ActorType
    <3> QED
      BY <1>3, <3>1
  <2>2. CASE a = b
    <3>1. local'[a].prev = LastHash /\ local'[a].seen = nextId
      BY <1>0, <1>4, <2>2 DEF ReadLast, ActorType, Locals
    <3>2. PICK n \in 1..nextId : n = nextId
      BY <1>0 DEF LogType
    <3>3. HashAt(Seen(Chained, n))' = HashAt(Seen(Chained, n))
      BY <1>s
    <3>4. LastHash = HashAt(Seen(Chained, n))
      BY <1>0, <3>2, LastSeen
    <3>5. Seen(Chained, local[a].seen)' = Seen(Chained, n)'
      BY <3>1, <3>2 DEF Seen
    <3>6. HashAt(Seen(Chained, local[a].seen))' = HashAt(Seen(Chained, n))'
      BY <3>5 DEF HashAt
    <3> QED
      BY <3>1, <3>3, <3>4, <3>6
  <2> QED
    BY <2>1, <2>2
<1>5. ASSUME NEW a \in Actors PROVE Reads(a)'
  <2>1. \A w \in Writers : Begin(w) => (pc'[a] = "insert" => pc[a] = "insert" /\ local'[a] = local[a])
    BY <1>0 DEF Begin, ActorType, Actors
  <2>2. \A b \in Actors : Insert(b) => (pc'[a] = "insert" => pc[a] = "insert" /\ local'[a] = local[a])
    BY <1>0 DEF Insert, ActorType
  <2>3. \A op \in Operators, to \in States :
          ReadStatus(op, to) => (pc'[a] = "insert" => pc[a] = "insert" /\ local'[a] = local[a])
    BY <1>0 DEF ReadStatus, ActorType, Actors
  <2>4. \A op \in Operators : Check(op) \/ Update(op) =>
          (pc'[a] = "insert" => pc[a] = "insert" /\ local'[a] = local[a])
    BY <1>0 DEF Check, Update, ActorType, Actors
  <2>5. AppendTimeline \/ (\E i \in DOMAIN rows : Tamper(i) \/ Delete(i)) \/ UNCHANGED vars =>
          (pc'[a] = "insert" => pc[a] = "insert" /\ local'[a] = local[a])
    BY DEF AppendTimeline, Tamper, Delete, vars, actorVars
  <2>6. Crash => (pc'[a] = "insert" => pc[a] = "insert" /\ local'[a] = local[a])
    BY DEF Crash
  <2> QED
    BY <1>3, <1>4, <2>1, <2>2, <2>3, <2>4, <2>5, <2>6 DEF Next
<1>6. ASSUME NEW j \in DOMAIN rows' \ DOMAIN rows, j \in Chained' PROVE Continues(j)'
  <2>1. ASSUME NEW a \in Actors, Insert(a) PROVE Continues(j)'
    <3>1. Appended(NewRow(a)) /\ pc[a] = "insert"
      BY <1>0, <2>1, InsertRow DEF Insert
    <3>2. j = Len(rows) + 1 /\ rows'[j] = NewRow(a)
      BY <1>r, <3>1 DEF Appended
    <3>3. rows'[j].prev = local[a].prev /\ rows'[j].seen = local[a].seen
      BY <3>2 DEF NewRow
    <3>4. Before(j)' = Chained
      <4>1. \A i \in DOMAIN rows : rows'[i].hash = rows[i].hash /\ i < j
        BY <1>r, <1>k, <3>2 DEF Kept
      <4>2. \A i \in DOMAIN rows' : i < j => i \in DOMAIN rows
        BY <1>r, <3>1, <3>2 DEF Appended
      <4>3. \A i \in DOMAIN rows : i \in DOMAIN rows'
        BY <1>k DEF Kept
      <4> QED
        BY <4>1, <4>2, <4>3 DEF Before, Chained, NoHash, Event
    <3>5. local[a].seen \in Nat /\ local[a].prev = HashAt(Seen(Chained, local[a].seen))
      BY <1>0, <1>i, <3>1, LocalTyped
    <3>6. \/ local[a].prev = HashAt(Chained)
          \/ Chained # {} /\ local[a].seen <= rows[Max(Chained)].id
      BY <1>0, <3>5, InsertContinues
    <3>7. PICK T : T = Chained
      OBVIOUS
    <3>8. T \in SUBSET DOMAIN rows
      BY <3>7 DEF Chained
    <3>9. HashAt(T)' = HashAt(T)
      BY <1>0, <1>k, <3>8, HashKept
    <3>10. HashAt(Before(j))' = HashAt(Chained)
      BY <3>4, <3>7, <3>9 DEF HashAt, genesis_hash
    <3>11. Chained # {} => Max(Chained) \in DOMAIN rows
      BY <1>0, <3>7, <3>8, LastHashTyped
    <3>12. Chained # {} => rows'[Max(Chained)].id = rows[Max(Chained)].id
      BY <1>k, <3>11 DEF Kept
    <3> QED
      BY <3>3, <3>4, <3>6, <3>10, <3>12 DEF Continues
  <2>2. ASSUME AppendTimeline PROVE FALSE
    <3>1. Appended(PlainRow)
      BY <1>0, <2>2, PlainAppend
    <3>2. rows'[j] = PlainRow
      BY <1>r, <3>1 DEF Appended
    <3> QED
      BY <1>6, <3>2 DEF Chained, PlainRow, NoHash, Event
  <2>3. ASSUME NEW i \in DOMAIN rows, Tamper(i) PROVE FALSE
    BY <1>0, <2>3, TamperRow
  <2>4. \A i \in DOMAIN rows : ~Delete(i)
    BY DEF Delete
  <2>5. UNCHANGED rows => FALSE
    OBVIOUS
  <2> QED
    BY <2>1, <2>2, <2>3, <2>4, <2>5 DEF Next, Begin, ReadLast, ReadStatus, Check, Update, Crash, vars
<1>7. \A j \in Chained' : j \in DOMAIN rows'
  BY DEF Chained
<1> QED
  BY <1>1, <1>5, <1>6, <1>7 DEF ForkInv, ReaderInv, ForkNeedsRace

\* As long as no row is deleted a row with hashes continues the one before it,
\* unless its writer read the last hash before that one was inserted.
THEOREM ForkSafety == Spec => []ForkNeedsRace
<1>1. Init => ForkInv
  BY DEF Init, ForkInv, ReaderInv, ForkNeedsRace, Chained
<1>2. ForkInv => ForkNeedsRace
  BY DEF ForkInv
<1> QED
  BY <1>1, <1>2, ForkStep, TypeCorrect, PTL DEF Spec

-----------------------------------------------------------------------------
(* The timeline explains the status.                                       *)

\* A row that is no change of the status leaves the changes as they are; one that
\* is becomes the last of them.
LEMMA ChangesStep ==
  ASSUME LogType, NEW row, Appended(row)
  PROVE  /\ \A i \in Changes : i \in Changes' /\ Told(i)' = Told(i)
         /\ row.event.kind # "status_changed" => Changes' = Changes /\ (Changes # {} => LastTold' = LastTold)
         /\ row.event.kind = "status_changed" =>
              /\ \E i \in Changes' : Told(i)' = row.event.data[2]
              /\ LastTold' = row.event.data[2]
<1>0. DOMAIN rows = 1..Len(rows) /\ Len(rows) \in Nat
  BY RowsTyped
<1>1. /\ DOMAIN rows' = 1..Len(rows) + 1 /\ rows'[Len(rows) + 1] = row
      /\ \A i \in DOMAIN rows : i \in DOMAIN rows' /\ rows'[i] = rows[i]
  BY <1>0 DEF Appended
<1>2. \A i \in DOMAIN rows' : i \in DOMAIN rows \/ i = Len(rows) + 1
  BY <1>0, <1>1
<1>3. Changes \in SUBSET DOMAIN rows
  BY DEF Changes
<1>4. \A i \in Changes : i \in Changes' /\ Told(i)' = Told(i)
  BY <1>1, <1>3 DEF Changes, Told
<1>5. ASSUME row.event.kind # "status_changed"
      PROVE  Changes' = Changes /\ (Changes # {} => LastTold' = LastTold)
  <2>1. Changes' = Changes
    BY <1>1, <1>2, <1>5 DEF Changes
  <2>2. Changes # {} => Max(Changes) \in DOMAIN rows
    BY <1>3, LastHashTyped
  <2> QED
    BY <1>1, <2>1, <2>2 DEF LastTold, Told
<1>6. ASSUME row.event.kind = "status_changed"
      PROVE  /\ \E i \in Changes' : Told(i)' = row.event.data[2]
             /\ LastTold' = row.event.data[2]
  <2>1. Changes' = Changes \cup {Len(rows) + 1}
    BY <1>0, <1>1, <1>2, <1>6 DEF Changes
  <2>2. Changes' \in SUBSET Nat /\ \A i \in Changes' : i <= Len(rows) + 1
    BY <1>0, <1>3, <2>1
  <2>3. PICK T : T = Changes'
    OBVIOUS
  <2>n. PICK n \in Nat : n = Len(rows) + 1
    BY <1>0
  <2>4. T \in SUBSET Nat /\ T # {} /\ n \in T /\ \A i \in T : i <= n
    BY <2>1, <2>2, <2>3, <2>n
  <2>5. Max(T) \in T /\ \A i \in T : i <= Max(T)
    BY <2>4, MaxOf
  <2>6. Max(T) \in Nat /\ Max(T) <= n /\ n <= Max(T)
    BY <2>4, <2>5
  <2>7. Max(T) = Len(rows) + 1
    BY <2>6, <2>n
  <2>8. Told(n)' = row.event.data[2]
    BY <1>1, <2>n DEF Told
  <2> QED
    BY <1>1, <2>3, <2>4, <2>7, <2>8 DEF LastTold, Told
<1> QED
  BY <1>4, <1>5, <1>6

\* A step that changes neither the status nor what was or will be recorded of it
\* keeps it explained.
LEMMA Steady ==
  ASSUME Explained, Exact,
         status' = status, attacks' = attacks, overlapped' = overlapped, torn' = torn,
         Changes' = Changes, \A i \in Changes : Told(i)' = Told(i),
         Changes # {} => LastTold' = LastTold,
         \A op \in Operators : (Owed(op)' <=> Owed(op)) /\ (Owed(op) => Meant(op)' = Meant(op))
  PROVE  Explained' /\ Exact'
<1>1. Explained'
  BY DEF Explained
<1>2. Exact'
  BY DEF Exact
<1> QED
  BY <1>1, <1>2

\* What is read off the rows stays while they do.
LEMMA SameRows ==
  ASSUME rows' = rows
  PROVE  /\ Changes' = Changes /\ (\A i \in Changes : Told(i)' = Told(i))
         /\ Changes # {} => LastTold' = LastTold
BY DEF Changes, Told, LastTold

\* Every action lets only operators that wrote the status record a change of it.
LEMMA EventStep == TypeOK /\ EventInv /\ [Next]_vars => EventInv'
<1> SUFFICES ASSUME TypeOK, EventInv, [Next]_vars PROVE EventInv'
  OBVIOUS
<1>0. ActorType
  BY DEF TypeOK
<1>o. /\ \A op \in Operators : op \in Actors /\ op \notin Writers
      /\ \A w \in Writers : w \in Actors
  BY LogAssumption DEF Actors
<1>b. Blank.event.kind # "status_changed"
  BY DEF Blank, Event
<1>1. ASSUME NEW w \in Writers, Begin(w) PROVE EventInv'
  <2>1. local' = local /\ \A op \in Operators : pc'[op] = pc[op]
    BY <1>0, <1>1, <1>o DEF Begin, ActorType
  <2> QED
    BY <2>1 DEF EventInv
<1>2. ASSUME NEW a \in Actors, ReadLast(a) PROVE EventInv'
  <2>1. \A b \in Actors : local'[b].event = local[b].event
    BY <1>0, <1>2 DEF ReadLast, ActorType, Locals
  <2>2. \A b \in Actors : pc'[b] = pc[b] \/ pc'[b] = "insert"
    BY <1>0, <1>2 DEF ReadLast, ActorType
  <2> QED
    BY <1>o, <2>1, <2>2 DEF EventInv
<1>3. ASSUME NEW a \in Actors, Insert(a) PROVE EventInv'
  <2>1. \A b \in Actors : local'[b] = Blank \/ (local'[b] = local[b] /\ pc'[b] = pc[b])
    BY <1>0, <1>3 DEF Insert, ActorType
  <2> QED
    BY <1>b, <1>o, <2>1 DEF EventInv
<1>4. ASSUME NEW op \in Operators, NEW to \in States, ReadStatus(op, to) PROVE EventInv'
  <2>1. \A b \in Actors : local'[b].event = local[b].event
    BY <1>0, <1>4 DEF ReadStatus, ActorType, Locals
  <2>2. pc[op] = "idle" /\ \A b \in Operators : b = op \/ pc'[b] = pc[b]
    BY <1>0, <1>4, <1>o DEF ReadStatus, ActorType
  <2> QED
    BY <1>o, <2>1, <2>2 DEF EventInv
<1>5. ASSUME NEW op \in Operators, Check(op) PROVE EventInv'
  <2>1. pc[op] = "check" /\ \A b \in Actors : b = op \/ (pc'[b] = pc[b] /\ local'[b] = local[b])
    BY <1>0, <1>5 DEF Check, ActorType
  <2>2. pc'[op] = "read" \/ local'[op] = local[op]
    BY <1>0, <1>5, <1>o DEF Check, ActorType
  <2> QED
    BY <1>o, <2>1, <2>2 DEF EventInv
<1>6. ASSUME NEW op \in Operators, Update(op) PROVE EventInv'
  <2>1. \A b \in Actors : b = op \/ (pc'[b] = pc[b] /\ local'[b] = local[b])
    BY <1>0, <1>6 DEF Update, ActorType
  <2>2. pc'[op] = "read"
    BY <1>0, <1>6, <1>o DEF Update, ActorType
  <2> QED
    BY <1>o, <2>1, <2>2 DEF EventInv
<1>7. ASSUME Crash PROVE EventInv'
  BY <1>7, <1>b, <1>o DEF Crash, EventInv
<1>8. ASSUME UNCHANGED actorVars PROVE EventInv'
  BY <1>8 DEF EventInv, actorVars
<1> QED
  BY <1>1, <1>2, <1>3, <1>4, <1>5, <1>6, <1>7, <1>8 DEF Next, AppendTimeline, Tamper, Delete, vars

\* Recording an event: one that is no change of the status leaves the account as it
\* is, the other moves from those to come to the last of those recorded.
LEMMA InsertExplained ==
  ASSUME TypeOK, StatusInv, NEW a \in Actors, Insert(a)
  PROVE  Explained' /\ Exact'
<1>0. LogType /\ ActorType
  BY DEF TypeOK
<1>o. \A op \in Operators : op \in Actors /\ op \notin Writers
  BY LogAssumption DEF Actors
<1>1. /\ local' = [local EXCEPT ![a] = Blank] /\ pc' = [pc EXCEPT ![a] = "idle"] /\ pc[a] = "insert"
      /\ status' = status /\ attacks' = attacks /\ overlapped' = overlapped /\ torn' = torn
  BY DEF Insert, changeVars
<1>2. Appended(NewRow(a)) /\ NewRow(a).event = local[a].event
  BY <1>0, InsertRow DEF NewRow
<1>3. \A op \in Operators : op # a => (Owed(op)' <=> Owed(op)) /\ Meant(op)' = Meant(op)
  BY <1>0, <1>1, <1>o DEF ActorType, Owed, Meant
<1>4. a \in Operators => ~Owed(a)'
  BY <1>0, <1>1 DEF ActorType, Owed
<1>5. a \in Operators => (Owed(a) <=> local[a].event.kind = "status_changed")
  BY <1>1 DEF Owed
<1>6. CASE local[a].event.kind # "status_changed"
  <2>1. /\ Changes' = Changes /\ (Changes # {} => LastTold' = LastTold)
        /\ \A i \in Changes : Told(i)' = Told(i)
    BY <1>0, <1>2, <1>6, ChangesStep
  <2>2. \A op \in Operators : (Owed(op)' <=> Owed(op)) /\ (Owed(op) => Meant(op)' = Meant(op))
    BY <1>3, <1>4, <1>5, <1>6
  <2> QED
    BY <1>1, <2>1, <2>2, Steady DEF StatusInv
<1>7. CASE local[a].event.kind = "status_changed"
  <2>1. /\ \A i \in Changes : i \in Changes' /\ Told(i)' = Told(i)
        /\ \E i \in Changes' : Told(i)' = Meant(a)
        /\ LastTold' = Meant(a)
    BY <1>0, <1>2, <1>7, ChangesStep DEF Meant
  <2>2. a \in Operators /\ Owed(a)
    BY <1>5, <1>7 DEF StatusInv, EventInv, Actors
  <2>3. Explained'
    <3> SUFFICES ASSUME attacks' = 0, ~torn'
                 PROVE  \/ \E op \in Operators : Owed(op)' /\ Meant(op)' = status'
                        \/ \E i \in Changes' : Told(i)' = status'
      BY DEF Explained
    <3>1. \/ \E op \in Operators : Owed(op) /\ Meant(op) = status
          \/ \E i \in Changes : Told(i) = status
      BY <1>1, <2>2 DEF StatusInv, Explained
    <3> QED
      BY <1>1, <1>3, <2>1, <3>1
  <2>4. Exact'
    <3> SUFFICES ASSUME attacks' = 0, ~torn', ~overlapped'
                 PROVE  LastTold' = status' /\ \A op \in Operators : ~Owed(op)'
      BY DEF Exact
    <3>1. Meant(a) = status /\ \A other \in Operators : Owed(other) => other = a
      BY <1>1, <2>2 DEF StatusInv, Exact
    <3> QED
      BY <1>1, <1>3, <1>4, <2>1, <3>1
  <2> QED
    BY <2>3, <2>4
<1> QED
  BY <1>6, <1>7

\* Writing the status: the transition's own event is to come, alone or not.
LEMMA UpdateExplained ==
  ASSUME TypeOK, StatusInv, NEW op \in Operators, Update(op)
  PROVE  Explained' /\ Exact'
<1>0. ActorType
  BY DEF TypeOK
<1>o. \A other \in Operators : other \in Actors
  BY DEF Actors
<1>1. /\ local' = [local EXCEPT ![op].event = Event("status_changed", Change(op))]
      /\ pc' = [pc EXCEPT ![op] = "read"] /\ status' = local[op].target /\ ~torn'
      /\ overlapped' = (\E other \in Operators \ {op} : Owed(other))
  BY DEF Update
<1>2. pc'[op] = "read" /\ local'[op].event = Event("status_changed", Change(op))
  BY <1>0, <1>1, <1>o DEF ActorType, Locals
<1>3. Owed(op)' /\ Meant(op)' = status'
  BY <1>1, <1>2 DEF Event, Change, Owed, Meant
<1>4. \A other \in Operators \ {op} : (Owed(other)' <=> Owed(other))
  BY <1>0, <1>1, <1>o DEF ActorType, Owed
<1>5. Explained'
  BY <1>3 DEF Explained
<1>6. Exact'
  <2> SUFFICES ASSUME ~overlapped'
               PROVE  \A other \in Operators : Owed(other)' => other = op
    BY <1>3 DEF Exact
  <2> QED
    BY <1>1, <1>4
<1> QED
  BY <1>5, <1>6

\* Every action keeps the status explained.
LEMMA StatusStep == TypeOK /\ StatusInv /\ [Next]_vars => StatusInv'
<1> SUFFICES ASSUME TypeOK, StatusInv, [Next]_vars PROVE Explained' /\ Exact'
  BY EventStep DEF StatusInv
<1>0. LogType /\ ActorType /\ Explained /\ Exact
  BY DEF TypeOK, StatusInv
<1>o. /\ \A op \in Operators : op \in Actors /\ op \notin Writers
      /\ \A w \in Writers : w \in Actors
  BY LogAssumption DEF Actors
<1>1. ASSUME NEW w \in Writers, Begin(w) PROVE Explained' /\ Exact'
  <2>1. /\ rows' = rows /\ status' = status /\ attacks' = attacks
        /\ overlapped' = overlapped /\ torn' = torn
    BY <1>1 DEF Begin, changeVars
  <2>2. \A op \in Operators : (Owed(op)' <=> Owed(op)) /\ Meant(op)' = Meant(op)
    BY <1>0, <1>1, <1>o DEF Begin, ActorType, Owed, Meant
  <2> QED
    BY <1>0, <2>1, <2>2, SameRows, Steady
<1>2. ASSUME NEW a \in Actors, ReadLast(a) PROVE Explained' /\ Exact'
  <2>1. /\ rows' = rows /\ status' = status /\ attacks' = attacks
        /\ overlapped' = overlapped /\ torn' = torn
    BY <1>2 DEF ReadLast, changeVars
  <2>2. \A b \in Actors : local'[b].event = local[b].event
    BY <1>0, <1>2 DEF ReadLast, ActorType, Locals
  <2>3. \A b \in Actors : pc'[b] = pc[b] \/ (pc[b] = "read" /\ pc'[b] = "insert")
    BY <1>0, <1>2 DEF ReadLast, ActorType
  <2>4. \A op \in Operators : (Owed(op)' <=> Owed(op)) /\ Meant(op)' = Meant(op)
    BY <1>o, <2>2, <2>3 DEF Owed, Meant
  <2> QED
    BY <1>0, <2>1, <2>4, SameRows, Steady
<1>3. ASSUME AppendTimeline PROVE Explained' /\ Exact'
  <2>1. Appended(PlainRow) /\ PlainRow.event.kind # "status_changed"
    BY <1>0, <1>3, PlainAppend DEF PlainRow, Event
  <2>2. /\ Changes' = Changes /\ (Changes # {} => LastTold' = LastTold)
        /\ \A i \in Changes : Told(i)' = Told(i)
    BY <1>0, <2>1, ChangesStep
  <2>3. /\ status' = status /\ attacks' = attacks /\ overlapped' = overlapped /\ torn' = torn
        /\ pc' = pc /\ local' = local
    BY <1>3 DEF AppendTimeline, changeVars, actorVars
  <2>4. \A op \in Operators : (Owed(op)' <=> Owed(op)) /\ Meant(op)' = Meant(op)
    BY <2>3 DEF Owed, Meant
  <2> QED
    BY <1>0, <2>2, <2>3, <2>4, Steady
<1>4. ASSUME NEW op \in Operators, NEW to \in States, ReadStatus(op, to) PROVE Explained' /\ Exact'
  <2>1. /\ rows' = rows /\ status' = status /\ attacks' = attacks
        /\ overlapped' = overlapped /\ torn' = torn
    BY <1>4 DEF ReadStatus, changeVars
  <2>2. \A b \in Actors : local'[b].event = local[b].event
    BY <1>0, <1>4 DEF ReadStatus, ActorType, Locals
  <2>3. pc[op] = "idle" /\ pc'[op] = "check" /\ \A b \in Operators : b = op \/ pc'[b] = pc[b]
    BY <1>0, <1>4, <1>o DEF ReadStatus, ActorType
  <2>4. \A b \in Operators : (Owed(b)' <=> Owed(b)) /\ Meant(b)' = Meant(b)
    BY <1>o, <2>2, <2>3 DEF Owed, Meant
  <2> QED
    BY <1>0, <2>1, <2>4, SameRows, Steady
<1>5. ASSUME NEW op \in Operators, Check(op) PROVE Explained' /\ Exact'
  <2>1. /\ rows' = rows /\ status' = status /\ attacks' = attacks
        /\ overlapped' = overlapped /\ torn' = torn
    BY <1>5 DEF Check, changeVars
  <2>2. pc[op] = "check" /\ \A b \in Actors : b = op \/ (pc'[b] = pc[b] /\ local'[b] = local[b])
    BY <1>0, <1>5 DEF Check, ActorType
  <2>3. pc'[op] = "update" \/ local'[op].event.kind # "status_changed"
    BY <1>0, <1>5, <1>o DEF Check, ActorType, Locals, Event
  <2>4. \A b \in Operators : (Owed(b)' <=> Owed(b)) /\ (Owed(b) => Meant(b)' = Meant(b))
    BY <1>o, <2>2, <2>3 DEF Owed, Meant
  <2> QED
    BY <1>0, <2>1, <2>4, SameRows, Steady
<1>6. ASSUME NEW i \in DOMAIN rows, Tamper(i) \/ Delete(i) PROVE Explained' /\ Exact'
  <2>1. attacks' # 0
    BY <1>6 DEF TypeOK, Tamper, Delete
  <2> QED
    BY <2>1 DEF Explained, Exact
<1>7. ASSUME Crash PROVE Explained' /\ Exact'
  <2>1. \A op \in Operators : ~Owed(op)'
    BY <1>7, <1>o DEF Crash, Owed
  <2>2. CASE \E op \in Operators : Owed(op)
    BY <1>7, <2>2 DEF Crash, Explained, Exact
  <2>3. CASE \A op \in Operators : ~Owed(op)
    <3>1. /\ rows' = rows /\ status' = status /\ attacks' = attacks /\ overlapped' = overlapped
          /\ torn \in BOOLEAN /\ torn' = (torn \/ \E op \in Operators : Owed(op))
      BY <1>7 DEF Crash, TypeOK
    <3>2. torn' = torn
      BY <2>3, <3>1
    <3> QED
      BY <1>0, <2>1, <2>3, <3>1, <3>2, SameRows, Steady
  <2> QED
    BY <2>2, <2>3
<1>8. ASSUME UNCHANGED vars PROVE Explained' /\ Exact'
  <2>1. /\ rows' = rows /\ status' = status /\ attacks' = attacks
        /\ overlapped' = overlapped /\ torn' = torn /\ pc' = pc /\ local' = local
    BY <1>8 DEF vars, actorVars, changeVars
  <2>2. \A op \in Operators : (Owed(op)' <=> Owed(op)) /\ Meant(op)' = Meant(op)
    BY <2>1 DEF Owed, Meant
  <2> QED
    BY <1>0, <2>1, <2>2, SameRows, Steady
<1> QED
  BY <1>1, <1>2, <1>3, <1>4, <1>5, <1>6, <1>7, <1>8, InsertExplained, UpdateExplained DEF Next

\* Whoever moves the incident at once and wherever the process dies, when no event
\* is to come and nobody touched the table the timeline accounts for the status,
\* unless the event of the last transition died with the process, and its last
\* change is the status, unless that transition overlapped another (transition
\* updates the status first and records the change behind it).
THEOREM StatusSafety == Spec => []TimelineExplainsStatus
<1>1. Init => StatusInv
  <2> SUFFICES ASSUME Init PROVE StatusInv
    OBVIOUS
  <2>1. \A a \in Actors : pc[a] = "idle" /\ local[a].event.kind = "note"
    BY DEF Init, Blank, Event
  <2>2. Changes = {}
    BY DEF Init, Changes
  <2>3. \A op \in Operators : ~Owed(op)
    BY <2>1 DEF Actors, Owed
  <2>4. EventInv
    BY <2>1 DEF EventInv, Actors
  <2> QED
    BY <2>2, <2>3, <2>4 DEF Init, StatusInv, Explained, Exact
<1>2. StatusInv => TimelineExplainsStatus
  BY DEF StatusInv, Explained, Exact, TimelineExplainsStatus, LastTold
<1> QED
  BY <1>1, <1>2, StatusStep, TypeCorrect, PTL DEF Spec
=============================================================================
