---------------------------- MODULE IncidentLog ----------------------------
(***************************************************************************)
(* The timeline of one incident as a hash chain, and the state machine of  *)
(* its status, which records every attempt in that timeline.               *)
(*                                                                         *)
(* HashChain.append reads the last chained hash and inserts the new row in *)
(* two store calls; the store's lock covers each call, not the pair.  Some *)
(* code paths insert rows without hashes.  A hash is modelled by the term  *)
(* it commits to, so two hashes are equal exactly when everything they     *)
(* bind is: SHA-256 is taken to be free of collisions.                     *)
(***************************************************************************)
EXTENDS Naturals, Sequences, FiniteSets, FiniteSetsExt

CONSTANTS
  Writers,    \* threads that record events through HashChain.append
  Operators,  \* callers of transition
  MaxRows,    \* bound: rows ever inserted into the timeline
  MaxAttacks, \* bound: changes made to the table behind the program's back
  MaxCrashes  \* bound: deaths of the process

ASSUME LogAssumption ==
  /\ Writers \cap Operators = {}
  /\ MaxRows \in Nat /\ MaxAttacks \in Nat /\ MaxCrashes \in Nat

VARIABLES
  rows,     \* the incident's timeline, ORDER BY id
  nextId,   \* the id AUTOINCREMENT gives next
  status,   \* incidents.status
  pc,       \* where each writer or operator stands
  local,    \* its locals: the event to record, the hash it read and when (history),
            \* and for an operator the status it read and the one it asked for
  attacks,  \* rows rewritten or deleted from outside
  deleted,  \* a row was deleted (history)
  crashes,
  overlapped, \* the last status was written before the event of another was (history)
  torn        \* the process died between the last status and its event (history)

Actors == Writers \cup Operators
actorVars == <<pc, local>>
changeVars == <<overlapped, torn>>
vars == <<rows, nextId, status, actorVars, attacks, deleted, crashes, changeVars>>

States == {"open", "investigating", "mitigated", "resolved"}
TRANSITIONS == [open |-> {"investigating"}, investigating |-> {"mitigated", "investigating"},
                mitigated |-> {"resolved"}, resolved |-> {}]

Event(kind, data) == [kind |-> kind, data |-> data]
Forged == <<"forged">>

\* Mutation: the hash covers the kind and the previous hash only.
compute_event_hash_no_payload(before, e) == Append(before, Event(e.kind, <<>>))

\* compute_event_hash: kind, payload and the previous hash, all three.
compute_event_hash(before, e) == Append(before, e)
\* genesis_hash binds the id and the creation time, both fixed for the incident.
genesis_hash == <<>>
\* The NULL of an unchained row, different from every hash.
NoHash == <<Event("NULL", <<>>)>>

\* What a thread at rest holds: its locals are gone.
Blank == [event |-> Event("note", <<>>), prev |-> genesis_hash, seen |-> 0, current |-> "open",
          target |-> "open"]

\* Bound: the rows still to be inserted by calls under way are counted.
Room == nextId + Cardinality({a \in Actors : pc[a] # "idle"}) <= MaxRows

Init ==
  /\ rows = <<>> /\ nextId = 1
  /\ status = "open"
  /\ pc = [a \in Actors |-> "idle"]
  /\ local = [a \in Actors |-> Blank]
  /\ attacks = 0 /\ deleted = FALSE /\ crashes = 0
  /\ overlapped = FALSE /\ torn = FALSE

-----------------------------------------------------------------------------
(* HashChain.append.                                                       *)

\* Mutation: the query does not skip the rows without a hash.
LastRowHash ==
  IF rows = <<>> \/ rows[Len(rows)].hash = NoHash THEN genesis_hash ELSE rows[Len(rows)].hash

\* What last_chained_hash gives for rows at these places, or the genesis when
\* there is none yet.
HashAt(places) == IF places = {} THEN genesis_hash ELSE rows[Max(places)].hash
Chained == {i \in DOMAIN rows : rows[i].hash # NoHash}
LastHash == HashAt(Chained)

\* An event to record: a writer has one whenever its component says so.
Begin(w) ==
  /\ pc[w] = "idle" /\ Room
  /\ pc' = [pc EXCEPT ![w] = "read"]
  /\ UNCHANGED <<rows, nextId, status, local, attacks, deleted, crashes, changeVars>>

\* append, first half: last_chained_hash.
ReadLast(a) ==
  /\ pc[a] = "read"
  /\ local' = [local EXCEPT ![a].prev = LastHash, ![a].seen = nextId]
  /\ pc' = [pc EXCEPT ![a] = "insert"]
  /\ UNCHANGED <<rows, nextId, status, attacks, deleted, crashes, changeVars>>

\* append, second half: append_chained_event with the hash computed meanwhile.
Insert(a) ==
  /\ pc[a] = "insert"
  /\ LET l == local[a]
     IN rows' = Append(rows, [id |-> nextId, event |-> l.event, prev |-> l.prev,
                              hash |-> compute_event_hash(l.prev, l.event), seen |-> l.seen])
  /\ nextId' = nextId + 1
  /\ pc' = [pc EXCEPT ![a] = "idle"]
  /\ local' = [local EXCEPT ![a] = Blank]
  /\ UNCHANGED <<status, attacks, deleted, crashes, changeVars>>

\* append_timeline (incident_created of ReportIncident, action_callback without
\* an orchestrator) and append_chained_event called without hashes
\* (triage_aborted) insert a row whose two hash columns are NULL.
AppendTimeline ==
  /\ Room
  /\ rows' = Append(rows, [id |-> nextId, event |-> Event("unchained", <<>>),
                           prev |-> NoHash, hash |-> NoHash, seen |-> nextId])
  /\ nextId' = nextId + 1
  /\ UNCHANGED <<status, actorVars, attacks, deleted, crashes, changeVars>>

-----------------------------------------------------------------------------
(* transition: read, check, update, record.                                *)

ReadStatus(op, to) ==
  /\ pc[op] = "idle" /\ Room
  /\ local' = [local EXCEPT ![op].current = status, ![op].target = to]
  /\ pc' = [pc EXCEPT ![op] = "check"]
  /\ UNCHANGED <<rows, nextId, status, attacks, deleted, crashes, changeVars>>

Change(op) == <<local[op].current, local[op].target>>

\* An illegal transition changes nothing, but the attempt is recorded.
Check(op) ==
  /\ pc[op] = "check"
  /\ IF local[op].target \in TRANSITIONS[local[op].current]
     THEN pc' = [pc EXCEPT ![op] = "update"] /\ local' = local
     ELSE /\ pc' = [pc EXCEPT ![op] = "read"]
          /\ local' = [local EXCEPT ![op].event = Event("illegal_transition_rejected", Change(op))]
  /\ UNCHANGED <<rows, nextId, status, attacks, deleted, crashes, changeVars>>

\* The status was written, its event is still to come.
Owed(op) == pc[op] \in {"read", "insert"} /\ local[op].event.kind = "status_changed"

\* Mutation: a transition to mitigated is not recorded.
UpdateSilently(op) ==
  /\ pc[op] = "update"
  /\ status' = local[op].target
  /\ local' = [local EXCEPT ![op].event = Event("status_changed", Change(op))]
  /\ pc' = [pc EXCEPT ![op] = IF local[op].target = "mitigated" THEN "idle" ELSE "read"]
  /\ overlapped' = (\E other \in Operators \ {op} : Owed(other)) /\ torn' = FALSE
  /\ UNCHANGED <<rows, nextId, attacks, deleted, crashes>>

\* update_status does not look at the status it replaces.
Update(op) ==
  /\ pc[op] = "update"
  /\ status' = local[op].target
  /\ local' = [local EXCEPT ![op].event = Event("status_changed", Change(op))]
  /\ pc' = [pc EXCEPT ![op] = "read"]
  /\ overlapped' = (\E other \in Operators \ {op} : Owed(other)) /\ torn' = FALSE
  /\ UNCHANGED <<rows, nextId, attacks, deleted, crashes>>

\* The process dies: every call under way is cut short where it stands.
Crash ==
  /\ crashes < MaxCrashes /\ crashes' = crashes + 1
  /\ pc' = [a \in Actors |-> "idle"]
  /\ local' = [a \in Actors |-> Blank]
  /\ torn' = (torn \/ \E op \in Operators : Owed(op))
  /\ UNCHANGED <<rows, nextId, status, attacks, deleted, overlapped>>

-----------------------------------------------------------------------------
(* Changes made to the table from outside the program.                     *)

\* tamper_timeline_payload: another payload, the same hashes.
Tamper(i) ==
  /\ attacks < MaxAttacks /\ attacks' = attacks + 1
  /\ rows' = [rows EXCEPT ![i].event.data = Forged]
  /\ UNCHANGED <<nextId, status, actorVars, deleted, crashes, changeVars>>

\* A row is deleted, as test_hashchain_detects_deletion_via_break does.
Delete(i) ==
  /\ attacks < MaxAttacks /\ attacks' = attacks + 1
  /\ rows' = [j \in 1..Len(rows) - 1 |-> IF j < i THEN rows[j] ELSE rows[j + 1]]
  /\ deleted' = TRUE
  /\ UNCHANGED <<nextId, status, actorVars, crashes, changeVars>>

Next ==
  \/ \E w \in Writers : Begin(w)
  \/ \E a \in Actors : ReadLast(a) \/ Insert(a)
  \/ AppendTimeline
  \/ \E op \in Operators : (\E to \in States : ReadStatus(op, to)) \/ Check(op) \/ Update(op)
  \/ \E i \in DOMAIN rows : Tamper(i) \/ Delete(i)
  \/ Crash

Spec == Init /\ [][Next]_vars

-----------------------------------------------------------------------------
(* HashChain.verify.                                                       *)

\* Mutation: only the newest row is looked at.
BrokenLastOnly(i) ==
  /\ i = Len(rows)
  /\ \/ rows[i].prev # (IF i = 1 THEN genesis_hash ELSE rows[i - 1].hash)
     \/ rows[i].hash # compute_event_hash(rows[i].prev, rows[i].event)

\* The loop stops at the first row that does not continue the one before it
\* or whose hash is not the one recomputed.
Broken(i) ==
  \/ rows[i].prev # (IF i = 1 THEN genesis_hash ELSE rows[i - 1].hash)
  \/ rows[i].hash # compute_event_hash(rows[i].prev, rows[i].event)

VerdictOk == \A i \in DOMAIN rows : ~Broken(i)
CorruptAt == Min({i \in DOMAIN rows : Broken(i)})

-----------------------------------------------------------------------------
Kinds == {"note", "unchained", "status_changed", "illegal_transition_rejected", "NULL"}
Data == {<<>>} \cup (States \X States)
Events == [kind : Kinds, data : Data]
Hashes == Seq(Events)
Rows == [id : Nat \ {0}, event : [kind : Kinds, data : Data \cup {Forged}],
         prev : Hashes, hash : Hashes, seen : Nat \ {0}]
Locals == [event : Events, prev : Hashes, seen : Nat, current : States, target : States]

LogType ==
  /\ rows \in Seq(Rows) /\ nextId \in Nat \ {0}
  /\ \A i \in DOMAIN rows :
       /\ rows[i].id < nextId /\ rows[i].seen <= rows[i].id
       /\ \A j \in DOMAIN rows : i < j => rows[i].id < rows[j].id

ActorType ==
  /\ pc \in [Actors -> {"idle", "read", "insert", "check", "update"}]
  /\ local \in [Actors -> Locals]
  /\ \A a \in Actors : pc[a] = "insert" => local[a].seen \in 1..nextId

TypeOK ==
  /\ LogType /\ ActorType
  /\ status \in States
  /\ attacks \in 0..MaxAttacks /\ deleted \in BOOLEAN /\ crashes \in 0..MaxCrashes
  /\ overlapped \in BOOLEAN /\ torn \in BOOLEAN

\* verify reports a rewritten row, or one before it: no later append and no
\* race hides it.
TamperDetected ==
  \A i \in DOMAIN rows : rows[i].event.data = Forged => ~VerdictOk /\ CorruptAt <= i

\* Damage stays visible: appending never repairs a timeline that does not verify
\* nor moves the reported place back, and taking any row but the newest out of
\* one that verifies is noticed.
DamageShows ==
  [][/\ ~VerdictOk /\ Len(rows') >= Len(rows) => ~VerdictOk' /\ CorruptAt' <= CorruptAt
     /\ VerdictOk /\ Len(rows') < Len(rows) /\ rows' # SubSeq(rows, 1, Len(rows) - 1) => ~VerdictOk']_vars

\* Among the rows that carry hashes a row continues the one before it, unless
\* its writer read the last hash before that one was inserted: only a race of
\* two appends forks the chain, never a row without hashes.
Before(j) == {i \in Chained : i < j}
Continues(j) ==
  \/ rows[j].prev = HashAt(Before(j))
  \/ Before(j) # {} /\ rows[j].seen <= rows[Max(Before(j))].id
ForkNeedsRace == ~deleted => \A j \in Chained : Continues(j)

\* When no event of a transition is still to come and nothing was tampered with,
\* the timeline accounts for the status: some status_changed went there, unless
\* the process died before it was written, and it is the last of them, unless the
\* transition wrote its status while the event of another was still to come.  The
\* next transition that meets neither puts the two in agreement again.
Changes == {i \in DOMAIN rows : rows[i].event.kind = "status_changed"}
Told(i) == rows[i].event.data[2]
TimelineExplainsStatus ==
  attacks = 0 /\ ~torn /\ (\A op \in Operators : ~Owed(op)) =>
    /\ IF Changes = {} THEN status = "open" ELSE \E i \in Changes : Told(i) = status
    /\ Changes # {} /\ ~overlapped => Told(Max(Changes)) = status
=============================================================================
