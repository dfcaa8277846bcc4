-------------------------------- MODULE Desk --------------------------------
(***************************************************************************)
(* What people read while core works: the pages of the read API, fetched   *)
(* by oncall-ui.  Every page is made of several store reads, each of which *)
(* sees the store as it is at that moment; alerts create incidents and     *)
(* operators move them on between any two of them.                         *)
(***************************************************************************)
EXTENDS Integers, FiniteSets

CONSTANTS
  MaxIncidents,  \* bound: incidents that come to exist
  MaxChanges,    \* bound: moves of one incident along TRANSITIONS
  PageSize       \* page_size of the reader

ASSUME DeskAssumption ==
  /\ MaxIncidents \in Nat \ {0} /\ MaxChanges \in Nat /\ PageSize \in 1..100

VARIABLES
  count,    \* incidents 1..count exist, numbered by created_at
  moved,    \* per incident, how often its status was moved; 0 is "open"
  logged,   \* per incident, how many status_changed events say so
  reader    \* somebody reading the list page by page, or the page of an incident

storeVars == <<count, moved, logged>>
deskVars == <<count, moved, logged, reader>>

Incidents == 1..MaxIncidents

DeskInit ==
  /\ count \in 0..MaxIncidents
  /\ moved = [i \in Incidents |-> 0] /\ logged = moved
  /\ reader = [pc |-> "idle"]

-----------------------------------------------------------------------------
(* Core at work.                                                           *)

CreateIncident == count < MaxIncidents /\ count' = count + 1 /\ UNCHANGED <<moved, logged, reader>>

\* transition: the status is written first, the event after it, and never if the
\* process dies in between; two operators may move an incident at once.
UpdateStatus(i) ==
  /\ i <= count /\ moved[i] < MaxChanges
  /\ moved' = [moved EXCEPT ![i] = @ + 1]
  /\ UNCHANGED <<count, logged, reader>>

LogStatus(i) ==
  /\ logged[i] < moved[i]
  /\ logged' = [logged EXCEPT ![i] = @ + 1]
  /\ UNCHANGED <<count, moved, reader>>

-----------------------------------------------------------------------------
(* GET /api/incidents, page after page.                                    *)

\* list_incidents: the rows that match, in the order asked for, cut to the page.
Listed(status, i) == status = "any" \/ moved[i] = 0
Rank(status, sort, i) ==
  Cardinality({j \in 1..count : /\ Listed(status, j)
                                /\ IF sort = "oldest" THEN j <= i ELSE j >= i})

list_incidents(status, sort, page) ==
  {i \in 1..count : /\ Listed(status, i)
                    /\ Rank(status, sort, i) \in (page - 1) * PageSize + 1..page * PageSize}

count_incidents(status) == Cardinality({i \in 1..count : Listed(status, i)})

\* The reader opens the list: a filter, an order; page is at least 1.
OpenList(status, sort) ==
  /\ reader.pc = "idle"
  /\ reader' = [pc |-> "list", status |-> status, sort |-> sort, page |-> 1, items |-> {},
              total |-> 0, seen |-> {}, before |-> 1..count]
  /\ UNCHANGED storeVars

\* The handler's first read: the rows of the page.
List ==
  /\ reader.pc = "list"
  /\ reader' = [reader EXCEPT !.pc = "count",
                          !.items = list_incidents(reader.status, reader.sort, reader.page)]
  /\ UNCHANGED storeVars

\* Mutation: the total of the first page is kept for the later ones.
CountOnce ==
  /\ reader.pc = "count"
  /\ reader' = [reader EXCEPT !.pc = "shown", !.seen = @ \cup reader.items,
                   !.total = IF reader.page = 1 THEN count_incidents(reader.status) ELSE @]
  /\ UNCHANGED storeVars

\* Its second read: the total.  The page is shown.
Count ==
  /\ reader.pc = "count"
  /\ reader' = [reader EXCEPT !.pc = "shown", !.total = count_incidents(reader.status),
                          !.seen = @ \cup reader.items]
  /\ UNCHANGED storeVars

\* The reader goes on until a page is empty.
Turn ==
  /\ reader.pc = "shown"
  /\ reader' = IF reader.items = {} THEN [reader EXCEPT !.pc = "end"]
                                  ELSE [reader EXCEPT !.pc = "list", !.page = @ + 1]
  /\ UNCHANGED storeVars

-----------------------------------------------------------------------------
(* GET /api/incidents/{id}.                                                *)

\* Mutation: the timeline is read before the incident.
LookTimelineFirst(i) ==
  /\ \/ /\ reader.pc = "idle" /\ i <= count
        /\ reader' = [pc |-> "half", of |-> i, events |-> logged[i], status |-> 0, torn |-> FALSE]
     \/ /\ reader.pc = "half" /\ reader.of = i
        /\ reader' = [reader EXCEPT !.pc = "looked", !.status = moved[i],
                                    !.torn = moved[i] # logged[i]]
  /\ UNCHANGED storeVars

\* get_incident, and then the timeline; the prediction that is read last has no
\* part in this.  torn notes that a transition stood between its two writes.
Look(i) ==
  /\ \/ /\ reader.pc = "idle" /\ i <= count
        /\ reader' = [pc |-> "half", of |-> i, status |-> moved[i],
                      torn |-> moved[i] # logged[i], events |-> 0]
     \/ /\ reader.pc = "half" /\ reader.of = i
        /\ reader' = [reader EXCEPT !.pc = "looked", !.events = logged[i]]
  /\ UNCHANGED storeVars

Work == CreateIncident \/ \E i \in Incidents : UpdateStatus(i) \/ LogStatus(i)

Read ==
  \/ \E status \in {"any", "open"}, sort \in {"newest", "oldest"} : OpenList(status, sort)
  \/ List \/ Count \/ Turn
  \/ \E i \in Incidents : Look(i)

DeskNext == Work \/ Read

DeskSpec == DeskInit /\ [][DeskNext]_deskVars

-----------------------------------------------------------------------------
\* A reader who turns the pages of the whole list to the end has seen every
\* incident that existed at the start, in either order and whatever was created
\* meanwhile; on each page the total covers the rows shown so far.  (A list
\* filtered by status promises neither: rows that leave it move the others up.)
ListIsComplete ==
  reader.pc \in {"shown", "end"} /\ reader.status = "any" =>
    /\ reader.pc = "end" => reader.before \subseteq reader.seen
    /\ reader.items # {} => (reader.page - 1) * PageSize + Cardinality(reader.items) <= reader.total

\* The page of an incident accounts for the status it shows: its timeline has
\* the events that led there, unless a transition stood between its two writes
\* when the status was read.
PageExplainsStatus ==
  reader.pc = "looked" /\ ~reader.torn => reader.status <= reader.events
=============================================================================
