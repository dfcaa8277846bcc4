--------------------------- MODULE CallbackRouter ---------------------------
(***************************************************************************)
(* The way of an answer from Telegram to the core: the gate's Router polls *)
(* getUpdates, forwards each callback to the core's ActionCallback, keeps  *)
(* the ones it could not deliver in a bounded queue in memory and sends    *)
(* them again at every tick.  Run is one goroutine: FetchOnce, wait for    *)
(* the ticker, FlushPending, and again.                                    *)
(***************************************************************************)
EXTENDS Naturals, Sequences, FiniteSets, SequencesExt

CONSTANTS
  MaxUpdates,   \* bound: updates users cause; their ids are 1..MaxUpdates
  Callbacks,    \* the ids of the updates that carry a callback_query
  Verb, RequestId, Reason,  \* of the button pressed in each of them
  maxPending,   \* the limit of the retry queue
  Wired,        \* TRUE when the servicer was given an on_action
  MaxFailures,  \* bound: ActionCallback and getUpdates calls that fail
  MaxCrashes    \* bound: restarts of the gate

ASSUME RouterAssumption ==
  /\ MaxUpdates \in Nat /\ Callbacks \subseteq 1..MaxUpdates
  /\ Verb \in [Callbacks -> {"approve", "reject", "snooze", "other"}]
  /\ DOMAIN RequestId = Callbacks /\ DOMAIN Reason = Callbacks
  /\ maxPending \in Nat \ {0}
  /\ Wired \in BOOLEAN
  /\ MaxFailures \in Nat /\ MaxCrashes \in Nat

VARIABLES
  sent,      \* updates Telegram has received
  confirmed, \* updates up to here are confirmed: Telegram never returns them again
  offset,    \* Router.offset
  pending,   \* Router.pending
  pc,        \* where Run stands
  batch,     \* the updates of this FetchOnce still to be handled
  queue,     \* the callbacks this FlushPending still has to send
  remaining, \* those it could not send
  taken,     \* the requests the core's ActionCallback executed, in that order
  handled,   \* the calls of on_action it made for them
  logged,    \* requests recorded in a timeline instead
  dropped,   \* callbacks a full queue gave up (history)
  lost,      \* callbacks a dead gate had in memory (history)
  unsure,    \* callbacks whose call failed after the core took them (history)
  failures, crashes

routerVars == <<offset, pending, pc, batch, queue, remaining>>
coreVars == <<taken, handled, logged>>
history == <<dropped, lost, unsure>>
vars == <<sent, confirmed, routerVars, coreVars, history, failures, crashes>>

Init ==
  /\ sent = 0 /\ confirmed = 0
  /\ offset = 0
  /\ pending = <<>> /\ batch = <<>> /\ queue = <<>> /\ remaining = <<>>
  /\ pc = "fetch"
  /\ taken = <<>> /\ handled = {} /\ logged = {}
  /\ dropped = {} /\ lost = {} /\ unsure = {}
  /\ failures = 0 /\ crashes = 0

-----------------------------------------------------------------------------
\* A user presses a button or writes something.
Press ==
  /\ sent < MaxUpdates
  /\ sent' = sent + 1
  /\ UNCHANGED <<confirmed, routerVars, coreVars, history, failures, crashes>>

\* from, from + 1, ..., to.
Numbers(from, to) == [i \in 1..(IF to < from THEN 0 ELSE to + 1 - from) |-> from + i - 1]

\* getUpdates: the offset confirms the updates before it, the answer has the
\* unconfirmed ones.  It fails without effect, or its answer is unreadable.
FetchOnce ==
  /\ pc = "fetch"
  /\ \/ /\ confirmed' = IF offset > 0 THEN offset - 1 ELSE confirmed
        /\ batch' = Numbers(confirmed' + 1, sent)
        /\ pc' = "dispatch" /\ failures' = failures
     \/ /\ failures < MaxFailures /\ failures' = failures + 1
        /\ confirmed' \in {confirmed, IF offset > 0 THEN offset - 1 ELSE confirmed}
        /\ pc' = "tick" /\ batch' = batch
  /\ UNCHANGED <<sent, offset, pending, queue, remaining, coreVars, history, crashes>>

\* The callback_data of a button, split at its colons; approve has no reason.
Data(u) ==
  IF Verb[u] = "approve" THEN <<Verb[u], RequestId[u]>> ELSE <<Verb[u], RequestId[u], Reason[u]>>

hasPrefixFold(data, prefix) == Head(data) = prefix
parseKind(data) ==
  IF \E verb \in {"approve", "reject", "snooze"} : hasPrefixFold(data, verb) THEN Head(data) ELSE "unspecified"

\* Everything behind the first colon, the request id as well.
parseReason(data) == Tail(data)

\* What is between the first colon and the next.
parseRequestID(data) == IF Len(data) > 1 THEN data[2] ELSE ""

\* The ActionCallbackRequest of an update.
Request(u) ==
  [callback_id |-> u, kind |-> parseKind(Data(u)), reason |-> parseReason(Data(u)),
   request_id |-> parseRequestID(Data(u))]

\* ActionCallback of the core: on_action when it is wired, which is not given the
\* request id, otherwise an event in the timeline of the newest incident (a
\* button was sent about one, so there is one).
Accept(u) ==
  LET action == Request(u)
  IN /\ taken' = Append(taken, action)
     /\ \/ Wired /\ logged' = logged /\ handled' = handled \cup
             {[callback_id |-> action.callback_id, kind |-> action.kind, reason |-> action.reason]}
        \/ ~Wired /\ logged' = logged \cup {action} /\ handled' = handled

\* The call fails: before the core took the callback, or after it (the answer
\* is lost, or handle_action raised).
Refuse(u) ==
  /\ failures < MaxFailures /\ failures' = failures + 1
  /\ \/ UNCHANGED <<coreVars, unsure>>
     \/ Accept(u) /\ unsure' = unsure \cup {u}

\* enqueue: a full queue drops its oldest callback.
Enqueue(u) ==
  IF Len(pending) >= maxPending
  THEN pending' = Append(Tail(pending), u) /\ dropped' = dropped \cup {Head(pending)}
  ELSE pending' = Append(pending, u) /\ dropped' = dropped

\* Mutation: a callback the core did not answer is not kept.
DispatchOnce ==
  /\ pc = "dispatch" /\ batch # <<>>
  /\ LET u == Head(batch)
     IN /\ offset' = u + 1
        /\ \/ u \notin Callbacks /\ UNCHANGED <<pending, dropped, coreVars, unsure, failures>>
           \/ u \in Callbacks /\ Accept(u) /\ UNCHANGED <<pending, dropped, unsure, failures>>
           \/ u \in Callbacks /\ Refuse(u) /\ UNCHANGED <<pending, dropped>>
  /\ batch' = Tail(batch)
  /\ UNCHANGED <<sent, confirmed, pc, queue, remaining, lost, crashes>>

\* The next update of the batch: the offset moves on first; a callback is
\* forwarded, and queued when the call fails.
Dispatch ==
  /\ pc = "dispatch" /\ batch # <<>>
  /\ LET u == Head(batch)
     IN /\ offset' = u + 1
        /\ \/ u \notin Callbacks /\ UNCHANGED <<pending, dropped, coreVars, unsure, failures>>
           \/ u \in Callbacks /\ Accept(u) /\ UNCHANGED <<pending, dropped, unsure, failures>>
           \/ u \in Callbacks /\ Refuse(u) /\ Enqueue(u)
  /\ batch' = Tail(batch)
  /\ UNCHANGED <<sent, confirmed, pc, queue, remaining, lost, crashes>>

\* FetchOnce is over; Run waits for its ticker.
BatchDone ==
  /\ pc = "dispatch" /\ batch = <<>>
  /\ pc' = "tick"
  /\ UNCHANGED <<sent, confirmed, offset, pending, batch, queue, remaining, coreVars, history,
                 failures, crashes>>

\* The ticker fires; FlushPending takes the whole queue.
BeginFlush ==
  /\ pc = "tick"
  /\ queue' = pending /\ pending' = <<>> /\ remaining' = <<>>
  /\ pc' = "flush"
  /\ UNCHANGED <<sent, confirmed, offset, batch, coreVars, history, failures, crashes>>

\* Mutation: a callback that was delivered is not taken off the queue.
ResendKeeping ==
  /\ pc = "flush" /\ queue # <<>> /\ Len(taken) < 6
  /\ LET u == Head(queue)
     IN \/ Accept(u) /\ remaining' = Append(remaining, u) /\ UNCHANGED <<unsure, failures>>
        \/ Refuse(u) /\ remaining' = Append(remaining, u)
  /\ queue' = Tail(queue)
  /\ UNCHANGED <<sent, confirmed, offset, pending, pc, batch, dropped, lost, crashes>>

\* FlushPending sends the next one; what fails stays.
Resend ==
  /\ pc = "flush" /\ queue # <<>>
  /\ LET u == Head(queue)
     IN \/ Accept(u) /\ UNCHANGED <<remaining, unsure, failures>>
        \/ Refuse(u) /\ remaining' = Append(remaining, u)
  /\ queue' = Tail(queue)
  /\ UNCHANGED <<sent, confirmed, offset, pending, pc, batch, dropped, lost, crashes>>

\* Mutation: FlushPending puts back only the newest failure.
EndFlushLast ==
  /\ pc = "flush" /\ queue = <<>>
  /\ pending' = IF remaining = <<>> THEN pending ELSE <<Last(remaining)>> \o pending
  /\ remaining' = <<>>
  /\ pc' = "fetch"
  /\ UNCHANGED <<sent, confirmed, offset, batch, queue, coreVars, history, failures, crashes>>

\* Mutation: what could not be sent goes behind the newer callbacks, reversed.
EndFlushReversed ==
  /\ pc = "flush" /\ queue = <<>>
  /\ pending' = pending \o Reverse(remaining)
  /\ remaining' = <<>>
  /\ pc' = "fetch"
  /\ UNCHANGED <<sent, confirmed, offset, batch, queue, coreVars, history, failures, crashes>>

\* What could not be sent goes back, in front of newer callbacks.
EndFlush ==
  /\ pc = "flush" /\ queue = <<>>
  /\ pending' = remaining \o pending
  /\ remaining' = <<>>
  /\ pc' = "fetch"
  /\ UNCHANGED <<sent, confirmed, offset, batch, queue, coreVars, history, failures, crashes>>

Taken == {m.callback_id : m \in ToSet(taken)}
InMemory == ToSet(pending) \cup ToSet(queue) \cup ToSet(remaining)

\* The gate dies: offset and queue were in memory only.
Crash ==
  /\ crashes < MaxCrashes /\ crashes' = crashes + 1
  /\ lost' = lost \cup InMemory
  /\ offset' = 0 /\ pending' = <<>> /\ batch' = <<>> /\ queue' = <<>> /\ remaining' = <<>>
  /\ pc' = "fetch"
  /\ UNCHANGED <<sent, confirmed, coreVars, dropped, unsure, failures>>

Run == FetchOnce \/ Dispatch \/ BatchDone \/ BeginFlush \/ Resend \/ EndFlush
Next == Press \/ Run \/ Crash

Spec == Init /\ [][Next]_vars
\* Run goes on until its context is cancelled.
FairSpec == Spec /\ WF_vars(Run)

-----------------------------------------------------------------------------
QueueType ==
  /\ pending \in Seq(Callbacks) /\ queue \in Seq(Callbacks) /\ remaining \in Seq(Callbacks)
  /\ batch \in Seq(1..sent)
  /\ Len(pending) + Len(queue) + Len(remaining) <= maxPending

CoreType ==
  /\ taken \in Seq({Request(u) : u \in Callbacks})
  /\ logged \subseteq ToSet(taken) /\ {h.callback_id : h \in handled} \subseteq Taken
  /\ InMemory \cup Taken \subseteq 1..sent

TypeOK ==
  /\ sent \in 0..MaxUpdates /\ confirmed \in 0..sent /\ offset \in 0..sent + 1
  /\ pc \in {"fetch", "dispatch", "tick", "flush"}
  /\ QueueType /\ CoreType
  /\ dropped \subseteq Callbacks /\ lost \subseteq Callbacks /\ unsure \subseteq Callbacks
  /\ failures \in 0..MaxFailures /\ crashes \in 0..MaxCrashes

\* The core took the press with the verb and the request id of its button.
Understood(u) ==
  \E m \in ToSet(taken) :
    m.callback_id = u /\ m.request_id = RequestId[u] /\ (m.kind = Verb[u] \/ Verb[u] = "other")

\* No callback Telegram will not send again is unaccounted for: the core took
\* it as it was meant, the gate still has it, or it was given up by a full queue
\* or lost with a dead gate.
NothingVanishesUnseen ==
  \A u \in Callbacks : u <= confirmed => Understood(u) \/ u \in InMemory \cup dropped \cup lost

\* The retry queue keeps the order of the presses, so what a full queue gives
\* up is older than everything it keeps.
QueueInOrder ==
  LET all == remaining \o queue \o pending
  IN \A i, j \in DOMAIN all : i < j => all[i] < all[j]

\* The core gets a callback twice only when a call failed after it took it, or
\* when the gate died before it confirmed the update.
TwiceOnlyIfUnsure ==
  \A i, j \in DOMAIN taken : i < j /\ taken[i] = taken[j] => taken[i].callback_id \in unsure \/ crashes > 0

\* Once the failures are over every press reaches the core, if the gate lives
\* and its queue was long enough.
PressArrives ==
  \A u \in Callbacks : sent >= u ~> (Understood(u) \/ u \in dropped \cup lost)
=============================================================================
