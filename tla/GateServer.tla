----------------------------- MODULE GateServer -----------------------------
(***************************************************************************)
(* What the gate does for core over gRPC: DeliverNotification, which posts *)
(* a triage report to Telegram with retries, and CollectContext, which     *)
(* asks every source at once.  The handlers share no state, so a behaviour *)
(* is one call of either kind.  The far sides - the Telegram API,          *)
(* Prometheus, Loki, the file of deployments - answer when and how they    *)
(* like, or never.                                                         *)
(***************************************************************************)
EXTENDS Naturals, FiniteSets

CONSTANTS
  Sources,       \* the names of the collectors buildCollectors can make
  sendAttempts   \* posts of one message, the first included

ASSUME GateAssumption ==
  /\ Sources = {"prometheus", "scaling", "logs", "deploys"}
  /\ sendAttempts \in Nat \ {0}

VARIABLES
  rpc,        \* the call: "DeliverNotification" or "CollectContext"
  \* a delivery
  shadow,     \* the flag make_triage_runner was given
  token,      \* TELEGRAM_BOT_TOKEN is set; without it the sender only logs
  dpc,        \* where the delivery stands
  attempt,    \* posts made so far
  shown,      \* how often the message appeared in the chat
  unsure,     \* posts that may have succeeded, but whose answer was lost
  dctx,       \* "open" until the caller's 15 seconds are over
  told,       \* what GateNotifier.deliver answered: "nothing", "yes", "no"
  \* a collection
  service,    \* the alert has a service label
  collectors, \* the sources configured
  cctx,       \* "open" until CollectTimeout is over
  left,       \* per collector, queries it still has to make
  cpc,        \* per collector: "ready", "run", "ok", "failed", "merged"
  bundle,     \* the sources whose fragment was merged, with multiplicity
  degraded,   \* the sources named in degraded_sources, with multiplicity
  fpc         \* FanOut: "idle", "wait", "returned"

deliveryVars == <<shadow, token, dpc, attempt, shown, unsure, dctx, told>>
collectVars  == <<service, collectors, cctx, left, cpc, bundle, degraded, fpc>>
gateVars == <<rpc, deliveryVars, collectVars>>

None == [c \in Sources |-> 0]

GateInit ==
  /\ rpc \in {"DeliverNotification", "CollectContext"}
  /\ shadow \in BOOLEAN /\ token \in BOOLEAN
  /\ dpc = "triage" /\ attempt = 0 /\ shown = 0 /\ unsure = 0
  /\ dctx = "open" /\ told = "nothing"
  /\ service \in BOOLEAN
  /\ collectors \in {Sources, Sources \ {"deploys"}}  \* DEPLOYMENTS_PATH may be empty
  /\ cctx = "open" /\ left = None
  /\ cpc = [c \in Sources |-> "ready"]
  /\ bundle = None /\ degraded = None
  /\ fpc = "idle"

-----------------------------------------------------------------------------
(* Delivery: make_triage_runner, GateNotifier, DeliverNotification, Sender. *)

\* The triage thread is over: a report is delivered, except in shadow mode; any
\* other outcome is only logged.
TriageEnds ==
  /\ rpc = "DeliverNotification" /\ dpc = "triage"
  /\ \/ ~shadow /\ dpc' = "call"
     \/ dpc' = "over"
  /\ UNCHANGED <<shadow, token, attempt, shown, unsure, dctx, told, collectVars, rpc>>

\* The handler; without a token SendMessage reports success and sends nothing.
DeliverNotification ==
  /\ dpc = "call"
  /\ dpc' = IF token THEN "post" ELSE "accepted"
  /\ UNCHANGED <<shadow, token, attempt, shown, unsure, dctx, told, collectVars, rpc>>

\* Mutation: the body of a 200 is decoded, and a bad one counts as transient.
PostDecoded ==
  /\ dpc = "post" /\ attempt' = attempt + 1
  /\ \/ dctx = "open" /\ dpc' = "accepted" /\ shown' = shown + 1 /\ unsure' = unsure
     \/ dctx = "open" /\ dpc' = "backoff" /\ shown' = shown + 1 /\ unsure' = unsure
  /\ UNCHANGED <<shadow, token, dctx, told, collectVars, rpc>>

\* postJSON: shown and answered 2xx; refused with a 4xx, which is final; 429,
\* 5xx or an error of the network, after which the message may be in the chat
\* or not.  Once the caller's deadline has passed a post fails at once.
Post ==
  /\ dpc = "post" /\ attempt' = attempt + 1
  /\ \/ dctx = "open" /\ dpc' = "accepted" /\ shown' = shown + 1 /\ unsure' = unsure
     \/ dctx = "open" /\ dpc' = "refused" /\ UNCHANGED <<shown, unsure>>
     \/ dpc' = "backoff" /\ UNCHANGED <<shown, unsure>>
     \/ dctx = "open" /\ dpc' = "backoff" /\ shown' = shown + 1 /\ unsure' = unsure + 1
  /\ UNCHANGED <<shadow, token, dctx, told, collectVars, rpc>>

\* Another attempt after the delay, or the attempts are used up, or the deadline
\* passed; when delay and deadline are both over, select takes either.
Backoff ==
  /\ dpc = "backoff"
  /\ \/ attempt < sendAttempts /\ dpc' = "post"
     \/ (attempt = sendAttempts \/ dctx = "over") /\ dpc' = "refused"
  /\ UNCHANGED <<shadow, token, attempt, shown, unsure, dctx, told, collectVars, rpc>>

\* The response reaches core, unless core gave up before.
Respond ==
  /\ dpc \in {"accepted", "refused"}
  /\ dpc' = "over"
  /\ told' = IF dctx = "open" THEN (IF dpc = "accepted" THEN "yes" ELSE "no") ELSE told
  /\ UNCHANGED <<shadow, token, attempt, shown, unsure, dctx, collectVars, rpc>>

\* The 15 seconds are over, or the connection breaks: deliver answers False and
\* the handler's context is cancelled.
CallerGivesUp ==
  /\ dpc \in {"call", "post", "backoff", "accepted", "refused"} /\ dctx = "open"
  /\ dctx' = "over" /\ told' = "no"
  /\ UNCHANGED <<shadow, token, dpc, attempt, shown, unsure, collectVars, rpc>>

Deliver == TriageEnds \/ DeliverNotification \/ Post \/ Backoff \/ Respond \/ CallerGivesUp

-----------------------------------------------------------------------------
(* Collection: FanOut and its collectors.                                  *)

\* How many requests a collector makes, one after the other: Prometheus three
\* about a service and one without, scaling none without a service.
QueriesOf(c) == CASE c = "prometheus" -> (IF service THEN 3 ELSE 1)
                  [] c = "scaling"    -> (IF service THEN 1 ELSE 0)
                  [] OTHER            -> 1

StartFanOut ==
  /\ rpc = "CollectContext"
  /\ fpc = "idle" /\ fpc' = "wait"
  /\ left' = [c \in Sources |-> QueriesOf(c)]
  /\ cpc' = [c \in Sources |-> IF c \in collectors THEN "run" ELSE "ready"]
  /\ UNCHANGED <<service, collectors, cctx, bundle, degraded, deliveryVars, rpc>>

\* A source answers: usable, or not - then the whole collector fails.
Answered(c) ==
  /\ cpc[c] = "run" /\ left[c] > 0
  /\ \/ left' = [left EXCEPT ![c] = @ - 1] /\ cpc' = cpc
     \/ left' = left /\ cpc' = [cpc EXCEPT ![c] = "failed"]
  /\ UNCHANGED <<service, collectors, cctx, bundle, degraded, fpc, deliveryVars, rpc>>

\* The last answer is in.
Collected(c) ==
  /\ cpc[c] = "run" /\ left[c] = 0
  /\ cpc' = [cpc EXCEPT ![c] = "ok"]
  /\ UNCHANGED <<service, collectors, cctx, left, bundle, degraded, fpc, deliveryVars, rpc>>

\* Mutation: the request to Loki is made without the context.
CancelledNotLogs(c) ==
  /\ cpc[c] = "run" /\ left[c] > 0 /\ c \notin {"deploys", "logs"} /\ cctx = "over"
  /\ cpc' = [cpc EXCEPT ![c] = "failed"]
  /\ UNCHANGED <<service, collectors, cctx, left, bundle, degraded, fpc, deliveryVars, rpc>>

\* A request that hangs is cancelled with the context.  Only the file of
\* deployments is read without one.
Cancelled(c) ==
  /\ cpc[c] = "run" /\ left[c] > 0 /\ c # "deploys" /\ cctx = "over"
  /\ cpc' = [cpc EXCEPT ![c] = "failed"]
  /\ UNCHANGED <<service, collectors, cctx, left, bundle, degraded, fpc, deliveryVars, rpc>>

\* Under the mutex: the fragment joins the bundle, or the source is degraded.
Merge(c) ==
  /\ cpc[c] \in {"ok", "failed"}
  /\ cpc' = [cpc EXCEPT ![c] = "merged"]
  /\ IF cpc[c] = "ok"
     THEN bundle' = [bundle EXCEPT ![c] = @ + 1] /\ degraded' = degraded
     ELSE degraded' = [degraded EXCEPT ![c] = @ + 1] /\ bundle' = bundle
  /\ UNCHANGED <<service, collectors, cctx, left, fpc, deliveryVars, rpc>>

TimeoutPasses ==
  /\ fpc = "wait" /\ cctx = "open" /\ cctx' = "over"
  /\ UNCHANGED <<service, collectors, left, cpc, bundle, degraded, fpc, deliveryVars, rpc>>

\* Mutation: FanOut waits for all of them or for the deadline, as its comment has it.
ReturnAtDeadline ==
  /\ fpc = "wait" /\ fpc' = "returned"
  /\ cctx = "over" \/ \A c \in collectors : cpc[c] = "merged"
  /\ UNCHANGED <<service, collectors, cctx, left, cpc, bundle, degraded, deliveryVars, rpc>>

\* wg.Wait is over: the bundle goes back.
ReturnBundle ==
  /\ fpc = "wait" /\ fpc' = "returned"
  /\ \A c \in collectors : cpc[c] = "merged"
  /\ UNCHANGED <<service, collectors, cctx, left, cpc, bundle, degraded, deliveryVars, rpc>>

Run(c) == Collected(c) \/ Cancelled(c) \/ Merge(c)
Collect == StartFanOut \/ TimeoutPasses \/ ReturnBundle
           \/ \E c \in Sources : Answered(c) \/ Run(c)

Terminating == (fpc = "returned" \/ dpc = "over") /\ UNCHANGED gateVars

GateNext == Deliver \/ Collect \/ Terminating

\* Timers run out, a file can be read to its end and goroutines proceed; that a
\* remote source answers is not assumed.
GateSpec == /\ GateInit /\ [][GateNext]_gateVars
        /\ WF_gateVars(TimeoutPasses) /\ WF_gateVars(ReturnBundle) /\ WF_gateVars(Answered("deploys"))
        /\ \A c \in Sources : WF_gateVars(Run(c))

-----------------------------------------------------------------------------
DeliveryType ==
  /\ shadow \in BOOLEAN /\ token \in BOOLEAN
  /\ dpc \in {"triage", "call", "post", "backoff", "accepted", "refused", "over"}
  /\ attempt \in 0..sendAttempts /\ shown \in Nat /\ unsure \in Nat
  /\ dctx \in {"open", "over"} /\ told \in {"nothing", "yes", "no"}

CollectType ==
  /\ service \in BOOLEAN /\ collectors \subseteq Sources
  /\ cctx \in {"open", "over"} /\ fpc \in {"idle", "wait", "returned"}
  /\ left \in [Sources -> 0..3]
  /\ cpc \in [Sources -> {"ready", "run", "ok", "failed", "merged"}]
  /\ bundle \in [Sources -> 0..1] /\ degraded \in [Sources -> 0..1]

GateTypeOK == rpc \in {"DeliverNotification", "CollectContext"} /\ DeliveryType /\ CollectType

\* Whichever collectors fail, hang or finish after the deadline, the bundle that
\* goes back accounts for every configured source exactly once: with its
\* fragment or as unavailable.
EverySourceAccounted ==
  fpc = "returned" =>
    \A c \in Sources : bundle[c] + degraded[c] = (IF c \in collectors THEN 1 ELSE 0)

\* Core's answer is right wherever it can be: with no answer lost and in time,
\* deliver says yes exactly when the message is in the chat once; a repetition
\* needs a post whose outcome nobody knew; in shadow mode there is no message.
ToldAsShown ==
  /\ shown <= 1 + unsure
  /\ shadow => shown = 0
  /\ told = "yes" /\ token => shown >= 1
  /\ told = "no" /\ dctx = "open" /\ unsure = 0 => shown = 0

\* However long a remote source hangs, the fan-out returns.
CollectEnds == fpc = "wait" ~> fpc = "returned"
=============================================================================
