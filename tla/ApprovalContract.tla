-------------------------- MODULE ApprovalContract --------------------------
(***************************************************************************)
(* What the approval of mutating steps promises, with no thread, table or  *)
(* dictionary in it: a request is decided at most once, it is given up     *)
(* only after everybody who can be reminded was reminded, and it runs at   *)
(* most once and only when it was granted.                                 *)
(***************************************************************************)
EXTENDS Naturals

CONSTANTS
  Requests,     \* the requests somebody may raise
  MinReminders  \* reminders owed before a request may be given up

VARIABLES
  decision,  \* "open", "granted", "rejected" or "abandoned"
  reminders, \* reminders sent for a request
  ran        \* times the request was handed to the executor

cvars == <<decision, reminders, ran>>

Init ==
  /\ decision = [r \in Requests |-> "open"]
  /\ reminders = [r \in Requests |-> 0]
  /\ ran = [r \in Requests |-> 0]

Settle(r, verdict) ==
  /\ decision[r] = "open"
  /\ decision' = [decision EXCEPT ![r] = verdict]
  /\ UNCHANGED <<reminders, ran>>

Grant(r) == Settle(r, "granted")
Reject(r) == Settle(r, "rejected")
GiveUp(r) == reminders[r] >= MinReminders /\ Settle(r, "abandoned")

\* A reminder may still be on its way when the decision is already taken.
Remind(r) ==
  /\ reminders' = [reminders EXCEPT ![r] = @ + 1]
  /\ UNCHANGED <<decision, ran>>

Run(r) ==
  /\ decision[r] = "granted"
  /\ ran[r] = 0
  /\ ran' = [ran EXCEPT ![r] = 1]
  /\ UNCHANGED <<decision, reminders>>

Next == \E r \in Requests : Grant(r) \/ Reject(r) \/ GiveUp(r) \/ Remind(r) \/ Run(r)

Spec == Init /\ [][Next]_cvars
=============================================================================
