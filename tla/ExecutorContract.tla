-------------------------- MODULE ExecutorContract --------------------------
(***************************************************************************)
(* What executing the approved steps of one incident promises, with no     *)
(* lock, thread, event or audit file in it: one attempt at a time, which   *)
(* takes its steps in order, each with a preview and then for real, only   *)
(* with a grant if a step mutates, and no attempt once all the steps       *)
(* behind an action key are done.  A preview acts on production, too, when *)
(* the command has none: it is then the command itself.                    *)
(***************************************************************************)
EXTENDS Naturals

CONSTANTS
  Reports,    \* what may be executed
  StepsOf,    \* per report, how many steps it has
  Mutating,   \* the reports with a mutating step
  Unpreviewed, \* per report, the steps whose preview is the command itself
  KeyOf       \* per report, its action key

VARIABLES
  status,     \* the incident's status
  granted,    \* somebody approved a mutating step of the incident
  done,       \* the action keys that need no further attempt
  attempts,   \* the attempt under way, if any: a report, its next step and which
              \* of the two turns of the step is next
  applied     \* per report and step, how often the step acted on production

cvars == <<status, granted, done, attempts, applied>>

Attempt(r, i, turn) == [report |-> r, next |-> i, turn |-> turn]

Init ==
  /\ status = "open" /\ granted = FALSE
  /\ done = {} /\ attempts = {}
  /\ applied = [r \in Reports |-> [i \in 1..StepsOf[r] |-> 0]]

Begin(r) ==
  /\ attempts = {}
  /\ KeyOf[r] \notin done
  /\ status \notin {"mitigated", "resolved"}
  /\ attempts' = {Attempt(r, 1, "preview")}
  /\ UNCHANGED <<status, granted, done, applied>>

Acted(r, i) == [applied EXCEPT ![r][i] = @ + 1]

\* The next step is previewed, if it has to be; the attempt goes on or is over.
Preview(r, i) ==
  /\ attempts = {Attempt(r, i, "preview")}
  /\ i <= StepsOf[r]
  /\ r \in Mutating => granted
  /\ applied' \in IF i \in Unpreviewed[r] THEN {applied, Acted(r, i)} ELSE {applied}
  /\ attempts' \in {{Attempt(r, i, "act")}, {}}
  /\ UNCHANGED <<status, granted, done>>

\* It is run and acts, or the command achieves nothing.
Act(r, i) ==
  /\ attempts = {Attempt(r, i, "act")}
  /\ r \in Mutating => granted
  /\ applied' \in {applied, Acted(r, i)}
  /\ attempts' \in {{Attempt(r, i + 1, "preview")}, {}}
  /\ UNCHANGED <<status, granted, done>>

\* An attempt may be given up anywhere: rejected, failed or cut short.
Stop ==
  /\ attempts # {} /\ attempts' = {}
  /\ UNCHANGED <<status, granted, done, applied>>

Finish(r) ==
  /\ attempts = {Attempt(r, StepsOf[r] + 1, "preview")}
  /\ attempts' = {}
  /\ done' = done \cup {KeyOf[r]}
  /\ UNCHANGED <<status, granted, applied>>

\* Meanwhile people approve, and move the incident on.
Outside ==
  /\ granted' \in {granted, TRUE}
  /\ status' \in {status, "investigating", "mitigated", "resolved"}
  /\ UNCHANGED <<done, attempts, applied>>

Next ==
  \/ \E r \in Reports : \/ Begin(r) \/ Finish(r)
                       \/ \E i \in 1..StepsOf[r] : Preview(r, i) \/ Act(r, i)
  \/ Stop \/ Outside

Spec == Init /\ [][Next]_cvars
=============================================================================
