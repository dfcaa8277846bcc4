------------------------------ MODULE MC_Desk ------------------------------
(* Few incidents and pages of two; beside them every small calendar and    *)
(* runbook, as the file core was started with.                             *)
EXTENDS Desk, Roster, RunbookSchema

VARIABLES calendar, runbook

Calendars == BoundedSeq([person : {"ann", "bob", "cy", Nobody},
                         form : {"utc", "date", "local"}, start : {0, 2, 3, 5}], 3)
Steps == [name : {"look", "act", "bad"}, action : {"x", "bad"},
          risk : RISK_LEVELS \cup {"other"}, dry_run_capable : {"yes", "bad"}]
Runbooks == [name : {"rb", "bad"}, service : {"api"}, description : {"text"},
             steps : BoundedSeq(Steps, 2)]
Blank == [name |-> "bad", service |-> "api", description |-> "text", steps |-> <<>>]

\* The desk works with no file read; each file is looked at in a state of its own.
MCInit ==
  /\ DeskInit
  /\ \/ calendar = <<>> /\ runbook = Blank
     \/ count = 0 /\ calendar \in Calendars /\ runbook = Blank
     \/ count = 0 /\ calendar = <<>> /\ runbook \in Runbooks
MCNext == calendar = <<>> /\ runbook = Blank /\ DeskNext /\ UNCHANGED <<calendar, runbook>>
MCSpec == MCInit /\ [][MCNext]_<<deskVars, calendar, runbook>>

\* ChainIsSound of every calendar: now is 3, and the zone moves a shift that begins
\* now or just before to the other side of it.
EveryChainIsSound == ChainIsSound(calendar, 3)

\* AcceptedIsWhole of every runbook.
EveryRunbookIsWhole == AcceptedIsWhole(runbook)
=============================================================================
