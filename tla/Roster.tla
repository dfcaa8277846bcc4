------------------------------- MODULE Roster -------------------------------
(***************************************************************************)
(* Who is on call: roster_from_ics, which reads the events of a calendar   *)
(* file, and Roster.chain, the order of escalation.  A person is a member  *)
(* of a small set, a time a number; of an event's text only that matters   *)
(* which of the parser's patterns it meets.                                *)
(***************************************************************************)
EXTENDS Integers, Sequences, FiniteSets

CONSTANT Zone  \* what the clock of the machine is ahead of UTC by

ASSUME ZoneAssumption == Zone \in Int

Admin == "admin"
Nobody == "nobody"

\* A VEVENT as the parser sees it: the person of SUMMARY (Nobody without one) and
\* its DTSTART: "utc" (...Z) and "date" can be parsed, "local" (a time without
\* Z) is taken for a date and fails, "none" is missing.  start is the instant the
\* calendar means, a date being midnight where the machine is.
Event(person, form, start) == [person |-> person, form |-> form, start |-> start]

\* now_candidates: the others are skipped without a word.
Usable(events) ==
  {i \in DOMAIN events : events[i].person # Nobody /\ events[i].form \in {"utc", "date"}}

\* datetime.strptime(...).timestamp(): the Z is matched as a letter, so a time in
\* UTC is taken for one of the machine's own zone.
ts(event) == IF event.form = "utc" THEN event.start - Zone ELSE event.start

\* The members of S in an order, which is a set of pairs.
Ordered(S, order) ==
  LET Place(i) == Cardinality({j \in S : <<j, i>> \in order})
  IN [k \in 1..Cardinality(S) |-> CHOOSE i \in S : Place(i) = k - 1]

\* By ts; events of the same ts stay in the order of the file.
Earlier(events) ==
  {pair \in (DOMAIN events) \X (DOMAIN events) :
     LET i == pair[1]  j == pair[2]
     IN ts(events[i]) < ts(events[j]) \/ (ts(events[i]) = ts(events[j]) /\ i < j)}
ByStart(events, S) == Ordered(S, Earlier(events))

\* Mutation: the first of the past shifts is taken for the one on duty.
OnDutyOldest(events, now) ==
  LET past == ByStart(events, {i \in Usable(events) : ts(events[i]) <= now})
      future == ByStart(events, {i \in Usable(events) : ts(events[i]) > now})
  IN IF past = <<>> THEN future ELSE <<past[1]>> \o future

\* The shift that began last by the times it was parsed to, then those to begin.
OnDuty(events, now) ==
  LET past == ByStart(events, {i \in Usable(events) : ts(events[i]) <= now})
      future == ByStart(events, {i \in Usable(events) : ts(events[i]) > now})
  IN IF past = <<>> THEN future ELSE <<past[Len(past)]>> \o future

\* Every person at the places in S once, where it stands first.
Uniq(people, S) ==
  LET first == {k \in S : \A j \in S : j < k => people[j] # people[k]}
      places == Ordered(first, {pair \in first \X first : pair[1] < pair[2]})
  IN [n \in DOMAIN places |-> people[places[n]]]

\* The three roles, filled up with admin.
roster_from_ics(events, now) ==
  LET duty == OnDuty(events, now)
      people == Uniq([k \in DOMAIN duty |-> events[duty[k]].person], DOMAIN duty)
  IN SubSeq(people \o <<Admin, Admin, Admin>>, 1, 3)

chain(roster) == Uniq(roster, {k \in DOMAIN roster : roster[k] # Nobody})

-----------------------------------------------------------------------------
\* Whatever the calendar holds, the chain names somebody, nobody twice, and first
\* the one whose shift began last, then shifts to come, the nearest first, and the
\* admin at the end: among the shifts that can be read, and up to what the zone
\* puts their times off by.  Where the clock is at UTC that is what the docstring
\* promises of them; a shift given in local time is never among them.
ChainIsSound(events, now) ==
  LET who == chain(roster_from_ics(events, now))
      off == IF Zone < 0 THEN -Zone ELSE Zone
      readable == {i \in DOMAIN events :
                     events[i].person # Nobody /\ events[i].form \notin {"local", "none"}}
      begun == {i \in readable : events[i].start <= now - off}
      Shift(i, p) == i \in readable /\ events[i].person = p
  IN /\ who # <<>> /\ \A j, k \in DOMAIN who : who[j] = who[k] => j = k
     /\ begun # {} => \E i \in readable :
          /\ Shift(i, who[1]) /\ events[i].start <= now + off
          /\ \A j \in begun : events[j].start <= events[i].start + off
     /\ \A k \in 2..Len(who) :
          \/ who[k] = Admin /\ \A j \in k + 1..Len(who) : FALSE
          \/ \E i \in readable \ begun :
               /\ Shift(i, who[k])
               /\ \A j \in 2..k - 1 : \E h \in readable \ begun :
                    Shift(h, who[j]) /\ events[h].start <= events[i].start + off
=============================================================================
