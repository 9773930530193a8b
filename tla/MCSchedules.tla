---------------------------- MODULE MCSchedules ----------------------------
(***************************************************************************)
(* Instance of Schedules for TLC: one guild, one raid of two gates.        *)
(***************************************************************************)
EXTENDS Schedules, TLC

CONSTANTS a1, a2, r1, r2, m1, m2, j1, j2, c1, c2, u1, u2, x1, x2, normal, hard

\* The guild has a channel and wants both reports, the daily one with the
\* cleanup notice.
Riding == [channel |-> c1, sweeping |-> TRUE,
           on |-> [r \in Reports |-> TRUE],
           to |-> [r \in Reports |-> NoChannel]]
\* The same with a channel of its own for the daily report.
Apart == [Riding EXCEPT !.to["daily"] = c2]

\* An early reminder, then a countdown that two machines may be late for; a
\* world event that is announced over two slots.  Topics do not share a key,
\* so one worker stands for both reminders of a machine.
Due9 == [early |-> 7 :> 7, countdown |-> 8 :> 8, event |-> 8 :> 9 @@ 9 :> 9]
AllTopics == [a \in {m1, m2} |-> Reminded]

Quietest == [from |-> 7, config |-> Riding, trouble |-> 0, edits |-> 0,
             workers |-> {}, users |-> {}, week |-> 0,
             tasks |-> <<>>, jobs |-> {}]

Asks(kind, mode, gates) ==
  [kind |-> kind, user |-> u1, mode |-> mode, gates |-> gates]

\* Nothing to announce: no channel.
Silent == [Riding EXCEPT !.channel = NoChannel]

\* The notices: two sweepers, in a morning of two slots or over midnight; a
\* sweeper, a reporter and an admin; two
\* reporters; two reminders, or one and an admin.
Notices ==
  {[Quietest EXCEPT !.workers = {a1, a2}, !.trouble = 1, !.from = 6],
   [Quietest EXCEPT !.workers = {a1, a2}, !.trouble = 2],
   [Quietest EXCEPT !.workers = {a1, r1}, !.edits = 1, !.trouble = 1],
   [Quietest EXCEPT !.workers = {r1, r2}, !.config = Apart, !.trouble = 2],
   [Quietest EXCEPT !.workers = {m1, m2}, !.trouble = 2],
   [Quietest EXCEPT !.workers = {m1}, !.trouble = 2, !.edits = 1]}

\* The weekly job on two machines, with new users.
Announcements ==
  {[Quietest EXCEPT !.jobs = {j1, j2}, !.users = {u1, u2}, !.from = 8,
      !.week = NoWeek, !.trouble = 2]}

\* The weekly job beside two writers of one document, over a reset.
Writing(from, one, other) ==
  [Quietest EXCEPT !.jobs = {j1}, !.users = {u1}, !.config = Silent,
     !.from = from,
     !.tasks = x1 :> Asks(one, hard, {1}) @@ x2 :> Asks(other, normal, {1, 2})]
Documents ==
  {Writing(8, "mark", "logs"), Writing(8, "mark", "local"),
   Writing(8, "logs", "mode"), Writing(8, "mode", "local"),
   Writing(8, "gold", "local"), Writing(7, "reset", "mark"),
   Writing(7, "mark", "mode"), Writing(7, "mark", "gold"),
   Writing(7, "mode", "gold")}

AllWorkloads == Notices \cup Announcements \cup Documents
=============================================================================
