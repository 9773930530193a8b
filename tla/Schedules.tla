----------------------------- MODULE Schedules -----------------------------
(***************************************************************************)
(* The scheduled work of the bot processes: the notices of a raid channel, *)
(* the daily report and the weekly reset, over one guild config.           *)
(*                                                                         *)
(* The weekly job and the notices meet in the config document only.  A     *)
(* workload names who takes part; the others are off.                      *)
(***************************************************************************)
EXTENDS GuildNotices, RaidWeek

\* An actor makes claims under one name; the first day has a day before it.
ASSUME ActorsAssumption == Jobs \cap Workers = {} /\ IsFiniteSet(Claimers)
ASSUME WorkloadAssumption ==
  \A w \in Workloads :
    /\ {w.from, w.trouble, w.edits} \subseteq Nat /\ w.from >= SlotsPerDay
    /\ w.config \in Config
    /\ w.users \subseteq Users /\ w.week \in Nat \cup {NoWeek}
    /\ \A x \in DOMAIN w.tasks :
         w.tasks[x] \in Tasks /\ w.tasks[x].user \in w.users

vars == <<clock, guildVars, noticeVars, weekVars>>

Init == \E w \in Workloads : ClaimInit(w) /\ NoticeInit(w) /\ WeekInit(w)

Next ==
  \/ (Pass \/ Admin) /\ UNCHANGED <<noticeVars, weekVars>>
  \/ NoticeNext /\ UNCHANGED weekVars
  \/ WeekNext /\ UNCHANGED noticeVars

\* The clock goes on, and a weekly job ticks and comes to the end of its tick.
Fairness ==
  /\ WF_vars(Pass /\ UNCHANGED <<noticeVars, weekVars>>)
  /\ \A j \in Jobs :
       WF_vars((JobBegin(j) \/ JobStep(j)) /\ UNCHANGED noticeVars)

Spec == Init /\ [][Next]_vars
FairSpec == Spec /\ Fairness

\* The variables of the notices and of the weekly reset have their types.
TypeOK == NoticeTypeOK /\ WeekTypeOK
=============================================================================
