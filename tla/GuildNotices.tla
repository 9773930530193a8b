---------------------------- MODULE GuildNotices ----------------------------
(***************************************************************************)
(* The notices of a raid channel, the daily roster report and the          *)
(* reminders of maintenances and world events                              *)
(* (services/raid/schedulers/auto-cleanup-scheduler.js,                    *)
(* daily-roster-announcement.js, maintenance-scheduler.js and              *)
(* world-event-reminder-scheduler.js).                                     *)
(*                                                                         *)
(* In every bot process a sweeper wakes up once a slot: at night it says   *)
(* good night once, in the morning it cleans up and says good morning,     *)
(* and in every other slot it cleans up.  A reporter runs at the end of    *)
(* the daily refresh and posts the report of the day before once every     *)
(* user is through; in a guild whose report has no channel of its own it   *)
(* rides the next cleanup notice instead.  A reminder posts what is due at *)
(* the time it wakes up.  All read the clock when they begin and use that  *)
(* time to the end.                                                        *)
(***************************************************************************)
EXTENDS GuildClaims

CONSTANTS
  Sweepers, Reporters,
  Reminders,    \* the reminders, a maintenance and a world event one each
  Topics,       \* [Reminders -> SUBSET Reminded]: what each reminds of
  DueKeys,      \* [Reminded -> [times -> key]]: the key due at a time
  SlotsPerDay,  \* slots of a day
  QuietStart,   \* ARTIST_QUIET_START_HOUR_VN, in slots
  QuietEnd      \* ARTIST_QUIET_END_HOUR_VN, in slots

Workers == Sweepers \cup Reporters \cup Reminders

ASSUME WorkersAssumption ==
  /\ Workers \subseteq Claimers
  /\ Sweepers \cap Reporters = {}
  /\ Reminders \cap (Sweepers \cup Reporters) = {}
ASSUME ReminderAssumption ==
  /\ Topics \in [Reminders -> SUBSET Reminded]
  /\ DOMAIN DueKeys = Reminded
  /\ \A k \in Reminded : \A t \in DOMAIN DueKeys[k] : DueKeys[k][t] \in Nat
ASSUME DayAssumption ==
  /\ SlotsPerDay \in Nat \ {0}
  /\ {QuietStart, QuietEnd} \subseteq Nat

VARIABLES
  task,     \* [Workers -> Task]: what a scheduler tick waits for
  allDone   \* the day every user is through with, as the database has it

noticeVars == <<task, allDone>>

Steps == {"off", "idle", "scan", "claim", "bedtime", "clean", "summary",
          "claimReport", "send", "resend", "release"}
Phases == {"bedtime", "wakeup", "cleanup", "daily"} \cup Reminded

\* `to` is the report's own channel as the scan found it.
Task == [at : Steps, now : Nat, phase : Phases,
         channel : Channels \cup {NoChannel},
         to : Channels \cup {NoChannel}, rides : BOOLEAN]
Idle == [at |-> "idle", now |-> 0, phase |-> "cleanup",
         channel |-> NoChannel, to |-> NoChannel, rides |-> FALSE]

Day(t) == t \div SlotsPerDay
Hour(t) == t % SlotsPerDay
Target(t) == Day(t) - 1   \* targetDayKey: the day that is complete

NoticeInit(w) ==
  /\ task = [a \in Workers |-> IF a \in w.workers THEN Idle
                                 ELSE [Idle EXCEPT !.at = "off"]]
  /\ allDone = NoKey

-----------------------------------------------------------------------------
(* Helpers.                                                                *)

Quiet(t) == Hour(t) >= QuietStart /\ Hour(t) < QuietEnd
Awake(t) == Hour(t) >= QuietEnd

\* CLEANUP_PHASES: the first that applies.  Night is quiet also once the good
\* night has been said.
PhaseAt(t) ==
  IF Quiet(t) THEN "bedtime"
  ELSE IF Awake(t) /\ keys["wakeup"] # Day(t) THEN "wakeup"
  ELSE "cleanup"

KeyOf(phase, t) ==
  CASE phase = "cleanup" -> t
    [] phase = "daily" -> Target(t)
    [] phase \in Reminded -> DueKeys[phase][t]
    [] OTHER -> Day(t)

\* The morning counts as the cleanup of its slot.
ClaimOf(phase, t) ==
  [f \in {phase} \cup (IF phase = "wakeup" THEN {"cleanup"} ELSE {}) |->
     KeyOf(f, t)]

\* What a reminder has to say at a time: getMaintenanceSlotForNow and
\* resolveWorldEventReminderForNow.
Due(a, t) == {k \in Topics[a] : t \in DOMAIN DueKeys[k]}

\* ridesCleanupNotice
Rides(cfg) ==
  /\ cfg.sweeping /\ cfg.channel # NoChannel
  /\ cfg.to["daily"] \in {NoChannel, cfg.channel}

Step(a, step) == task' = [task EXCEPT ![a].at = step]
Rest(a) == task' = [task EXCEPT ![a] = Idle]
Quietly == UNCHANGED <<clock, guildVars, allDone>>

-----------------------------------------------------------------------------
(* A tick.  This section is about the sweeper's.                           *)

\* nowDate(), before the configs are loaded.  A reminder finds out what is
\* due, if anything.
TickBegin(a) ==
  /\ task[a].at = "idle"
  /\ \E phase \in IF a \in Reminders THEN Due(a, clock) ELSE {"cleanup"} :
       task' = [task EXCEPT ![a].at = "scan", ![a].now = clock,
                  ![a].phase = phase]
  /\ Quietly

\* The config is loaded, its channel resolved and the phase chosen; an
\* unresolved channel skips the guild.
SweepScan(a) ==
  LET now == task[a].now
      phase == PhaseAt(now)
  IN /\ a \in Sweepers /\ task[a].at = "scan"
     /\ \/ /\ config.sweeping /\ config.channel # NoChannel
           /\ keys[phase] # KeyOf(phase, now)
           /\ task' = [task EXCEPT ![a] =
                [at |-> "claim", now |-> now, phase |-> phase,
                 channel |-> config.channel, to |-> config.to["daily"],
                 rides |-> /\ config.on["daily"] /\ Rides(config)
                           /\ keys["daily"] # Target(now)]]
           /\ UNCHANGED guildVars
        \/ /\ \/ ~config.sweeping \/ config.channel = NoChannel
              \/ keys[phase] = KeyOf(phase, now)
           /\ Rest(a) /\ UNCHANGED guildVars
        \/ Rest(a) /\ Fails
     /\ UNCHANGED <<clock, allDone>>

\* Mutated form: the guard forgets that another process may have been faster.
SweepClaimBlind(a) ==
  /\ a \in Sweepers /\ task[a].at = "claim"
  /\ LET guard == config.sweeping /\ config.channel = task[a].channel
     IN /\ Claims(a, guard, ClaimOf(task[a].phase, task[a].now))
        /\ IF claim'[a] # NoClaim
             THEN Step(a, IF task[a].phase = "bedtime" THEN "bedtime"
                                                       ELSE "clean")
             ELSE Rest(a)
  /\ UNCHANGED <<clock, allDone>>

\* The claim of a phase.  Without it the tick is over.
SweepClaim(a) ==
  /\ a \in Sweepers /\ task[a].at = "claim"
  /\ LET phase == task[a].phase
         guard == /\ config.sweeping
                  /\ config.channel = task[a].channel
                  /\ keys[phase] # KeyOf(phase, task[a].now)
     IN /\ \/ Claims(a, guard, ClaimOf(phase, task[a].now))
           \/ Fails
        /\ IF claim'[a] # NoClaim
             THEN Step(a, IF phase = "bedtime" THEN "bedtime" ELSE "clean")
             ELSE Rest(a)
  /\ UNCHANGED <<clock, allDone>>

\* The good night is posted; a guild that has it switched off is done as well.
Bedtime(a) ==
  /\ task[a].at = "bedtime"
  /\ \/ Serve(a) /\ Rest(a)
     \/ Fails /\ Step(a, "release")
  /\ UNCHANGED <<clock, allDone>>

\* The channel is cleaned.  What happens to the notice after that does not
\* touch the claim any more.
Clean(a) ==
  /\ task[a].at = "clean"
  /\ \/ /\ Serve(a)
        /\ IF task[a].rides THEN Step(a, "summary") ELSE Rest(a)
     \/ Fails /\ Step(a, "release")
  /\ UNCHANGED <<clock, allDone>>

-----------------------------------------------------------------------------
(* The daily report, in a notice or on its own.                            *)

\* The guild is not reported to yet, and it has a channel of its own.
ReportScan(a) ==
  LET now == task[a].now
      wanted == /\ keys["daily"] # Target(now)
                /\ config.on["daily"] /\ ~Rides(config)
                /\ {config.channel, config.to["daily"]} # {NoChannel}
  IN /\ a \in Reporters /\ task[a].at = "scan"
     /\ \/ /\ wanted
           /\ task' = [task EXCEPT ![a] =
                [at |-> "summary", now |-> now, phase |-> "daily",
                 channel |-> config.channel, to |-> config.to["daily"],
                 rides |-> FALSE]]
           /\ UNCHANGED guildVars
        \/ ~wanted /\ Rest(a) /\ UNCHANGED guildVars
        \/ Rest(a) /\ Fails
     /\ UNCHANGED <<clock, allDone>>

\* loadDailyRosterSummary: every user is through, or nothing to report.
Summary(a) ==
  /\ task[a].at = "summary"
  /\ IF allDone = Target(task[a].now) THEN Step(a, "claimReport") ELSE Rest(a)
  /\ Quietly

\* claimDailyRosterAnnouncement
ClaimReport(a) ==
  /\ task[a].at = "claimReport"
  /\ LET day == Target(task[a].now)
         guard == /\ keys["daily"] # day
                  /\ config.on["daily"]
                  /\ config.channel = task[a].channel
                  /\ config.to["daily"] = task[a].to
     IN /\ Claims(a, guard, ClaimOf("daily", task[a].now)) \/ Fails
        /\ IF claim'[a] # NoClaim THEN Step(a, "send") ELSE Rest(a)
  /\ UNCHANGED <<clock, allDone>>

-----------------------------------------------------------------------------
(* A reminder of a maintenance or a world event.                           *)

\* The guild wants it, has a channel for it and has not got it yet.
RemindScan(a) ==
  LET now == task[a].now
      kind == task[a].phase
      wanted == /\ config.on[kind]
                /\ keys[kind] # KeyOf(kind, now)
                /\ {config.channel, config.to[kind]} # {NoChannel}
  IN /\ a \in Reminders /\ task[a].at = "scan"
     /\ \/ /\ wanted
           /\ task' = [task EXCEPT ![a].at = "claim",
                ![a].channel = config.channel, ![a].to = config.to[kind]]
           /\ UNCHANGED guildVars
        \/ ~wanted /\ Rest(a) /\ UNCHANGED guildVars
        \/ Rest(a) /\ Fails
     /\ UNCHANGED <<clock, allDone>>

\* claimMaintenanceTick and claimWorldEventReminder
RemindClaim(a) ==
  /\ a \in Reminders /\ task[a].at = "claim"
  /\ LET kind == task[a].phase
         guard == /\ keys[kind] # KeyOf(kind, task[a].now)
                  /\ config.on[kind]
                  /\ config.channel = task[a].channel
                  /\ config.to[kind] = task[a].to
     IN /\ Claims(a, guard, ClaimOf(kind, task[a].now)) \/ Fails
        /\ IF claim'[a] # NoClaim THEN Step(a, "send") ELSE Rest(a)
  /\ UNCHANGED <<clock, allDone>>

-----------------------------------------------------------------------------
(* The end of a claim.                                                     *)

\* Mutated form: a report that was not sent is not handed back.
SendKeeps(a) ==
  /\ task[a].at \in {"send", "resend"}
  /\ \/ Serve(a) /\ Rest(a)
     \/ /\ trouble > 0 /\ trouble' = trouble - 1
        /\ claim' = [claim EXCEPT ![a] = NoClaim]
        /\ UNCHANGED <<config, keys, history, edits>>
        /\ Rest(a)
  /\ UNCHANGED <<clock, allDone>>

\* The notice, the message with the report or the reminder is sent; a
\* maintenance is tried twice.
Send(a) ==
  /\ task[a].at \in {"send", "resend"}
  /\ \/ Serve(a) /\ Rest(a)
     \/ /\ Fails
        /\ Step(a, IF /\ task[a].phase \in {"early", "countdown"}
                      /\ task[a].at = "send"
                     THEN "resend" ELSE "release")
  /\ UNCHANGED <<clock, allDone>>

\* The claim of a phase or of a report is handed back.
Release(a) ==
  /\ task[a].at = "release"
  /\ Rollback(a) /\ Rest(a)
  /\ UNCHANGED <<clock, allDone>>

-----------------------------------------------------------------------------
(* The surroundings.                                                       *)

\* The daily refresh: every user is through with the day before, or somebody
\* is not any more (a new roster, the next day's first user).
UsersFinish ==
  /\ allDone' \in {NoKey, Target(clock)} \ {allDone}
  /\ UNCHANGED <<clock, guildVars, task>>

\* A process dies in the middle of a tick and is started again.
WorkerDies(a) ==
  /\ task[a].at \notin {"off", "idle"}
  /\ Dies(a) /\ Rest(a)
  /\ UNCHANGED <<clock, allDone>>

WorkerStep(a) ==
  \/ SweepScan(a) \/ SweepClaim(a) \/ Bedtime(a) \/ Clean(a)
  \/ ReportScan(a) \/ Summary(a) \/ ClaimReport(a)
  \/ RemindScan(a) \/ RemindClaim(a) \/ Send(a) \/ Release(a)

NoticeNext ==
  \/ UsersFinish
  \/ \E a \in Workers : TickBegin(a) \/ WorkerStep(a) \/ WorkerDies(a)

NoticeTypeOK ==
  /\ GuildTypeOK
  /\ task \in [Workers -> Task]
  /\ allDone \in Key
=============================================================================
