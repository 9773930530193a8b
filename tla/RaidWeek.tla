------------------------------ MODULE RaidWeek ------------------------------
(***************************************************************************)
(* A raid of a character over the weekly reset: who writes its clears and  *)
(* the user's choices, and what the weekly job does to them                *)
(* (services/raid/schedulers/weekly-reset.js, handlers/raid/set, the       *)
(* auto-manage pipeline, raid-status/gold/gold-actions.js).                *)
(*                                                                         *)
(* Every writer loads the user document, first rolls it into the week of   *)
(* its own clock (ensureFreshWeek), changes the loaded copy and saves it;  *)
(* the save is rejected when somebody has saved since the load.  Clear     *)
(* logs are read, and the week they count for is fixed, well before that.  *)
(* The weekly job does the same for every user that is behind, with the    *)
(* clock it read when it began, and then announces the new week.           *)
(***************************************************************************)
EXTENDS GuildClaims

CONSTANTS
  Users, Jobs, Writers,
  NoUser,
  Gates,       \* number of gates of the raid
  Modes, NoMode,
  WeekLength,  \* slots of a week
  Window       \* slots after a reset in which it is announced

ASSUME JobsAssumption == Jobs \subseteq Claimers
ASSUME ModeAssumption ==
  /\ NoMode \notin Modes /\ Modes # {}
  /\ NoUser \notin Users /\ Users # {}
ASSUME WeekAssumption ==
  Gates \in Nat \ {0} /\ WeekLength \in Nat \ {0} /\ Window \in Nat

VARIABLES
  doc,     \* [SUBSET Users -> Doc]: the user documents
  writer,  \* [Writers -> Writer]: commands and syncs
  job      \* [Jobs -> Job]: the weekly job of a process

weekVars == <<doc, writer, job>>

Gate == 1..Gates
Never == 0     \* no date
NoWeek == -1   \* weeklyResetKey of a new user

\* `gold` is the time of the user's gold choice; `mode` stands for modeKey and
\* the gates' difficulty, which every writer keeps together.  `of` is a
\* history: when the clear behind a date of Local Sync really happened, the
\* other dates being their own.
Doc == [week : Nat \cup {NoWeek}, mode : Modes, clear : [Gate -> Nat],
        pending : Modes \cup {NoMode}, gold : Nat, of : [Gate -> Nat]]
Fight == [gate : Gate, mode : Modes, at : Nat]

\* What a writer is asked to do: /raid-set (mark or reset gates), a sync from
\* logs, a Local Sync apply, a mode or a gold choice.
Tasks == [kind : {"mark", "reset", "logs", "local", "mode", "gold"},
          user : Users, mode : Modes, gates : SUBSET Gate]
\* `since` is the week start the logs are read for, `now` the time its dates
\* get, `left` what is not yet applied to the loaded copy.
Writer == [at : {"off", "idle", "gather", "load", "apply"},
           task : Tasks, since : Nat, logs : SUBSET Fight, now : Nat,
           left : SUBSET Fight, draft : Doc, valid : BOOLEAN,
           dirty : BOOLEAN]
Job == [at : {"off", "idle", "find", "next", "save", "check", "scan", "claim",
              "send", "release"},
        now : Nat, todo : SUBSET Users, user : Users \cup {NoUser},
        draft : Doc, valid : BOOLEAN, modified : BOOLEAN,
        channel : Channels \cup {NoChannel}, to : Channels \cup {NoChannel}]

Week(t) == t \div WeekLength
WeekStart(t) == Week(t) * WeekLength
StartOf(week) == week * WeekLength

AnyMode == CHOOSE m \in Modes : TRUE
EmptyDoc == [week |-> NoWeek, mode |-> AnyMode,
             clear |-> [g \in Gate |-> Never], pending |-> NoMode,
             gold |-> Never, of |-> [g \in Gate |-> Never]]
IdleJob == [at |-> "idle", now |-> 0, todo |-> {}, user |-> NoUser,
            draft |-> EmptyDoc, valid |-> FALSE, modified |-> FALSE,
            channel |-> NoChannel, to |-> NoChannel]
IdleWriter(t) ==
  [at |-> IF t.kind \in {"logs", "local"} THEN "idle" ELSE "load",
   task |-> t, since |-> 0, logs |-> {}, now |-> 0, left |-> {},
   draft |-> EmptyDoc, valid |-> FALSE, dirty |-> FALSE]
NoTask == [kind |-> "mark", user |-> CHOOSE u \in Users : TRUE,
           mode |-> AnyMode, gates |-> {}]

\* The documents of w.users are of week w.week, or new (NoWeek).
WeekInit(w) ==
  /\ doc = [u \in w.users |-> [EmptyDoc EXCEPT !.week = w.week]]
  /\ writer = [x \in Writers |->
       IF x \in DOMAIN w.tasks THEN IdleWriter(w.tasks[x])
         ELSE [IdleWriter(NoTask) EXCEPT !.at = "off"]]
  /\ job = [j \in Jobs |-> IF j \in w.jobs THEN IdleJob
                             ELSE [IdleJob EXCEPT !.at = "off"]]

-----------------------------------------------------------------------------
(* What the writers do to a loaded document.                               *)

Cleared(d) == {g \in Gate : d.clear[g] # Never}

\* clearCharacterProgress and applyPendingModeAfterGateClear: dates since the
\* reset stay, the gold choice goes, and a mode that was chosen for after the
\* reset comes in, unless it would hide a clear that stayed.
Roll(d, start) ==
  LET kept == {g \in Gate : d.clear[g] # Never /\ d.clear[g] >= start}
  IN [d EXCEPT
       !.clear = [g \in Gate |-> IF g \in kept THEN d.clear[g] ELSE Never],
       !.of = [g \in Gate |-> IF g \in kept THEN d.of[g] ELSE Never],
       !.gold = Never,
       !.mode = IF d.pending # NoMode /\ kept = {} THEN d.pending ELSE d.mode,
       !.pending = NoMode]

\* Mutated form: the date decides, not the key, so the key is never written.
FreshLeavesKey(d, t) == IF d.week = Week(t) THEN d ELSE Roll(d, WeekStart(t))

\* ensureFreshWeek with the clock t.
Fresh(d, t) ==
  IF d.week = Week(t) THEN d
  ELSE [Roll(d, WeekStart(t)) EXCEPT !.week = Week(t)]

\* setAssignedRaidMode and resetAssignedRaidGates.
InMode(d, mode) ==
  IF d.mode = mode THEN d
  ELSE [d EXCEPT !.mode = mode, !.clear = [g \in Gate |-> Never],
                 !.of = [g \in Gate |-> Never]]

Stamp(d, gates, at, of) ==
  [d EXCEPT
     !.clear = [g \in Gate |-> IF g \in gates THEN at ELSE d.clear[g]],
     !.of = [g \in Gate |-> IF g \in gates THEN of ELSE d.of[g]]]

\* applyRaidSetToLoadedUserDoc, marking: nothing to do when every gate is done
\* in that mode.
Mark(d, mode, gates, now, of) ==
  IF d.mode = mode /\ gates \subseteq Cleared(d) THEN d
  ELSE Stamp(InMode(d, mode), gates, now, of)
Unmark(d, gates) == Stamp(d, gates, Never, Never)

\* applyModeDecision: at once without clears, after the reset with clears, and
\* the current mode takes back what was chosen for after the reset.
ChooseMode(d, mode) ==
  IF Cleared(d) = {} THEN [InMode(d, mode) EXCEPT !.pending = NoMode]
  ELSE [d EXCEPT !.pending = IF mode = d.mode THEN NoMode ELSE mode]

\* applyGoldReceive, for a set that includes the raid.
ChooseGold(d, now) == IF d.gold = Never THEN [d EXCEPT !.gold = now] ELSE d

\* reconcileCharacterFromLogs, one log: a complete raid stays, another mode
\* starts the raid anew, and a gate proves the gates before it.
Reconcile(d, log) ==
  IF Cleared(d) = Gate THEN d
  ELSE LET e == InMode(d, log.mode)
           new == {g \in 1..log.gate :
                     \/ e.clear[g] = Never
                     \/ g = log.gate /\ log.at > e.clear[g]}
       IN Stamp(e, new, log.at, Never)

\* bucketize: the last gate of each mode, with its latest clear.
Buckets(logs) ==
  {x \in logs : \A y \in logs :
     y.mode = x.mode => y.gate < x.gate \/ (y.gate = x.gate /\ y.at <= x.at)}

-----------------------------------------------------------------------------
(* The writers.                                                            *)

WriterTask(x) == writer[x].task

\* The clears a scan at time t may find, the raid being cleared once a week.
\* Bound: two of them, of the last two slots.
Logs(t) ==
  LET recent == [gate : Gate, mode : Modes, at : {t - 1, t} \ {Never}]
      once(f, g) == f.gate = g.gate /\ Week(f.at) = Week(g.at) => f = g
  IN {{}} \cup {{p[1], p[2]} : p \in
       {q \in recent \X recent : once(q[1], q[2])}}

FixWeek(x, step) ==
  writer' = [writer EXCEPT ![x].at = step, ![x].since = WeekStart(clock)]
Scan(x, step) ==
  \E logs \in Logs(clock) :
    writer' = [writer EXCEPT ![x].at = step, ![x].logs = logs]

\* The logs are read for the week of the clock at that time: a sync fixes the
\* week and then asks lostark.bible, Local Sync is handed the clears of an
\* earlier scan and then fixes the week.
Gather(x) ==
  /\ \/ /\ writer[x].at = "idle"
        /\ IF writer[x].task.kind = "logs" THEN FixWeek(x, "gather")
                                          ELSE Scan(x, "gather")
     \/ /\ writer[x].at = "gather"
        /\ IF writer[x].task.kind = "logs" THEN Scan(x, "load")
                                          ELSE FixWeek(x, "load")
  /\ UNCHANGED <<clock, guildVars, doc, job>>

\* Mutated form: the check is left to the caller.
WeekMovedNever(since) == FALSE

\* weekMovedSince: a reset has passed since the clears were filtered.
WeekMoved(since) == WeekStart(clock) > since

\* Mutated form: only the week the logs were read for counts.
SyncFloorOfCaller(since, d) == since

\* applyAutoManageCollected: never older than the document's own week.
SyncFloor(since, d) ==
  IF StartOf(d.week) > since THEN StartOf(d.week) ELSE since

\* The document is loaded and rolled into the week; a choice or a command is
\* applied at once.
Change(task, d) ==
  CASE task.kind = "mark" -> Mark(d, task.mode, task.gates, clock, Never)
    [] task.kind = "reset" -> Unmark(d, task.gates)
    [] task.kind = "mode" -> ChooseMode(d, task.mode)
    [] task.kind = "gold" -> ChooseGold(d, clock)
    [] OTHER -> d
Items(x, d) ==
  LET logs == writer[x].logs
      since == writer[x].since
  IN CASE WriterTask(x).kind = "logs" ->
            {l \in logs : l.at >= SyncFloor(since, d)}
       [] WriterTask(x).kind = "local" ->
            Buckets({l \in logs : l.at >= since})
       [] OTHER -> {}
Done(x) == writer' = [writer EXCEPT ![x] =
             [IdleWriter(WriterTask(x)) EXCEPT !.at = "off"]]

Load(x) ==
  LET task == WriterTask(x)
      stored == doc[task.user]
      d == Fresh(stored, clock)
      draft == Change(task, d)
  IN /\ writer[x].at = "load"
     /\ IF task.kind = "local" /\ WeekMoved(writer[x].since)
          THEN Done(x)
          ELSE writer' = [writer EXCEPT ![x].at = "apply",
                 ![x].now = clock, ![x].draft = draft, ![x].valid = TRUE,
                 ![x].left = Items(x, d),
                 ![x].dirty = \/ draft # d
                              \/ task.kind = "logs"
                              \/ task.kind = "mode" /\ draft # stored]
     /\ UNCHANGED <<clock, guildVars, doc, job>>

\* One item of a sync is applied to the copy: logs oldest first, the entries
\* of Local Sync in any order, with the date of the write.
Apply(x) ==
  LET w == writer[x]
  IN /\ w.at = "apply" /\ w.left # {}
     /\ \E l \in w.left :
          /\ w.task.kind = "logs" => \A y \in w.left : l.at <= y.at
          /\ LET d == IF w.task.kind = "logs" THEN Reconcile(w.draft, l)
                      ELSE Mark(w.draft, l.mode, 1..l.gate, w.now, l.at)
             IN writer' = [writer EXCEPT ![x].draft = d,
                  ![x].left = @ \ {l}, ![x].dirty = @ \/ d # w.draft]
     /\ UNCHANGED <<clock, guildVars, doc, job>>

\* doc.save() with optimistic concurrency: every other loaded copy is void.
Stored(u, d) ==
  doc' = [doc EXCEPT ![u] = d]
VoidWriters(u) ==
  [x \in Writers |-> IF writer[x].task.user = u /\ writer[x].valid
                       THEN [writer[x] EXCEPT !.valid = FALSE]
                       ELSE writer[x]]
VoidJobs(u) ==
  [j \in Jobs |-> IF job[j].user = u THEN [job[j] EXCEPT !.valid = FALSE]
                                     ELSE job[j]]

\* Mutated form: the schema has no optimistic concurrency.
SaveUnversioned(x) ==
  LET u == WriterTask(x).user
  IN /\ writer[x].at = "apply" /\ writer[x].left = {}
     /\ IF writer[x].dirty
          THEN /\ Stored(u, writer[x].draft)
               /\ job' = VoidJobs(u)
          ELSE UNCHANGED <<doc, job>>
     /\ Done(x)
     /\ UNCHANGED <<clock, guildVars>>

\* The save of a writer.  A rejected one loads again; attempts are not
\* counted, a writer may give up after any of them.
Save(x) ==
  LET u == WriterTask(x).user
  IN /\ writer[x].at = "apply" /\ writer[x].left = {}
     /\ \/ /\ writer[x].dirty /\ writer[x].valid
           /\ Stored(u, writer[x].draft)
           /\ job' = VoidJobs(u)
           /\ writer' = [VoidWriters(u) EXCEPT ![x] =
                [IdleWriter(WriterTask(x)) EXCEPT !.at = "off"]]
        \/ /\ writer[x].dirty /\ ~writer[x].valid
           /\ \/ Done(x)
              \/ writer' = [writer EXCEPT ![x] =
                   [IdleWriter(WriterTask(x)) EXCEPT !.at = "load",
                      !.since = writer[x].since, !.logs = writer[x].logs]]
           /\ UNCHANGED <<doc, job>>
        \/ ~writer[x].dirty /\ Done(x) /\ UNCHANGED <<doc, job>>
     /\ UNCHANGED <<clock, guildVars>>

-----------------------------------------------------------------------------
(* The weekly job.                                                         *)

JobAt(j, step) == job' = [job EXCEPT ![j].at = step]
JobRests(j) == job' = [job EXCEPT ![j] = IdleJob]

\* Mutated form: users without a week are not looked for.
StaleButNew(u, now) == doc[u].week # NoWeek /\ doc[u].week # Week(now)

\* The query of resetWeekly: any other key, older or newer.
Stale(u, now) == doc[u].week # Week(now)

\* resetWeekly reads the clock, then looks for users that are not in its week.
JobBegin(j) ==
  /\ job[j].at = "idle"
  /\ job' = [job EXCEPT ![j].at = "find", ![j].now = clock]
  /\ UNCHANGED <<clock, guildVars, doc, writer>>

JobFind(j) ==
  /\ job[j].at = "find"
  /\ \/ /\ job' = [job EXCEPT ![j].at = "next",
             ![j].todo = {u \in DOMAIN doc : Stale(u, job[j].now)}]
        /\ UNCHANGED guildVars
     \/ JobRests(j) /\ Fails
  /\ UNCHANGED <<clock, doc, writer>>

\* The next user is loaded and rolled; one that is in the week already is
\* left alone, one whose load fails is left for the next tick.
JobLoad(j) ==
  /\ job[j].at = "next" /\ job[j].todo # {}
  /\ \E u \in job[j].todo :
       \/ /\ job' = IF doc[u].week = Week(job[j].now)
               THEN [job EXCEPT ![j].todo = @ \ {u}]
               ELSE [job EXCEPT ![j].at = "save", ![j].user = u,
                       ![j].draft = Fresh(doc[u], job[j].now),
                       ![j].valid = TRUE]
          /\ UNCHANGED guildVars
       \/ job' = [job EXCEPT ![j].todo = @ \ {u}] /\ Fails
  /\ UNCHANGED <<clock, doc, writer>>

JobSave(j) ==
  LET u == job[j].user
      next(todo, modified) ==
        [job[j] EXCEPT !.at = "next", !.todo = todo, !.user = NoUser,
           !.draft = EmptyDoc, !.valid = FALSE, !.modified = modified]
  IN /\ job[j].at = "save"
     /\ \/ /\ job[j].valid
           /\ Stored(u, job[j].draft)
           /\ writer' = VoidWriters(u)
           /\ job' = [VoidJobs(u) EXCEPT ![j] =
                next(job[j].todo \ {u}, TRUE)]
        \/ /\ ~job[j].valid
           /\ \E todo \in {job[j].todo, job[j].todo \ {u}} :
                job' = [job EXCEPT ![j] = next(todo, job[j].modified)]
           /\ UNCHANGED <<doc, writer>>
     /\ UNCHANGED <<clock, guildVars>>

\* A tick that has rolled somebody announces the week, on the first day of the
\* week the clock shows by then.
JobCheck(j) ==
  /\ job[j].at = "next" /\ job[j].todo = {}
  /\ IF job[j].modified /\ clock - WeekStart(clock) < Window
       THEN JobAt(j, "scan") ELSE JobRests(j)
  /\ UNCHANGED <<clock, guildVars, doc, writer>>

\* postWeeklyResetAnnouncements, one guild.
JobScan(j) ==
  LET wanted == /\ keys["weekly"] # Week(job[j].now)
                /\ config.on["weekly"]
                /\ {config.channel, config.to["weekly"]} # {NoChannel}
  IN /\ job[j].at = "scan"
     /\ \/ /\ wanted
           /\ job' = [job EXCEPT ![j].at = "claim",
                ![j].channel = config.channel, ![j].to = config.to["weekly"]]
           /\ UNCHANGED guildVars
        \/ ~wanted /\ JobRests(j) /\ UNCHANGED guildVars
        \/ JobRests(j) /\ Fails
     /\ UNCHANGED <<clock, doc, writer>>

JobClaim(j) ==
  LET week == Week(job[j].now)
      guard == /\ keys["weekly"] # week
               /\ config.on["weekly"]
               /\ config.channel = job[j].channel
               /\ config.to["weekly"] = job[j].to
  IN /\ job[j].at = "claim"
     /\ Claims(j, guard, [f \in {"weekly"} |-> week]) \/ Fails
     /\ IF claim'[j] # NoClaim THEN JobAt(j, "send") ELSE JobRests(j)
     /\ UNCHANGED <<clock, doc, writer>>

JobSend(j) ==
  /\ job[j].at = "send"
  /\ \/ Serve(j) /\ JobRests(j)
     \/ Fails /\ JobAt(j, "release")
  /\ UNCHANGED <<clock, doc, writer>>

JobRelease(j) ==
  /\ job[j].at = "release"
  /\ Rollback(j) /\ JobRests(j)
  /\ UNCHANGED <<clock, doc, writer>>

JobDies(j) ==
  /\ job[j].at \notin {"off", "idle"}
  /\ Dies(j) /\ JobRests(j)
  /\ UNCHANGED <<clock, doc, writer>>

JobStep(j) ==
  \/ JobFind(j) \/ JobLoad(j) \/ JobSave(j) \/ JobCheck(j)
  \/ JobScan(j) \/ JobClaim(j) \/ JobSend(j) \/ JobRelease(j)

WeekNext ==
  \/ \E x \in Writers : Gather(x) \/ Load(x) \/ Apply(x) \/ Save(x)
  \/ \E j \in Jobs : JobBegin(j) \/ JobStep(j) \/ JobDies(j)

WeekTypeOK ==
  /\ GuildTypeOK
  /\ DOMAIN doc \subseteq Users /\ doc \in [DOMAIN doc -> Doc]
  /\ writer \in [Writers -> Writer]
  /\ job \in [Jobs -> Job]

\* A clear that is stored counts for the week of its document or a later one:
\* no writer, whatever week it read its logs or its clock in, brings back a
\* clear of a week that has been closed.
ClearsOfTheWeek ==
  \A u \in DOMAIN doc : \A g \in Cleared(doc[u]) :
    Week(doc[u].clear[g]) >= doc[u].week

\* A synced clear is dated into the week it was fought in, across any reset
\* between scan, filter, load and save.
CreditedWeek ==
  \A u \in DOMAIN doc : \A g \in Cleared(doc[u]) :
    doc[u].of[g] # Never => Week(doc[u].clear[g]) = Week(doc[u].of[g])

\* A clear of the running week leaves the document only when its owner resets
\* it, marks the raid in another mode or a clear of another mode is synced:
\* not in a rollover, be it late or done twice, not with a mode chosen for
\* after the reset, not in a lost update.
Replaces(x, u) ==
  /\ writer[x].task.user = u /\ writer[x].at = "apply"
  /\ writer'[x].at = "off"
  /\ \/ writer[x].task.kind = "reset"
     \/ writer[x].task.kind = "mark" /\ doc'[u].mode # doc[u].mode
     \/ /\ writer[x].task.kind \in {"logs", "local"}
        /\ \E log \in writer[x].logs : log.mode # doc[u].mode
NoClearLost ==
  [][\A u \in DOMAIN doc : \A g \in Cleared(doc[u]) \ Cleared(doc'[u]) :
       Week(doc[u].clear[g]) = Week(clock) =>
         \E x \in Writers : Replaces(x, u)]_<<clock, weekVars>>

\* A choice made after the reset survives it: the rollover that comes later
\* takes only choices of the week before, unless a weekly job that read its
\* clock before the reset puts the document back into the old week.
ChoiceKept ==
  [][\A u \in DOMAIN doc :
       /\ doc[u].gold # Never /\ Week(doc[u].gold) = Week(clock)
       /\ doc'[u].gold = Never
       => doc'[u].week < doc[u].week]_<<clock, weekVars>>

\* Catch-up: whatever failed, conflicted or fell behind, every user arrives in
\* the week of the clock and stays there.
EveryoneRollsOver ==
  <>[](\A u \in DOMAIN doc : doc[u].week = Week(Horizon))
=============================================================================
