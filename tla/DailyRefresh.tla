---------------------------- MODULE DailyRefresh ----------------------------
(***************************************************************************)
(* The daily roster refresh of a user and the sync modes it must respect.  *)
(*                                                                         *)
(* Every few minutes the scheduler of each bot process takes the users     *)
(* that are due, one after the other: it claims the user's daily attempt   *)
(* with one guarded update, fetches the roster and, in Bible mode, the     *)
(* clear logs, and saves the outcome in the user document it loads again.  *)
(* A user may at any time turn Bible or Local Sync on or off, sync now or  *)
(* reset.  Documents are saved with optimistic versioning: a save whose    *)
(* document has changed since it was loaded is rejected and tried again.   *)
(* Sync slots are sets in the memory of a process.                         *)
(*                                                                         *)
(* Sources: services/raid/schedulers/auto-manage-daily-scheduler.js,       *)
(* services/auto-manage/runtime (core.js, support/daily-state.js,          *)
(* support/slot.js), services/local-sync/core/state.js and                 *)
(* handlers/raid/auto-manage/core.                                         *)
(***************************************************************************)
EXTENDS Integers, Sequences, FiniteSets

CONSTANTS
  Users,        \* owners of a roster
  Procs,        \* bot processes, each with one scheduler
  Commands,     \* calls of /raid-auto-manage and of raid views that sync
  Home,         \* the process that runs a command
  NoUser, NoProc,
  Lease,        \* how long a claim lasts (20 minutes)
  Delays,       \* the wait after the first, second, ... failed attempt
  Batch,        \* users taken by one tick
  DayLength,    \* clock ticks of a VN day
  LastCall,     \* users, crashes and failing calls are quiet after this time
  Horizon,      \* the clock stops here
  AttemptCap    \* after so many attempts a user neither resets, nor adds a
                \* roster, nor meets a 429

ASSUME DailyAssumption ==
  /\ Procs \cap Commands = {}
  /\ Home \in [Commands -> Procs]
  /\ NoUser \notin Users
  /\ NoProc \notin Procs
  /\ Lease \in Nat \ {0}
  /\ Delays \in Seq(Nat)
  /\ Batch \in Nat \ {0}
  /\ DayLength \in Nat \ {0}
  /\ LastCall \in Nat
  /\ Horizon \in Nat
  /\ AttemptCap \in Nat

VARIABLES
  clock,
  doc,          \* the user documents, as far as anything here depends on them
  slot,         \* the users whose sync slot a process has given out
  at,           \* what a scheduler or command waits for
  cur,          \* the user it works on
  fresh,        \* who holds a loaded document that is still the stored one
  started,      \* when the tick of a scheduler began (nowMs)
  todo,         \* candidates the tick has not reached
  count,        \* attemptCount of the running syncCandidate
  tried,        \* its bibleAttempted
  kind,         \* which command it is
  logged,       \* history: the modes under which Bible logs were last saved
  lapsed        \* history: users with an attempt of their attempt day that was
                \* never reported, its lease left behind or dropped

tick == <<started, todo, count, tried>>
history == <<logged, lapsed>>
vars == <<clock, doc, slot, at, cur, fresh, started, todo, count, tried, kind,
          logged, lapsed>>

Modes == {"bible", "local"}
Kinds == {"on", "sync", "view", "reset", "none"}
Steps == {"idle", "tick", "seed", "claim", "load", "save", "fload", "fsave"}
Actors == Procs \cup Commands
ProcessOf(x) == IF x \in Procs THEN x ELSE Home[x]
MaxAttempts == Len(Delays) + 1

\* The day a tick at time t works for.  Keys name the day before, whose logs
\* are complete: one key per day all the same.
Day(t) == t \div DayLength

\* No time, and no day.
Unset == -1
Times == Nat \cup {Unset}

\* leaseDayKey is written and cleared with the lease and equals the attempt
\* day meanwhile.  The token is a UUID; a worker reads it only after its own
\* claim, so the process of the claim identifies it.
Docs == [modes : SUBSET Modes, roster : BOOLEAN, attemptDay : Times,
         count : Nat, nextAt : Times, leaseUntil : Times,
         token : Procs \cup {NoProc}, finishedDay : Times]

-----------------------------------------------------------------------------
(***************************************************************************)
(* The daily state of a document.                                          *)
(***************************************************************************)

\* Mutated form: the query forgets the finished day.
DueAgain(d, t) == d.roster /\ d.leaseUntil <= t /\ d.nextAt <= t

\* buildAutoManageDailyCandidateQuery, at time t.
Due(d, t) ==
  /\ d.roster
  /\ d.finishedDay # Day(t)
  /\ d.leaseUntil <= t
  /\ d.nextAt <= t

NextCount(d, day) == IF d.attemptDay = day THEN d.count + 1 ELSE 1

Claimed(d, p) ==
  [d EXCEPT !.attemptDay = Day(started[p]), !.count = count[p],
            !.nextAt = Unset, !.leaseUntil = started[p] + Lease, !.token = p]

\* Mutated form: day and count identify the attempt.
OwnsByCount(d, p) ==
  d.leaseUntil # Unset /\ d.attemptDay = Day(started[p]) /\ d.count = count[p]

Owns(d, p) ==
  /\ d.leaseUntil # Unset
  /\ d.attemptDay = Day(started[p])
  /\ d.count = count[p]
  /\ d.token = p

Released(d) ==
  [d EXCEPT !.nextAt = Unset, !.leaseUntil = Unset, !.token = NoProc]

Finished(d, p) ==
  [Released(d) EXCEPT !.finishedDay = Day(started[p])]

\* Mutated form: retries never run out.
RetriedForever(d, p) == [Released(d) EXCEPT !.nextAt = started[p] + Delays[1]]

Retried(d, p) ==
  IF count[p] >= MaxAttempts
    THEN Finished(d, p)
    ELSE [Released(d) EXCEPT !.nextAt = started[p] + Delays[count[p]]]

\* After a 429 the attempt is handed back.
Deferred(d, p) == [Released(d) EXCEPT !.count = count[p] - 1]

\* wipeAutoManageState
Wiped(d) ==
  [Released(d) EXCEPT !.modes = {}, !.attemptDay = Unset, !.count = 0,
                      !.finishedDay = Unset]

BibleAllowed(d) == d.modes = {"bible"}

-----------------------------------------------------------------------------
NewUser ==
  [modes |-> {}, roster |-> TRUE, attemptDay |-> Unset, count |-> 0,
   nextAt |-> Unset, leaseUntil |-> Unset, token |-> NoProc,
   finishedDay |-> Unset]

Init ==
  /\ clock = 0
  /\ doc = [u \in Users |-> NewUser]
  /\ slot = [p \in Procs |-> {}]
  /\ at = [x \in Actors |-> "idle"]
  /\ cur = [x \in Actors |-> NoUser]
  /\ fresh = {}
  /\ started = [p \in Procs |-> 0]
  /\ todo = [p \in Procs |-> {}]
  /\ count = [p \in Procs |-> 0]
  /\ tried = [p \in Procs |-> FALSE]
  /\ kind = [c \in Commands |-> "none"]
  /\ logged = {}
  /\ lapsed = {}

Goto(x, step) == at' = [at EXCEPT ![x] = step]

\* acquireAutoManageSyncSlot: the slot is taken before the first await.
SlotFree(x, u) == u \notin slot[ProcessOf(x)]

TakeSlot(x, u) ==
  /\ slot' = [slot EXCEPT ![ProcessOf(x)] = @ \cup {u}]
  /\ cur' = [cur EXCEPT ![x] = u]

\* Mutated form: the slot is kept.
SlotKept(x) == slot' = slot

\* releaseAutoManageSyncSlot
ReleaseSlot(x) ==
  slot' = [slot EXCEPT ![ProcessOf(x)] = @ \ {cur[x]}]

\* The end of a call: the slot is given back whatever happened.
Return(x, step) ==
  /\ ReleaseSlot(x)
  /\ Goto(x, step)
  /\ cur' = [cur EXCEPT ![x] = NoUser]
  /\ IF x \in Procs
       THEN /\ count' = [count EXCEPT ![x] = 0]
            /\ tried' = [tried EXCEPT ![x] = FALSE]
            /\ kind' = kind
       ELSE /\ kind' = [kind EXCEPT ![x] = "none"]
            /\ UNCHANGED <<count, tried>>

\* Mutated form: documents are saved without a version check.
StaleNever(u) == {}

\* Every write of a document raises its version, which makes the loaded
\* copies of it stale; saving a stale copy is rejected (saveWithRetry).
Stale(u) == {x \in Actors : cur[x] = u}

WriteDoc(u, d) ==
  /\ doc' = [doc EXCEPT ![u] = d]
  /\ fresh' = fresh \ Stale(u)

Remember(x, step) ==
  /\ fresh' = fresh \cup {x}
  /\ Goto(x, step)

\* Mutated form: the failure path goes on with the loaded document.
ForgetNothing(x) == fresh' = fresh

Forget(x) == fresh' = fresh \ {x}

Active == clock <= LastCall

-----------------------------------------------------------------------------
(***************************************************************************)
(* runAutoManageDailyTick and syncCandidate.                               *)
(***************************************************************************)

StartTick(p) ==
  /\ at[p] = "idle"
  /\ LET due == {u \in Users : Due(doc[u], clock)}
     IN  \E S \in SUBSET due \ {{}} :
           /\ Cardinality(S) <= Batch
           /\ S = due \/ Cardinality(S) = Batch
           /\ todo' = [todo EXCEPT ![p] = S]
  /\ started' = [started EXCEPT ![p] = clock]
  /\ Goto(p, "tick")
  /\ UNCHANGED <<clock, doc, slot, cur, fresh, count, tried, kind, history>>

\* A user whose slot another call of the process holds is skipped.
NextCandidate(p) ==
  /\ at[p] = "tick"
  /\ \E u \in todo[p] :
       /\ todo' = [todo EXCEPT ![p] = @ \ {u}]
       /\ IF SlotFree(p, u)
            THEN TakeSlot(p, u) /\ Goto(p, "seed")
            ELSE UNCHANGED <<slot, cur, at>>
  /\ UNCHANGED <<clock, doc, fresh, started, count, tried, kind, history>>

StopTick(p) ==
  /\ todo' = [todo EXCEPT ![p] = {}]
  /\ started' = [started EXCEPT ![p] = 0]

\* No candidate is left, or lostark.bible has asked for a pause.
EndTick(p) ==
  /\ at[p] = "tick"
  /\ todo[p] = {} \/ Active
  /\ Goto(p, "idle")
  /\ StopTick(p)
  /\ UNCHANGED <<clock, doc, slot, cur, fresh, count, tried, kind, history>>

\* The cooldown of a recent sync refuses the slot after all.
CoolDown(p) ==
  /\ at[p] = "seed"
  /\ Active
  /\ Return(p, "tick")
  /\ UNCHANGED <<clock, doc, fresh, started, todo, history>>

Seed(p) ==
  /\ at[p] = "seed"
  /\ LET d == doc[cur[p]]
     IN  IF d.roster
           THEN /\ count' = [count EXCEPT ![p] = NextCount(d, Day(started[p]))]
                /\ tried' = [tried EXCEPT ![p] = BibleAllowed(d)]
                /\ Goto(p, "claim")
                /\ UNCHANGED <<slot, cur, kind>>
           ELSE Return(p, "tick")
  /\ UNCHANGED <<clock, doc, fresh, started, todo, history>>

\* The guarded update checks again what made the user due.  A lease of the
\* same day that is still set belongs to a worker that never reported.
Claim(p) ==
  /\ at[p] = "claim"
  /\ Due(doc[cur[p]], started[p])
  /\ WriteDoc(cur[p], Claimed(doc[cur[p]], p))
  /\ lapsed' = IF doc[cur[p]].attemptDay # Day(started[p])
                 THEN lapsed \ {cur[p]}
                 ELSE lapsed \cup
                        {u \in {cur[p]} : doc[u].leaseUntil # Unset}
  /\ Goto(p, "load")
  /\ UNCHANGED <<clock, slot, cur, tick, kind, logged>>

ClaimLost(p) ==
  /\ at[p] = "claim"
  /\ ~Due(doc[cur[p]], started[p])
  /\ Return(p, "tick")
  /\ UNCHANGED <<clock, doc, fresh, started, todo, history>>

\* loadDailyCandidateSettlement, after the roster and the logs are fetched or
\* (fload) after the attempt failed.  A worker that lost its attempt leaves.
Load(p) ==
  /\ \/ at[p] = "load" /\ Remember(p, "save")
     \/ at[p] = "fload" /\ Remember(p, "fsave")
  /\ Owns(doc[cur[p]], p)
  /\ UNCHANGED <<clock, doc, slot, cur, tick, kind, history>>

Superseded(p) ==
  /\ at[p] \in {"load", "fload"}
  /\ ~Owns(doc[cur[p]], p)
  /\ Return(p, "tick")
  /\ UNCHANGED <<clock, doc, fresh, started, todo, history>>

\* A settled report finishes the day, a failed one is retried or, after the
\* last attempt, finishes it too, and a 429 hands the attempt back.  A user
\* without a roster is released.
Outcomes(d, p) ==
  IF ~d.roster THEN {Released(d)}
  ELSE IF at[p] = "fsave" THEN {Retried(d, p)}
  ELSE {Retried(d, p), Finished(d, p)}
         \cup {e \in {Deferred(d, p)} : Active /\ count[p] <= AttemptCap}

\* Mutated form: the mode at the time of the fetch decides.
LogsKeptAsFetched(p) == at[p] = "save" /\ doc[cur[p]].roster /\ tried[p]

\* Logs are kept if they were fetched and Bible is still the user's mode.
LogsKept(p) ==
  at[p] = "save" /\ doc[cur[p]].roster /\ tried[p] /\ BibleAllowed(doc[cur[p]])

Save(p) ==
  /\ at[p] \in {"save", "fsave"}
  /\ p \in fresh
  /\ \E d \in Outcomes(doc[cur[p]], p) : WriteDoc(cur[p], d)
  /\ logged' = IF LogsKept(p) THEN doc[cur[p]].modes ELSE logged
  /\ lapsed' = lapsed \cup {u \in {cur[p]} : ~doc[u].roster}
  /\ Return(p, "tick")
  /\ UNCHANGED <<clock, started, todo>>

SaveRejected(p) ==
  /\ p \notin fresh
  /\ \/ at[p] = "save" /\ Goto(p, "load")
     \/ at[p] = "fsave" /\ Goto(p, "fload")
  /\ UNCHANGED <<clock, doc, slot, cur, fresh, tick, kind, history>>

\* A database or fetch call throws, or saveWithRetry gives up.  Only a throw
\* by acquireAutoManageSyncSlot reaches the tick and ends it; a claimed
\* attempt tries once to record the failure.
Throw(p) ==
  /\ Active
  /\ \/ /\ at[p] = "seed"
        /\ Return(p, "idle")
        /\ StopTick(p)
     \/ /\ at[p] \in {"seed", "claim", "fload", "fsave"}
        /\ Return(p, "tick")
        /\ UNCHANGED <<started, todo>>
     \/ /\ at[p] \in {"load", "save"}
        /\ Goto(p, "fload")
        /\ UNCHANGED <<slot, cur, tick, kind>>
  /\ Forget(p)
  /\ UNCHANGED <<clock, doc, history>>

-----------------------------------------------------------------------------
(***************************************************************************)
(* /raid-auto-manage on, sync and reset and the sync that rides on opening *)
(* a raid view, from the slot they take to the save; and the mode          *)
(* switches, which need no slot.                                           *)
(***************************************************************************)

Call(c, u) ==
  /\ Active
  /\ at[c] = "idle"
  /\ SlotFree(c, u)
  /\ \E k \in Kinds \ {"none"} :
       /\ k = "reset" => doc[u].count <= AttemptCap
       /\ kind' = [kind EXCEPT ![c] = k]
  /\ TakeSlot(c, u)
  /\ Goto(c, "load")
  /\ UNCHANGED <<clock, doc, fresh, tick, history>>

\* assertBibleSyncAllowed refuses while Local Sync is on; a sync needs a
\* roster; a reset and a view ask nothing.
MayCommit(c, d) ==
  \/ kind[c] \in {"reset", "view"}
  \/ "local" \notin d.modes /\ (kind[c] = "on" \/ d.roster)

CommandLoad(c) ==
  /\ at[c] = "load"
  /\ MayCommit(c, doc[cur[c]])
  /\ Remember(c, "save")
  /\ UNCHANGED <<clock, doc, slot, cur, tick, kind, history>>

CommandRefused(c) ==
  /\ at[c] = "load"
  /\ ~MayCommit(c, doc[cur[c]])
  /\ Return(c, "idle")
  /\ UNCHANGED <<clock, doc, fresh, started, todo, history>>

Committed(c, d) ==
  IF kind[c] = "reset" THEN Wiped(d)
  ELSE IF kind[c] = "on" THEN [d EXCEPT !.modes = @ \cup {"bible"}]
  ELSE d

\* A view keeps its logs if the loaded document has Bible on.
CommandLogs(c, d) ==
  /\ d.roster
  /\ \/ kind[c] \in {"on", "sync"}
     \/ kind[c] = "view" /\ "bible" \in d.modes

CommandSave(c) ==
  /\ at[c] = "save"
  /\ c \in fresh
  /\ WriteDoc(cur[c], Committed(c, doc[cur[c]]))
  /\ logged' = IF CommandLogs(c, doc[cur[c]])
                 THEN Committed(c, doc[cur[c]]).modes
                 ELSE logged
  /\ lapsed' = lapsed \ {u \in {cur[c]} : kind[c] = "reset"}
  /\ Return(c, "idle")
  /\ UNCHANGED <<clock, started, todo>>

CommandSaveRejected(c) ==
  /\ at[c] = "save"
  /\ c \notin fresh
  /\ Goto(c, "load")
  /\ UNCHANGED <<clock, doc, slot, cur, fresh, tick, kind, history>>

CommandThrow(c) ==
  /\ Active
  /\ at[c] \in {"load", "save"}
  /\ Return(c, "idle")
  /\ Forget(c)
  /\ UNCHANGED <<clock, doc, started, todo, history>>

\* updateExclusiveSyncMode and tryEnableAutoManage: one guarded update.
TurnOn(u, mode) ==
  /\ Active
  /\ doc[u].modes \subseteq {mode}
  /\ WriteDoc(u, [doc[u] EXCEPT !.modes = {mode}])
  /\ UNCHANGED <<clock, slot, at, cur, tick, kind, history>>

TurnOff(u, mode) ==
  /\ Active
  /\ mode \in doc[u].modes
  /\ WriteDoc(u, [doc[u] EXCEPT !.modes = @ \ {mode}])
  /\ UNCHANGED <<clock, slot, at, cur, tick, kind, history>>

\* The user's last roster is removed, and a roster is registered again.
RosterRemoved(u) ==
  /\ Active
  /\ doc[u].roster
  /\ WriteDoc(u, [doc[u] EXCEPT !.roster = FALSE])
  /\ UNCHANGED <<clock, slot, at, cur, tick, kind, history>>

RosterAdded(u) ==
  /\ Active
  /\ ~doc[u].roster
  /\ doc[u].count < AttemptCap
  /\ WriteDoc(u, [doc[u] EXCEPT !.roster = TRUE])
  /\ UNCHANGED <<clock, slot, at, cur, tick, kind, history>>

-----------------------------------------------------------------------------
\* Every call and every slot of the process is gone; it starts again.
Crash(p) ==
  LET Dead == {x \in Actors : ProcessOf(x) = p}
      Wipe(f, v) == [x \in DOMAIN f |-> IF x \in Dead THEN v ELSE f[x]]
  IN  /\ Active
      /\ at' = Wipe(at, "idle")
      /\ cur' = Wipe(cur, NoUser)
      /\ kind' = Wipe(kind, "none")
      /\ fresh' = fresh \ Dead
      /\ slot' = [slot EXCEPT ![p] = {}]
      /\ count' = [count EXCEPT ![p] = 0]
      /\ tried' = [tried EXCEPT ![p] = FALSE]
      /\ StopTick(p)
      /\ UNCHANGED <<clock, doc, history>>

Tick ==
  /\ clock < Horizon
  /\ clock' = clock + 1
  /\ UNCHANGED <<doc, slot, at, cur, fresh, tick, kind, history>>

SchedulerStep(p) ==
  \/ StartTick(p) \/ NextCandidate(p) \/ EndTick(p) \/ CoolDown(p)
  \/ Seed(p) \/ Claim(p) \/ ClaimLost(p) \/ Load(p) \/ Superseded(p)
  \/ Save(p) \/ SaveRejected(p)

CommandStep(c) ==
  \/ CommandLoad(c) \/ CommandRefused(c) \/ CommandSave(c)
  \/ CommandSaveRejected(c)

UserStep(u) ==
  \/ \E mode \in Modes : TurnOn(u, mode) \/ TurnOff(u, mode)
  \/ RosterRemoved(u) \/ RosterAdded(u)
  \/ \E c \in Commands : Call(c, u)

Next ==
  \/ \E p \in Procs : SchedulerStep(p) \/ Throw(p) \/ Crash(p)
  \/ \E c \in Commands : CommandStep(c) \/ CommandThrow(c)
  \/ \E u \in Users : UserStep(u)
  \/ Tick

Spec == Init /\ [][Next]_vars

\* The clock runs, the interval timer fires and every awaited call ends.
FairSpec ==
  /\ Spec
  /\ WF_vars(Tick)
  /\ \A p \in Procs : WF_vars(SchedulerStep(p))
  /\ \A c \in Commands : WF_vars(CommandStep(c))

-----------------------------------------------------------------------------
(***************************************************************************)
(* Properties.                                                             *)
(***************************************************************************)

\* Every variable keeps its type, and only a call that is about to save
\* holds a loaded document.
TypeOK ==
  /\ clock \in Nat
  /\ doc \in [Users -> Docs]
  /\ slot \in [Procs -> SUBSET Users]
  /\ at \in [Actors -> Steps]
  /\ cur \in [Actors -> Users \cup {NoUser}]
  /\ fresh \subseteq {x \in Actors : at[x] \in {"save", "fsave"}}
  /\ started \in [Procs -> Nat]
  /\ todo \in [Procs -> SUBSET Users]
  /\ count \in [Procs -> Nat]
  /\ tried \in [Procs -> BOOLEAN]
  /\ kind \in [Commands -> Kinds]
  /\ logged \subseteq Modes
  /\ lapsed \subseteq Users

\* Bible and Local Sync exclude each other whatever saves and switches race
\* (README.md:45): a command that decided on an old document may not add its
\* mode to a switched one.
NeverBothModes == \A u \in Users : doc[u].modes # Modes

\* Clear logs fetched from Bible are never saved under Local Sync, even if
\* the mode changed while they were fetched or while the save was retried.
LogsNeverUnderLocal == "local" \notin logged

\* The part of the document that belongs to the daily attempt.
Attempt(d) ==
  <<d.attemptDay, d.count, d.nextAt, d.leaseUntil, d.token, d.finishedDay>>

Running(d) == d.leaseUntil > clock

ResetBy(c, u) == cur[c] = u /\ at[c] = "save" /\ kind[c] = "reset"

\* A running attempt is changed only by the worker that claimed it or by the
\* user's reset, and a new claim meets no running attempt: a worker that was
\* overtaken, in its own process or another, writes nothing more.
AttemptProtected ==
  [][\A u \in Users : Attempt(doc'[u]) # Attempt(doc[u]) =>
       \/ \E c \in Commands : ResetBy(c, u)
       \/ \E p \in Procs : /\ cur[p] = u
                           /\ at[p] = "claim"
                           /\ doc'[u].token = p
                           /\ ~Running(doc[u])
       \/ \E p \in Procs : /\ cur[p] = u
                           /\ at[p] \in {"save", "fsave"}
                           /\ doc[u].token = p]_vars

\* Once today's refresh is completed, no worker of this process touches the
\* user's daily state before midnight or a reset: a tick that was due before,
\* a late retry and a late failure all find it settled.
CompletedDayStays ==
  [][\A u \in Users : doc[u].finishedDay = Day(clock) =>
       \/ Attempt(doc'[u]) = Attempt(doc[u])
       \/ \E c \in Commands : ResetBy(c, u)]_vars

\* "Calendar settlement limits each user to one completed run per VN day"
\* (auto-manage-daily-scheduler.js:25): the document remembers that today is
\* completed, or the user would be due once more.
CompletionRemembered ==
  [][\A u \in Users : doc[u].finishedDay = Day(clock) =>
       \/ doc'[u].finishedDay = doc[u].finishedDay
       \/ \E c \in Commands : ResetBy(c, u)]_vars

\* "At most four attempts per user in each daily cycle" (README.md:30), with
\* the exceptions of the code: more are made only if on that day a worker was
\* lost with its lease, or the last roster went while an attempt ran.  In one
\* process no retry, 429 or race with a command adds one.
ExtraAttemptOnlyAfterLoss ==
  \A u \in Users : doc[u].count > MaxAttempts => u \in lapsed

\* When users have gone quiet, every roster is settled for the day, waits for
\* a retry still to come or is being worked on: nobody is forgotten, whatever
\* crashed, threw or was refused before.
EveryRosterSettles ==
  <>[](\A u \in Users : doc[u].roster =>
         \/ doc[u].finishedDay = Day(clock)
         \/ doc[u].nextAt > clock
         \/ Running(doc[u]))
=============================================================================
