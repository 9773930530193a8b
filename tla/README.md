# TLA+ models of the Lost Ark raid bot

The repository is a Discord bot (Node.js, MongoDB) that tracks the weekly raids
of Lost Ark players, with a browser page (Local Reader) that reads a player's
`encounters.db`. This directory holds TLA+ modules for the parts of the bot
whose order of events matters, the TLC configurations that check them and TLAPS
proofs about them. Paths below are relative to the repository.

Six parts are done: the preview jobs of Local Sync (sections 3 to 6), the daily
roster refresh with the sync modes it must respect (7 to 9), the queues behind
`/raid-log` and every request to lostark.bible (10), the scheduled notices and the
weekly reset (11), the Local Reader page (12) and an open `/raid-status` card (13).
The safety properties of all six are proved for every value of the constants;
liveness is model-checked.

Checking: `tlc -config PreviewLease.cfg MCPreviewJobs` for a run,
`tlapm PreviewJobs_proofs.tla` for the proofs. `PROJECT.json` lists the runs, the
mutated definition that shows each property can fail, the source lines each
definition models, the hazards and the theorems.

## 1. Inventory

| Component | State it keeps | Operations | What makes it hard |
| --- | --- | --- | --- |
| Local Sync preview jobs (`bot/services/local-sync/core/preview-jobs.js`, `apply-preview-job.js`) | one Mongo document per preview: status, lease start, expiry, party deltas, result | create, claim, authorize, release, finish, fail, cancel, apply; Mongo's TTL deletion | the Discord button, the web page and an overlapping deploy act on one job; leases run out under a call; crash and write errors between the steps of an apply |
| Applying deltas (`core/apply/*`, `core/party-propagation.js`) | the raid progress in user documents | batch save of the owner's clears, one save per party owner | partly failed saves, retries that see their own earlier writes |
| Sync mode and reader token (`core/state.js`, `core/tokens.js`, `core/scope.js`) | two flags and one signed token per user | switch a mode on, off or over; mint, rotate, shrink a token | Bible and Local Sync exclude each other whatever saves race; late shrink of a rotated link |
| Local Sync HTTP (`local-sync/http/*`) | rate-limit and replay maps | endpoints of the Local Reader | bounded maps, replayed links |
| Auto-manage slot (`auto-manage/runtime/support/slot.js`) | in-memory set of users, last-run times | acquire, release | must come back on every path |
| Daily roster refresh (`raid/schedulers/auto-manage-daily-scheduler.js`, `auto-manage/runtime/support/daily-state.js`) | attempt day and count, lease, next attempt, finished day in the user document | claim, gather, settle, retry, defer, reset | crash and restart, two processes, reset or mode switch under a running attempt, four attempts a day |
| Weekly reset, raid progress (`raid/schedulers/weekly-reset.js`, `handlers/raid/set/*`, `auto-manage/runtime/pipeline/*`) | gates, modes and pending modes per character | set a gate, reconcile, clear the week | writes that straddle the boundary, optimistic saves |
| Guild claims and notices (`raid/schedulers/guild-state-claim.js`, `auto-cleanup-scheduler.js`, `daily-roster-announcement.js`, `maintenance-scheduler.js`, `world-event-reminder-scheduler.js`) | one key per notice in the guild document | claim by compare-and-set, post, restore | post fails after the claim, two processes |
| Scheduler runner (`raid/schedulers/scheduler-runner.js`) | running flag | tick, stop | ticks do not overlap |
| lostark.bible client (`auto-manage/bible/*`, `bible-endpoint.js`) | next free time, backoff | reserve, send, back off | many waiters, a 429 while others wait |
| Auto-manage command (`handlers/raid/auto-manage/*`) | the user document | on, off, sync, reset | shares slot and document with the scheduler |
| Raid log images (`raid-log/capture.js`, `render-queue.js`, `image-cache.js`) | render slot, image cache, captures in progress, warm page | capture, share, refresh | a refresh among older captures, deadlines, a crashing browser |
| Async utilities (`utils/async`, `utils/cache`) | queues and maps | run latest, share a load, expire | dropped callers |
| Local Reader page (`web/js/app.js`, `web/js/sync/file/file-change-monitor.js`) | selected file, preview, stage, job, retry timer, monitor baseline and candidate | pick, refresh, retry, sync | the file changes under every read; a click, the monitor and retries share one preview |
| `/raid-status` card (`handlers/raid-status/*`, `utils/async/latest-only-queue.js`, `local-sync/core/apply-events.js`) | rosters and preview as loaded, view, queued run, redraws in flight | open, reload, redraw, click, expire; hear of applies | reads, saves and edits answer in any order; nobody may be left behind |
| Raid cards, channel monitor, rosters, sharing, side tasks, `/raid-check`, Discord plumbing, extras, locales, catalog, scripts | mostly caches and layout | | see section 14 |

How they interact: Discord commands, buttons and the HTTP server call the
services directly, in one event loop; every `await` lets another call run. The
only state two processes share (a deploy runs the old and the new one for a
while) is MongoDB. User documents are saved with Mongoose's optimistic
versioning (`saveWithRetry`); preview jobs and scheduler claims are changed by
single guarded updates. The sync slot, the preview create lock, caches and queues
live in one process and die with it.

`PROJECT.json` lists the hazards, each at its line.

## 2. Plan

In order of importance to users' data:

1. **PreviewJobs** with **PreviewLifecycle** (what a job promises), their proofs
   and the refinement. *Done; sections 3 to 6.*
2. **DailyRefresh**: the daily attempt of a user with lease, retries, defers,
   reset and crashes, together with the two sync modes under racing switches and
   saves (first planned as a module of its own; both live in the user document and
   share its versioning). *Done; sections 7 to 9.*
3. The proofs of `CompletedDayStays` and `ExtraAttemptOnlyAfterLoss` for one
   process (*done; section 9*), and an abstract specification of the daily day
   ("open, attempted by one worker, finished once") that DailyRefresh implements
   with one process.
4. **GuildClaims**, **GuildNotices**: the compare-and-set slot key and the
   notices built on it. *Done; section 11.*
5. **RaidWeek**: gate writes, reconcile, mode choices and the weekly clear on
   one optimistic document; **Schedules** composes it with 4 over the guild's
   config. *Done for one raid of a character; section 11.*
6. **BibleLimiter**: queue, slots, backoff and deadlines of the requests to
   lostark.bible. *Done; section 10.*
7. **RaidLogCapture**: render queue, image cache and warm page on top of 6.
   *Done; section 10.*
8. **LocalReader**: the page and its file monitor. *Done; section 12.*
9. **StatusCard**: an open card with its queue, reloads and redraws; **SyncViews**
   puts it beside 8 for one run. *Done for the viewer's own roster; section 13.*
10. Tokens and HTTP gates; then tasks, sharing and the in-flight loader.
11. Proofs about 4 to 9: every safety property their runs check. *Done;
    sections 10, 11, 12 and 13.*

Modules 1 and 2 meet in the slot and the user document: each has the other's
writers as an environment (`SetMode` here, `Call` and `TurnOn` there).

## 3. Preview jobs: modules and correspondence

| Module | Role |
| --- | --- |
| `PreviewJobs.tla` | the documents, `createPreviewJob`, `applyPreviewJob` and everything that races them; properties, fairness, refinement mapping |
| `PreviewLifecycle.tla` | the abstract specification: offered, held by one call, settled once by its holder, announced only when applied |
| `MCPreviewJobs.tla`, `Preview*.cfg` | instances for TLC |
| `PreviewJobs_proofs.tla` | the inductive invariant and the theorems |
| `PreviewRefinement.tla` | the proof that `PreviewJobs` implements `PreviewLifecycle` |

State. `status`, `applyingAt`, `expiresAt`, `auth`, `party`, `result` and `jtoken`
are the fields of the job document that anything depends on (`"unborn"` and
`"deleted"` stand for no document). `mode` and `token` are the user's sync mode
and stored token, `progress` the clears on his roster, `partyDone` those on his
party's rosters, `slot` the in-memory sync slots of each process. A worker
`w` is one `applyPreviewJob` call: `pc` says which await it is at, `cur`,
`lease`, `sum` and the `snap...` variables are its local `job`,
`leaseStartedAt`, `summary`, `partyAuthorized`/`partyDeltas` as claimed, and
token as loaded; `tries` says whether the roster it loaded had something left
to write; `owns` says that the slot is this call's to give back: from the
reservation on, and so one await earlier than `ownsSlot`, since a lookup that throws is
answered by the slot's own catch (`LookupThrow`, `slot.js:45-48`) and not by the
`finally` of `applyPreviewJob`. A creator `k` is one `createPreviewJob` call.
The variables under "history" record what happened for the properties and are
read by no guard.

Actions. One per await of the two calls, in the order of the code:

    createPreviewJob   CreateCall, CreateSupersede, CreateInsert | CreateThrow
    applyPreviewJob    Claim, LoadUser, [Refuse], TakeSlot, [Busy],
                       SlotGranted, Write, [Fail | Release], [Authorize],
                       [Propagate], Record, Finish, [Reread], [Publish], Unwind
                       Throw, Recover from any step whose database call throws;
                       LookupThrow from the one that the slot itself makes

and `Cancel`, `Expire` (Mongo's TTL monitor), `SetMode`, `Rotate`, `Crash`, `Tick`
around them. A Mongo update is one atomic step with the filter the code sends; an
update whose filter matches nothing changes nothing, and the call goes on as the
code does.

Abstractions, each of which a reader should know:

- A delta bucket (character, raid, mode, gates) is one member of `Clears`, and
  `Party` says which of them carry a party delta. A save may write any subset of
  what is left (`Write`), since item level, missing characters and mode conflicts
  refuse single buckets; the batch save itself is all or nothing.
- Progress only grows. Weekly clear and reset are in `RaidWeek` (section 11).
- A call that threw had no effect in Mongo.
- Reading the clock and the query that uses it are one step. The clock is
  shared by the processes.
- The create lock is FIFO in the code; here any waiting create may go next.
- A crash between `Finish` and `Publish` loses the owner's refresh event, which the
  code sends as a best effort; no property asks for it.
- A call that lost its lease still writes rosters: the lease guards job documents
  only, and each roster its own optimistic save.
- Failure reasons, projections, the last-sync timestamp and the refresh events
  sent to party owners are left out.
- The other holders of the sync slot (auto-manage syncs) are represented by
  the second apply call.

## 4. Preview jobs: what the runs check

Lease and TTL are 1 and 2 ticks (10 minutes and 2 hours in the code): what
matters is that the lease is shorter, and the proofs hold for every such pair.
`LastCall` bounds the tick at which users still act and `Horizon` the clock.
Deadlock is not checked since a finished system has nothing left to do.

| Run | Instance | Shows |
| --- | --- | --- |
| `preview_lease` | one job, two applies in two processes, one create, one clear with a party delta, mode off | a lease has one holder (`OneLeaseHolder`), nobody else touches the job while it runs (`LeaseProtects`), it ends before the TTL (`LeaseEndsBeforeExpiry`), party clears survive retries (`PartyClearsKept`), and the lifecycle is implemented (`ImplementsLifecycle`: outcomes are final, and the refresh event goes out for applied jobs only) |
| `preview_create` | two jobs, two creates, one apply, one process, two tokens | a supersede leaves open at most a job that was being applied (`OneOpenPreview`); only the link of a written scan is shortened (`OnlySpentTokensShrink`) |
| `preview_slot` | one job, two applies in one process, fair | one writer per user (`OneWriterPerUser`), no slot without an owner (`SlotMatchesOwner`), slots come back (`SlotComesBack`), an interrupted apply settles or can be claimed again (`InterruptedApplyRecovers`) |
| `preview_party` | as `preview_lease` | violation, see below |
| `preview_retry` | two clears, one apply | violation, see below |

The bounds are enough for the interesting cases: two applies of one job cover
a lease lost and retaken, with the loser waking at any step; two creates
cover the lock; two ticks after the last call let every lease and every TTL end.

`OneOpenPreview` states "newer scans supersede older pending previews"
(`README.md:56`) with the exception the code makes: an older job under a running lease
is skipped by the supersede, and a write error puts it back to pending beside
the newer one.

Two runs show places where the code does less than the documentation says:

- `PartyClearsKeptOnRecovery`. "interrupted applies recover automatically"
  (`README.md:56`). If the process dies after the owner's save and before the
  authorization, the recovery finds the clears complete, has no stored result, and
  finishes as applied without the party's clears.
- `EveryWriteReachesParty`. "A Full Local Sync also propagates that encounter's
  cumulative Gate progress to party characters" (`README.md:30`). The party deltas are
  narrowed to what the first attempt wrote; a clear that only the retry writes is
  never propagated.

## 5. Preview jobs: fairness

`FairSpec` assumes that the clock runs (`Tick`), Mongo's monitor deletes
expired documents (`Expire`), and the event loop resumes a call whose await is over
(`Advance`, `CreateSupersede`, `CreateInsert`), each weakly fair. Users,
rotations, crashes and thrown calls are not fair. Every awaited database call has a
driver timeout, so an await ends, with a result or with `Throw`; weak fairness of
`Advance` says no more than that.

## 6. Preview jobs: what is proved

For every set of jobs, users, calls, processes and clears, every lease
shorter than the TTL, and no bound on time (`PreviewJobsAssumption` is the only
assumption), TLAPS checks:

- `TypeCorrect`, `SingleHolder`, `LeaseOutlived`, `EventsTruthful`,
  `WritersExclude`, `SlotsOwned` (invariants), `LeaseHonored`, `SettledForever`
  (action properties),
- `PartyServed`, `LinksSpared`: `PartyClearsKept` and `OnlySpentTokensShrink`, which
  need to know what happened in the earlier attempts of a job,
- `LatestOpen`: `OneOpenPreview`, if all creates of the system run in one process:
  the create lock is a map in memory, and while a deploy overlaps two creates of
  one user may each miss the other's job,
- `Refines`: `Spec => ImplementsLifecycle`.

The inductive invariant `IInv` has one part per concern. `OneLeaseHolder` is not
inductive alone: two calls are told apart by the timestamp `applyingAt`, so a new
claim must not meet the timestamp of an older one. `LeaseInv` supplies that: a
lease starts in the past, and a call still at work either owns its job or has
outlived its lease, so a claim made now, which needs the old lease to be over,
gets a later timestamp. `CreateInv` (a create owns an unborn document), `TellInv` (a
call about to publish has an applied job) and `SlotInv` (each held slot is owned
by one call) close the rest. `InvStep` has one lemma per part and one step
per action; `QuietStep` and `LeavingStep` say once what the actions that leave
documents alone, and those that make a guarded update, may change.

Three invariants on top of `IInv` carry the theorems about attempts. `SpentInv`:
whatever was written, authorized or collected for a job goes back to a write on its
owner's roster, so a token is shortened only after such a write. `PartyInv`: for a
job whose attempts were not cut short by a crash, every clear the party is owed
(`Need`) is either in the result stored with the job (`Kept`) or in the hands of the
one call that holds it (`Carries`); a release stores what the call has, and a claim
takes it up again (`mergeEarlierAttempt`). `PartyFrame` reduces a step of one call to
that call's own job, since a job has one holder. `OpenInv`: while a create is between
its two updates every open job of its user is one the supersede had to spare.

The refinement maps the stored status to an abstract stage and the holder to
the one call that owns the job under its lease; `HoldersDrop` says how the holder
changes when calls stop holding. It rests on `IInv` (one holder, owned jobs are
applying).

Only model-checked: the two liveness properties, `SlotComesBack` and
`InterruptedApplyRecovers`, and the two violations.

## 7. Daily refresh: modules and correspondence

| Module | Role |
| --- | --- |
| `DailyRefresh.tla` | the daily tick of each process, the commands and views that sync, the mode switches; properties and fairness |
| `MCDailyRefresh.tla`, `Daily*.cfg` | instances for TLC |
| `DailyRefresh_proofs.tla` | the inductive invariant and the theorems |

State. `doc[u]` holds the fields of the user document that matter here: `modes`
(`autoManageEnabled`, `localSyncEnabled`), `roster` (some account is registered)
and the attempt: `attemptDay`, `count`, `nextAt`, `leaseUntil`, `token`,
`finishedDay`. `slot` is the set of sync slots of each process. A scheduler `p`
runs one tick at a time: `at` is the await it is at, `started` its
`nowMs`, `todo` the candidates left, `cur` the user in hand, `count` and
`tried` the local `attemptCount` and `bibleAttempted`. A command `c` has its
`kind`. `fresh` says whose loaded document is still the stored one: every write of
a document raises its version, and only a fresh copy can be saved
(`optimisticConcurrency` and `saveWithRetry`), so the copy itself needs no
variable. `logged` and `lapsed` are history: the modes under which logs were last
saved, and the users of whose current attempt day some attempt was never reported.

Actions, in the order of the code:

    runAutoManageDailyTick  StartTick, NextCandidate ..., EndTick
    syncCandidate           [CoolDown], Seed, Claim | ClaimLost,
                            Load | Superseded, Save | SaveRejected
                            Throw, then Load | Superseded and Save of the
                            failure path (steps "fload" and "fsave")
    commands                Call, CommandLoad | CommandRefused,
                            CommandSave | CommandSaveRejected, CommandThrow

and `TurnOn`, `TurnOff` (mode switches by command, button or raid check, each one
guarded update), `RosterRemoved`, `RosterAdded`, `Crash`, `Tick`. The kinds of
command are `on` (`commitAutoManageOn`), `sync` (`applyManualSync`), `reset`
(`wipeAutoManageState`) and `view` (`commitCollectedRaidViewRefresh`, the sync that
rides on opening `/raid-status` or `/raid-check`).

Abstractions:

- What lostark.bible returns is a free choice among the outcomes the code
  distinguishes: settled, to retry, and 429. A 429 on the roster page makes the
  code skip the logs; the model may keep logs together with any outcome.
- The gather is a part of `Load`: it reads nothing shared between the claim and the
  first load.
- The token is a UUID per claim. Only the last claim's token is stored and a
  worker reads it only after its own claim, so the claiming process names it.
  `leaseDayKey` equals the attempt day while a lease is set.
- A tick may take its candidates in any order; the code's sort is for
  fairness between users.
- The cooldown may refuse or not while users are active. A backoff of the
  Bible client may end a tick at any point while users are active.
- A call that threw had no effect. `saveWithRetry` gives up after five
  conflicts; that is one of the reasons of `Throw`.
- Documents exist from the start and are never deleted; a mode is
  switched by force nowhere in the code, although `state.js` offers it.

## 8. Daily refresh: what the runs check

One user: users share nothing but the order of a tick, and what that order
does to a user (he is claimed long after the tick began) is in the model, since
the clock may run between `StartTick` and `Claim`. The lease is 1 tick and
retries wait 1 tick; days are 1 to 3 ticks. `LastCall` and `Horizon` bound users
and clock as before. `AttemptCap` bounds what would let the count
grow for ever: across two processes a count read before the claim survives a reset,
a 429 hand-back or a removed and registered roster. `daily_retry` sets it to four,
twice the attempts one retry allows, so that a user can lose, hand back and drop
attempts beyond the bound that `ExtraAttemptOnlyAfterLoss` is about.

| Run | Instance | Shows |
| --- | --- | --- |
| `daily_lease` | two schedulers, one command, one retry, two days | the modes exclude each other (`NeverBothModes`), Bible logs are never saved under Local Sync (`LogsNeverUnderLocal`), a running attempt belongs to its worker (`AttemptProtected`) |
| `daily_retry` | one scheduler, one command, one retry, two days, fair | a completed day is final (`CompletedDayStays`), an attempt too many needs one that was never reported (`ExtraAttemptOnlyAfterLoss`), every roster settles (`EveryRosterSettles`) |
| `daily_midnight` | two schedulers, no commands, days of one tick | violation, see below |

With two processes, one lease lost to the clock or a crash and retaken by
the other, the loser waking at any step, is the interesting case, and
`daily_lease` has it inside one day and across midnight.

`ExtraAttemptOnlyAfterLoss` states "at most four attempts per user in each daily
cycle" (`README.md:30`) with the two exceptions the code makes, both kept in
`lapsed`. The bound is applied by a worker that reports a failure, so when the process
dies in attempt four, or the report itself fails, the lease runs out and the claim
filter, which ignores the count, admits attempt five. And when the user's last roster
is removed while attempt four runs, its worker releases the lease without finishing
the day (`releaseAutoManageDailyLeaseWithoutFinishing`); a roster registered again on
that day is due with the count at four. A 429 that hands attempt five back leaves the
user marked.

One run shows the code doing less than its documentation says.
`CompletionRemembered`: "Calendar settlement limits each user to one completed run
per VN day" (`auto-manage-daily-scheduler.js:25`). The filter asks for a finished
day other than the target. While two processes overlap, a tick begun before midnight
claims a user whose new day is already completed and writes the old key back, so
the new day is run again. `CompletedDayStays` shows that one process alone cannot
do that.

Fairness (`FairSpec`): the clock runs, the interval timer fires and awaits
end (`SchedulerStep`), and so do those of a command (`CommandStep`), each weakly
fair. Users, crashes, throws and refusals are not fair and stop at
`LastCall`, without which a user could reset for ever.

## 9. Daily refresh: what is proved

For any users, processes, commands, lease, retry delays and day length, and
whatever the bounds on time (`DailyAssumption` is the only assumption), TLAPS
checks `DailyTypeCorrect`, `ModesExclude`, `LogsStayBible` (invariants) and
`AttemptHonored` (action property). For one process (`OneProcess`), the deployment of
the bot outside a deploy, it checks `AttemptsBounded` and `DayStaysSettled`: that
`ExtraAttemptOnlyAfterLoss` and `CompletedDayStays` hold. TLC refutes both for two
processes.

The inductive invariant `IInv` adds three parts to them:

- `WorkInv`: whoever is past the slot has a user in hand, a command at work
  has a kind, and a worker past its seed counts at least one attempt.
- `ClockInv`: a tick began in the past, so what it finds due is not running now.
- `FreshInv`: a worker whose copy is fresh holds the stored token, and a command
  whose copy is fresh may commit it.

The last is the heart. A copy that is still fresh is the stored document, so
what the code decided on the copy holds for the document it overwrites; whatever
changed in between took the freshness away. Hence a `Save` is made by the
owner of the attempt (`AttemptHonored`), and by a command only on a document
whose mode still allows it (`ModesExclude`, `LogsStayBible`).

For one process `SoleInv` adds four more:

- `SlotInv`: the slot of a user is held for one call, so no reset or sync of the
  user falls between a worker's seed and its claim.
- `OwnInv`: a fresh copy carries its worker's attempt, and a day with a lease is
  not the finished one.
- `DayInv`: no finished day lies ahead of the clock, or of the tick that is
  running. This is what two processes break. A claim finds another day finished than
  its own, and a save owns an attempt of an open day; since the finished day is not
  ahead of the tick's, neither can meet a day that is completed (`SettledStep`).
- `BudgetInv`: an attempt about to be claimed is the next one of the stored count
  (`NextInv`), and a user at the bound has a running attempt, a finished day or a
  lapse (`Spent`); so the claim that passes the bound finds a lease nobody reported.

`AttemptMoves` says once what a step may do to one user's attempt, `LocalMoves` what
it may do to the scheduler.

Only model-checked: the liveness property `EveryRosterSettles`, and the violation.

## 10. Requests and raid log images

| Module | Role |
| --- | --- |
| `BibleLimiter.tla` | `BibleRequestLimiter` of `auto-manage/bible/rate-limit.js`: slots, bounded queue, backoff, timers, abort signals |
| `RaidLogCapture.tla` | `captureRaidLog` of `raid-log/capture.js` with render queue, image cache, pending captures and warm page, on top of the limiter |
| `MCRaidLog.tla`, `RaidLogQueues.cfg` | the instance |

A request (`req`) is one call of `run()`: `queued`, then `starting` (dispatched, its
microtask not run yet), `running`, `settling` (before the `finally`), `done`. The
three places that look at its deadline (the timer, the dispatch loop, the microtask)
are three actions. A call (`call`) is one `captureRaidLog`: it reads the cache or
shares a pending capture or waits for the render slot, then prepares a page,
navigates through the limiter and takes the picture; `Expire` is the deadline timer
and may fire between any two of these. An image is represented by the version
of the log its page had loaded, so a stale image is one with too small a version.

Abstractions: `useCache` is on, as every caller of the bot has it; closing a
browser returns; the other users of the limiter may be aborted while they wait
or start; lostark.bible may never answer, which no fairness excludes. Microtasks
have no priority over timers.

The run `raid_log_queues` sums four workloads through `Init`: a refresh of one view
among callers of the other; a refresh beside a cached view; a refresh that
shares the limiter with a sync request; sync requests among themselves. One
slot and one waiting place are the smallest bounds at which a queue is full,
handed on and emptied by a 429; two clock units let every deadline and backoff pass. It shows
that the slots of the limiter and of the browser are neither lost nor spent twice
(`NoSlotLost`), that nobody waits beside a free slot or through a backoff
(`NoLostWakeup`), that a refresh brings what it promises and separates new callers from
older images (`NoImageOlderThanRefresh`), that no request is sent after its
deadline (`NeverSentLate`) and, under fairness, that every caller is answered
(`NobodyWaitsForever`). Fairness: timers, microtasks and `finally` blocks run, and an
aborted navigation of a call ends, because closing the browser ends it.

`NoImageOlderThanRefresh` has one exception: a refresh whose budget ran out before it
could open the page has changed nothing for others yet.

What is proved (`RaidLog_proofs.tla`), for any finite set of requests, any views,
logs, slots, waiting places, budgets and times: `WakeupsKept`, `SendsInTime`,
`CapturesTyped`, `SlotsKept` and `ImagesFresh`, that is, every safety property of the
run. The assumptions are those of the modules: at least one slot and one view,
positive waits, and a name for "no call" that is neither a call nor a log.

`LimiterInv` is inductive for the limiter alone. Its hard step is the dispatch, which
starts waiting requests until the slots or the queue run out: `Prefix` and the
lemmas after it show that the positions it starts are an initial segment of the queue,
and exactly as long as there were free slots. `CapturesInv` is built in layers:

- what each action changes, one Effect lemma each; a step of the captures is
  to the limiter a limiter step or none;
- how the parts fit (`CallsInv`, `RenderInv`, `NavigationInv`): the render slot is
  taken exactly while one call renders, and a call waits exactly while the queue
  has it;
- who came after whom (`OrderInv`, `CaptureInv`, `SharedInv`, `PendingInv`): the render
  queue is first in, first out, so the refreshes accepted before a call are ahead of
  it with earlier deadlines, and a pending capture that callers share was
  registered after every refresh of its log accepted before them; a refresh still
  waiting is the registered one or late;
- the age of images: a refresh that ran leaves the cache, the warm page and the pages
  of later calls without older versions (`CleanInv`), which gives `ImageInv`.

Only model-checked: `NobodyWaitsForever`.

## 11. Scheduled notices and the weekly reset

| Module | Role |
| --- | --- |
| `GuildClaims.tla` | the guild's config document, `claimGuildState`, `releaseGuildClaim`, the admin commands |
| `GuildNotices.tla` | good night, good morning and cleanup; the daily roster report; maintenance and world event reminders |
| `RaidWeek.tla` | one raid of a character: `/raid-set`, sync from logs, Local Sync apply, mode and gold choices, `ensureFreshWeek`, and the weekly job with its announcement |
| `Schedules.tla` | the composition over one config document |
| `MCSchedules.tla`, `Schedules.cfg` | the instance |
| `Schedules_proofs.tla` | types, how ticks, jobs and claims fit together, and what a step of any scheduler does to the config |
| `GuildClaims_proofs.tla`, `RaidWeek_proofs.tla` | the theorems about claims and about the raid documents |

State. `keys` are the `last...Key` fields, numbered, since the code compares them for
equality only. `claim` is what a scheduler holds between its claim and the end of
the work (`claimedState`, `previousState`). `task` is the tick of a sweeper, reporter or
reminder, with the time it read at its begin. `doc[u]` is the part of a user
document that one raid needs: week key, mode, gate dates, the mode chosen for
after the reset, the gold choice. `writer` is a command or sync with its loaded copy
(`draft`, `valid`: nobody has saved since) and the logs and week it fixed earlier;
`job` is a weekly job with its clock reading, candidates and copy.

Actions, in the order of the code:

    a tick     TickBegin, SweepScan, SweepClaim, Bedtime | Clean, [Summary,
               ClaimReport, Send], [Release]; ReportScan or RemindScan likewise
    a writer   Gather (twice), Load, Apply (once per log), Save
    weekly job JobBegin, JobFind, JobLoad, JobSave, JobCheck, JobScan, JobClaim,
               JobSend, [JobRelease]

with `Admin`, `UsersFinish`, deaths of processes, and calls that fail before or after
they took effect (`trouble` bounds failures and deaths together, `edits` the
admin commands).

The run `schedules` has one guild, two machines, two channels, a raid of two
gates; a day is 4 slots with one at night, so that a morning may have two slots; a
week is 9 slots, and the clock runs from 6, 7 or 8, as the workload needs it, to the
reset at 9. `Init` chooses a workload: sweepers
in one morning or over midnight, a sweeper with a reporter and an admin, reporters,
reminders alone or with an admin, the weekly job on two machines, or the weekly job
beside two writers of one document over a reset, in nine pairings. Summing loses nothing: notices and
weekly job meet only in the config document, where every field has its own key, and
writers never touch it. It shows that no slot, day or week is served twice and
none is lost to a handled failure (`OncePerKey`, `KeysExplained`); that no writer
brings back a clear of a closed week or credits one to another week
(`ClearsOfTheWeek`, `CreditedWeek`); that rollovers and saves in any order lose no
clear and no choice (`NoClearLost`: a clear of the running week goes only with a
reset, or with a mark or synced clear of another mode, `Replaces`; `ChoiceKept`); and that every user arrives in the
running week (`EveryoneRollsOver`). Fairness: the clock runs, the weekly job ticks
and its tick ends; failures are bounded.

What the properties leave open is what the code leaves open, and worth knowing:
a scheduler that has fallen behind may write an older key over a newer one (the
guard compares for equality), and a morning that is rolled back takes its mark
as the cleanup of its slot away from a cleanup that relied on it, so the next
morning of the slot cleans up once more (`reopened` in `OncePerKey`); a late weekly tick may put a document back into
the old week for a moment (`ChoiceKept`); the week is announced only by a tick
that rolled somebody, so a failed post or users rolled by commands leave it out; a
morning whose rollback meets a newer cleanup key is not tried again that day.

Abstractions: one raid and one character; item level and the solo preference
refuse nothing here; task counters, languages and texts are left out; a
write reads its clock once. Topics of reminders share no key, so one worker stands for
both reminders of a machine. A post that Discord delivered but whose answer was lost
counts as not delivered (`Send`): its rollback opens the key, the notice may then be seen
twice, and `OncePerKey` speaks of posts that were answered. The check of `/raid-channel schedule` that the
sweep is off is a read before the write, so `ScheduleOn` may come when it is on.

### What is proved

For any guild settings, claimers, topics, users, writers, gates and lengths of day
and week, and without a bound on failures, TLAPS checks every safety property of the
run: `SchedulesTypes`, `Explained`, `Once`, `ClearsInWeek`, `SyncsCredited` (invariants),
`ChoicesKept` and `ClearsKept` (action properties). The assumptions are named in the
modules: finitely many claimers, of whom none is a weekly job and a notice worker at
once; workloads that are well typed, ask only for users that exist, and start
no earlier than the first day, so that "the day before" is a day.

- `StateInv` (`Schedules_proofs`) is the typed invariant the others start from. The
  config is all that notices and weekly job share; `GuildStep` sums up what any
  step does to it (a claim, a post, a rollback, an admin's edit, a death), so the
  proofs about claims look at no scheduler.
- `Explained` counts. For a key that was neither served nor given up, at least as
  many claims have set it as have replaced it, and one more while it stands in the
  config (`Balanced`); a standing key is thus in somebody's hands. Each kind of step
  moves the count by at most what `Balance` says of its actor.
- `Once` orders (`OrderInv`). While a field has not been opened again, nothing served
  or claimed is newer than the key that stands, and two claims in work replaced
  different keys in their order. A key that is claimed is therefore new, which
  excludes a second service. A cleanup shares its slots with the morning, so
  `MorningFirst` and `LastMorning` relate the two fields.
- `RaidInv` dates. Every document and loaded copy is `Dated` (no clear of a closed
  week, a synced clear in the week of its fight, the gold choice of the week), and a
  copy that nobody has overtaken (`valid`) still `Follows` the stored document: it
  keeps the clears of the running week and the choice, unless its task means to
  take them. A save that is accepted therefore takes nothing else.

Only model-checked: `EveryoneRollsOver`.

## 12. Local Reader page

`LocalReader.tla` models `web/js/app.js` with the latest-only runner and the file
monitor of `file-change-monitor.js`. `SyncViews.tla` puts the page and the card of
section 13 side by side, one of the two in use; `MCSyncViews.tla` and
`SyncViews.cfg` are the instance.

The file is as many clears as it has revisions: LOA Logs commits one clear at a
time (`LogClear`). `handle`, `serial`, `stage`, `rendered`, `deltas`, `pendingJob`,
`timer` are the page's variables `selectedFileHandle`, `selectionSerial`,
`stage.dataset.stage`, `lastRenderedRevision`, `lastDeltas`, `pendingJobId`,
`previewRetryTimer`; `run` and `next` are the running and the waiting request of the
runner, `mon` the monitor with baseline and candidate, `reads` the file reads of
retries and of the re-read after a job, `send` the click in flight. The server is
what the page sees of it: `roster`, the `job` of the last handoff, and the
answers applied, retryable (a part written), busy, gone and none.

    picking     Pick, Opened
    refresh     Scanned, then FileChanged | RosterFailed | CommitPreview;
                RefreshFails; RefreshAborts at any check
    monitor     Probe, Probed, SettleFires, Confirmed | ConfirmFails
    retries     TimerFires, RetryRead; StaleJobRead after a job
    Sync        Click, ClickProbes, ClickProbed, [ClickSettles,
                ClickRefreshed, ClickChecked], Created, Applied; ClickFails

A header read is two steps: what the file held when it was read (`Probe`, `ClickProbes`,
`ClickSettles`, `ClickRefreshed`), and the comparison when the read is back (`Probed`,
`ClickProbed`, `ClickChecked`), with whatever the page has done in between.

`sync_views` has a file with three revisions and one that rests, two picks, two
rounds of `ensureFreshPreviewBeforeSend` (four in the code; two are enough for a
round that is tried again and one that is the last), and a budget of four for
commits of LOA Logs, clicks and failures together. It shows that a click hands over everything that was on
disk when it was made (`ClickSendsAll`), that a job stays the page's until it has
an outcome (`JobKept`), that the preview of a file never goes back (`RenderedInOrder`),
and that the newest state comes up once the world is quiet (`NewestShown`).

Fairness: polls come again and again, and reads, scans, requests and timers end, each
weakly fair. `Confirmed` is strongly fair: a
poll can find a change while the monitor settles and start it anew, but settling
takes less than the time between two polls.

`NewestShown` excuses five cases, kept in the ghost `lapse`. Each was
confirmed necessary: without it TLC finds a page that stays behind until the file changes
again. They are weak spots of the page rather than of the model:

- A read for a retry that was begun for the file before ends after the new file was
  opened: it is queued under its old selection, aborts the first preview of the
  new file and is then dropped itself, so the page stays at "reading". The comment at
  `app.js:452-454` says a late read must never replace a newer selection.
- The retry timer of an earlier file is still armed when the new file wants one.
- The re-read after a job is tried once, and may be of an older revision than
  the refresh it displaces.
- A file is opened while a click is in flight, which then owns the stage.
- A scan whose query throws is not retried: `app.js:768-770` makes every error of the
  query a `problem.schema`, a passing read error too, and `app.js:385` retries errors
  without a `problemKey` only. If the monitor already knows the revision, because it
  was opened with it, and no timer is armed (`NotReadAgain`), the page
  stays at "problem". The comment at `app.js:489-490`, "Keep the selected handle alive so
  the monitor can retry after the file settles", counts on a file that changes again.

Abstractions: a read returns the file as of its begin or its end; a poll that fails is a
poll that has not come; how often a stability window is read again is left open; a click
is offered by the stage, not by the button's cached flag. The WAL warning, blocked links, files without a handle after a
reload, malformed files and the restore of a remembered file are left out.

What is proved (`SyncViews_proofs.tla`), for any files, revisions, picks, rounds of
`ensureFreshPreviewBeforeSend` and any budget: `ClicksSendAll`, `JobsKept` and
`PageInOrder`, and `ViewsTyped` for page and card together. The invariant is
`PageInv`:

- Every revision the page holds anywhere is one the file has had (`Logged`, which
  only grows): `DataInv`, `PickInv`, `RunInv`, `WatchInv`, `SendInv`.
- `CommitInv`: a refresh that is about to commit has re-read nothing older than what
  is rendered. Nothing else shows a preview, so the previews come in order.
- `ClickInv`: `deltas` holds every clear of the rendered state that the roster lacks,
  the roster only grows, and an unsettled job is a pending one. A click posts only if
  what is on the screen is the header it has read, which by `SendInv` is not older than the
  click, hence `ClickSendsAll`; and only if no job is pending, hence `JobKept`.

Only model-checked: `NewestShown`.

## 13. An open /raid-status card

`StatusCard.tla` models what one open card does between its first reply and its
expiry: `handlers/raid-status/index.js` from the first reply on, `session-state.js`,
`live-apply-refresh.js`, `redraw.js`, the component handlers, with
`latest-only-queue.js` and `apply-events.js` beneath them.

A roster is represented by its revision: `mine` counts the saves of the viewer's
document, `jobs` the previews applied, `news` is the apply that is through but not
announced. `session` is what the card would be drawn from (`userDoc`, current view,
`localSyncSnapshot`, and whether `userDoc` is still the document of the opening),
`message` what Discord shows. `ownJob`, `labels` and `queue` are `pendingOwnJobId`,
`pendingLabels` and the drain of the queue with its run; `reload[c]` and `draw[c]` are
the `reloadViewerAccounts` call and the redraw in flight for each of those who start
one: the queue, the refresh behind the opening, the end of the session, and a click.
Tickets are not counted: a new reload marks the earlier ones as no longer the latest,
and a new redraw drops those not yet sent.

    opening     Opens; Refreshed, RefreshReturns, RefreshLoaded, and for Bible
                logs that take longer LateSaved, LateShown
    queue       RunBegins, RunReloaded | RunFails, [RunPreviewed], RunDrawn,
                DrainEnds
    a reload    Loaded | Unread
    a redraw    Built, Edited
    a click     Clicked, then ClickAsks, ClickShows (page, view), or ClickSaves,
                ClickSaved, or ClickApplies, ClickReloads; ClickReloaded,
                [ClickPreviewed]
    the world   ViewerApply, Published; SessionEnds

A read returns the document as of any moment since it began. An apply is announced
as long as the card is subscribed (`Published`). `told` remembers the revisions the
card has heard of: by an event, by what it asked for at its opening, by the
result of the refresh behind it and by its own saves.

`sync_views` has two clicks of any kind and a budget of two for clicks, foreign applies,
failed calls and the refresh behind the opening. Two are enough for every pair of
these to overlap, beside the run that every opening asks for and what a click itself
sets in motion (its save, its apply, its announcement). It shows that the message never
goes back to an older roster and that nothing follows the expired card
(`MessageInOrder`), and that the card ends up showing all it was told
of, whatever overlapped (`CardCatchesUp`).

Fairness: the event loop resumes everyone, reads and edits come back, with a result
or an error, and an apply that is through is announced. Clicks, applies and the end of the
session are free.

The properties name their exceptions, kept in `excuse`; each is needed, and each is a
weak spot of the card rather than of the model:

- "backwards" and "given": a click gives the reload the document of its own save
  (`component-handlers.js:283`), which then counts as the newest although an apply may
  have been saved and even shown since; the refresh behind the opening does so
  with the document it brings (below).
- "failed": a reload or an edit that fails is logged and not tried again.
- "preview": a click on the sync view may read the preview before an apply and store
  it after the card has loaded the apply's.

`OpeningCaughtUp` (run `status_card_open`, expected to fail) is what `index.js:509-510`
says of the run asked for at the opening: "Catch writes made while the first reply was
rendering". When the card opens and nothing is due, `loadStatusUserDoc` hands back its
seed without waiting for I/O. The session still shows that seed, because the
queue's read has not answered, so `index.js:528` gives the seed to the reload as
the newest document; its ticket is newer than the queue's, whose fresh read is then
dropped (`session-state.js:125`). A write made while the first reply rendered stays
invisible until the next click or apply. The run has no clicks and needs no failure.

What is proved (`SyncViews_proofs.tla`), for any set of clicks of any kinds and any
budget: `CardInOrder`, that is `MessageInOrder`, with the types. `CardInv` says
that one reload at most is the latest, and unless it was given its document brings
nothing older than the session holds (`ReloadInv`); that one payload at most is
built or waits and one is sent, and the expired card comes last (`DrawInv`); and that
message, edit, payload and session are each at least as new as the one before
(`AgeInv`), unless "backwards" was recorded. The last is where the exception is
needed: without it the step `Loaded` does not keep `AgeInv`.

Only model-checked: `CardCatchesUp`; `OpeningCaughtUp` is refuted (above).

Seen while reading, and not stated as properties: a view is chosen with a
ticket that is taken only after the click was deferred and the rosters refreshed, so
the slower of two picks can win (`component-handlers.js:627`); a ninth subscriber of
one owner silently replaces the oldest (`apply-events.js:53`).

Abstractions: rosters shared with the viewer, and with them the subscriptions to
other owners, are left out, and so are page and filter state, the notices, the cached
background, the daily stamp and the redraws that only hydrate a link or report a failed
refresh. At most one apply waits for its announcement. `redraw` compares its
ticket when the card is built; dropping the card at the moment a newer redraw begins
has the same effect, since nothing else looks at it in between. The freshness limit of
`refreshViewerAccountsIfStale` (5 s) is a free choice.

## 14. Not modelled, and why

- **HTTP server, tokens**: rate limits, the replay set and signing; planned.
- **In-flight loader, expiring map** of `utils`: one owner each, no shared document;
  planned at low priority.
- **Several raids and characters, item levels, task counters**: `RaidWeek` follows one
  raid of one character; the others repeat the same writes on the same document.
- **Calendar arithmetic** (`reset-windows.js`, `artist-clock.js`): the models number
  slots, days and weeks. Strings and time zones are out of TLC's reach as data.
- **Roster add, edit and refresh, sharing, side tasks, `/raid-check`**: their state is in
  the user document under the same optimistic saves as in `DailyRefresh` and
  `RaidWeek`; planned at low priority.
- **Discord layout, locales (8,000 lines of text), images and cards, emoji
  bootstrap, domain tables, the parsers of log pages and channel messages, SQLite in
  the browser, scripts and deployment**: pure text, data or I/O.
- **lostark.bible and Mongo** are the environment.
- **Proofs** exist for every safety property that a passing run checks. Liveness under
  fairness is out of the prover's reach: `SlotComesBack`, `InterruptedApplyRecovers`,
  `EveryRosterSettles`, `NobodyWaitsForever`, `EveryoneRollsOver`, `NewestShown` and
  `CardCatchesUp` stay with TLC, on the bounds of their runs.
