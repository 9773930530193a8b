---------------------------- MODULE LocalReader ----------------------------
(***************************************************************************)
(* The Local Reader page: which read of encounters.db it shows and what    *)
(* its Sync button sends (web/js/app.js), with the file monitor and the    *)
(* latest-only runner of web/js/sync/file/file-change-monitor.js.          *)
(*                                                                         *)
(* A file is as many clears as it has revisions: every commit of LOA Logs  *)
(* adds one.  The server is what the page sees of it: a roster, the job of *)
(* the last handoff and the answers that can come back.                    *)
(***************************************************************************)
EXTENDS Naturals

CONSTANTS
  Files,     \* file handles the user can pick
  NoFile,    \* no file
  Attempts,  \* maxAttempts of ensureFreshPreviewBeforeSend
  MaxRev,    \* bound, [Files -> Nat]: revisions of a file
  Picks,     \* bound: files picked (selectionSerial)
  Budget     \* bound: clicks on Sync, failures and clears logged, together

ASSUME ReaderAssumption ==
  /\ NoFile \notin Files
  /\ Attempts \in Nat \ {0}
  /\ MaxRev \in [Files -> Nat \ {0}]
  /\ {Picks, Budget} \subseteq Nat

VARIABLES
  disk,        \* [Files -> Nat]: the revision on disk
  roster,      \* clears the server has on the roster
  job,         \* clears the job the page may apply has still to write
  serial,      \* selectionSerial
  handle,      \* selectedFileHandle
  opening,     \* the file whose header loadFile is reading
  stage,       \* stage.dataset.stage
  rendered,    \* lastRenderedRevision, with its file
  deltas,      \* lastDeltas
  pendingJob,  \* pendingJobId is set
  timer,       \* previewRetryTimer: its expectedSelection, 0: none
  reads,       \* reads of the file in flight: retries and stale-job reads
  run,         \* the refresh runPreviewRefresh is busy with
  next,        \* `pending` of the runner
  mon,         \* fileChangeMonitor
  send,        \* the Sync click in flight
  spent,       \* of Budget
  unsettled,   \* ghost: a job of this selection was sent to apply, and its
               \* end has not been seen
  lapse        \* ghost: since the last commit the page has lost a re-read
               \* that nothing repeats, or a click had the stage when the
               \* file was opened (see NewestShown)

vars == <<disk, roster, job, serial, handle, opening, stage, rendered, deltas,
          pendingJob, timer, reads, run, next, mon, send, spent,
          unsettled, lapse>>
world == <<disk, roster, job>>
picked == <<serial, handle, opening>>
shown == <<rendered, deltas>>
runner == <<run, next>>
ghosts == <<unsettled, lapse>>

-----------------------------------------------------------------------------
(* Data.                                                                   *)

NoSnap == [f |-> NoFile, r |-> 0]
Snaps == UNION {[f : {g}, r : 1..MaxRev[g]] : g \in Files}
Now(f) == [f |-> f, r |-> disk[f]]
Clears(s) == {[s EXCEPT !.r = i] : i \in 1..s.r}
Reasons == {"initial", "file-change", "retry", "post-query-change",
            "pre-send", "stale-job"}

\* A request of queuePreviewRefresh.  `back` is what the monitor returns to
\* when the refresh of its change fails.
Requests == [snap : Snaps, why : Reasons, sel : 1..Picks,
             handle : Files \cup {NoFile}, back : Snaps \cup {NoSnap}]
NoRequest == [snap |-> NoSnap, why |-> "none"]
Request(s, why, sel, h) ==
  [snap |-> s, why |-> why, sel |-> sel, handle |-> h, back |-> NoSnap]

\* A refresh: `cur` is isCurrent(), `base` the roster it has fetched, `bad`
\* that the fetch failed, `seen` the header it re-reads before the commit.
NoRun == [req |-> NoRequest, pc |-> "none"]
Started(q) == [req |-> q, pc |-> "scan", cur |-> TRUE, base |-> roster,
               bad |-> FALSE, seen |-> NoSnap]

\* `probe`: what the poll in flight has read.  The settle of a candidate:
\* timer armed, header being read, or read failed.
NoMonitor == [on |-> FALSE, last |-> NoSnap, cand |-> NoSnap,
              settle |-> "none", seen |-> NoSnap, probe |-> NoSnap]
Baseline(m, s) == [m EXCEPT !.last = s, !.cand = NoSnap, !.settle = "none",
                     !.seen = NoSnap]

\* A click: `at` (ghost) is the file on disk when it was made.
NoSend == [pc |-> "idle", sel |-> 0, f |-> NoFile, at |-> NoSnap,
           tries |-> 0, prev |-> NoSnap, out |-> "none"]

Init ==
  /\ disk = [f \in Files |-> 1]
  /\ roster = {} /\ job = {}
  /\ serial = 0 /\ handle = NoFile /\ opening = NoSnap
  /\ stage = "empty"
  /\ rendered = NoSnap /\ deltas = {} /\ pendingJob = FALSE
  /\ timer = 0 /\ reads = {}
  /\ run = NoRun /\ next = NoRequest
  /\ mon = NoMonitor /\ send = NoSend
  /\ spent = 0 /\ unsettled = FALSE /\ lapse = FALSE

Spend == spent < Budget /\ spent' = spent + 1
Fails == Spend
Works == UNCHANGED spent

\* syncOwnsStage
SyncOwnsStage == send.pc # "idle" \/ pendingJob

-----------------------------------------------------------------------------
(* The latest-only runner.                                                 *)

\* request: what waits is replaced, what runs is aborted.
Submit(q) ==
  IF run = NoRun THEN run' = Started(q) /\ next' = NoRequest
                 ELSE run' = [run EXCEPT !.cur = FALSE] /\ next' = q

\* invalidate
Invalidate ==
  /\ run' = IF run = NoRun THEN run ELSE [run EXCEPT !.cur = FALSE]
  /\ next' = NoRequest

\* drain: the refresh is over, the waiting one begins.
Drain ==
  /\ run' = IF next = NoRequest THEN NoRun ELSE Started(next)
  /\ next' = NoRequest

\* throwIfPreviewSuperseded
Superseded == ~run.cur \/ run.req.sel # serial

\* The click that waits for its refresh learns how it ended.
Tell(out) ==
  send' = IF run.req.why = "pre-send" THEN [send EXCEPT !.out = out] ELSE send

\* schedulePreviewRetry: one timer at most.  A timer left by an earlier
\* selection does nothing when it fires, so the retry it stands for is lost.
Schedule(sel) ==
  /\ timer' = IF timer = 0 /\ handle # NoFile THEN sel ELSE timer
  /\ lapse' = (lapse \/ (sel = serial /\ timer \notin {0, serial}))

\* stageCandidate
Staged(m, s) ==
  IF s = m.last
    THEN [m EXCEPT !.cand = NoSnap, !.settle = "none", !.seen = NoSnap]
  ELSE IF s = m.cand /\ m.settle = "armed" THEN m
  ELSE [m EXCEPT !.cand = s, !.settle = "armed", !.seen = NoSnap]

-----------------------------------------------------------------------------
(* The world outside the page.                                             *)

\* LOA Logs commits a clear.
LogClear(f) ==
  /\ disk[f] < MaxRev[f] /\ Spend
  /\ disk' = [disk EXCEPT ![f] = @ + 1]
  /\ UNCHANGED <<roster, job, picked, stage, shown, pendingJob, timer, reads,
                 runner, mon, send, ghosts>>

\* Mutated form: the monitor of the file before keeps running.
PickMonitored(f) ==
  /\ serial < Picks
  /\ serial' = serial + 1
  /\ handle' = NoFile /\ opening' = Now(f)
  /\ rendered' = NoSnap /\ deltas' = {} /\ pendingJob' = FALSE
  /\ timer' = 0
  /\ Invalidate
  /\ unsettled' = FALSE
  /\ job' = IF send.pc = "apply" THEN job ELSE {}
  /\ UNCHANGED <<disk, roster, stage, reads, mon, send, spent,
                 lapse>>

\* loadFile up to its await.  The page offers no file while a click is in
\* flight, but the handle chosen before is awaited, so the call may come then.
Pick(f) ==
  /\ serial < Picks
  /\ serial' = serial + 1
  /\ handle' = NoFile /\ opening' = Now(f)
  /\ mon' = NoMonitor
  /\ rendered' = NoSnap /\ deltas' = {} /\ pendingJob' = FALSE
  /\ timer' = 0
  /\ Invalidate
  /\ unsettled' = FALSE
  /\ job' = IF send.pc = "apply" THEN job ELSE {}
  /\ UNCHANGED <<disk, roster, stage, reads, send, spent, lapse>>

\* loadFile after it: the monitor starts and the first preview is queued.
Opened ==
  /\ opening # NoSnap
  /\ handle' = opening.f /\ opening' = NoSnap
  /\ mon' = [Baseline(NoMonitor, opening) EXCEPT !.on = TRUE]
  /\ stage' = "reading"
  /\ timer' = 0
  /\ Submit(Request(opening, "initial", serial, opening.f))
  /\ lapse' = SyncOwnsStage
  /\ UNCHANGED <<world, serial, shown, pendingJob, reads, send, spent,
                 unsettled>>

-----------------------------------------------------------------------------
(* runPreviewRefresh.                                                      *)

\* A superseded refresh ends at its next check, whatever it has found.
RefreshAborts ==
  /\ run # NoRun /\ Superseded
  /\ Tell("superseded") /\ Drain
  /\ UNCHANGED <<world, picked, stage, shown, pendingJob, timer, reads, mon,
                 spent, ghosts>>

\* Mutated form: the header is not read again before the commit.
RereadSkipped == run.req.snap

\* The header before the commit, of a refresh begun for the selected handle.
Reread ==
  IF run.req.handle # NoFile /\ run.req.handle = handle
    THEN Now(handle) ELSE run.req.snap

\* The file is scanned and the roster fetched, as of the beginning or later.
Scanned ==
  /\ run.pc = "scan" /\ ~Superseded
  /\ \/ /\ Works
        /\ \E b \in {run.base, roster} :
             run' = [run EXCEPT !.pc = "commit", !.base = b, !.seen = Reread]
     \/ /\ Fails
        /\ run' = [run EXCEPT !.pc = "commit", !.base = {}, !.bad = TRUE,
                     !.seen = Reread]
  /\ UNCHANGED <<world, picked, stage, shown, pendingJob, timer, reads, next,
                 mon, send, ghosts>>

\* Mutated form: a change whose refresh failed stays the monitor's baseline.
RollBackForgotten(q) == mon

\* onChange rejected: the monitor will find the same revision again.
RollBack(q) ==
  IF q.why = "file-change" THEN [mon EXCEPT !.last = q.back] ELSE mon

\* Neither the monitor nor a retry will read the revision of q again.
NotReadAgain(q) ==
  q.why # "file-change" /\ mon.last = q.snap /\ timer # serial

\* The scan or the re-read throws.  A change found by the monitor or by the
\* re-read is left to the monitor, and so is every query that throws: its error
\* has a problemKey.  Any other failure is retried.  What is left to a monitor
\* that takes the revision for known, and is not rolled back, is lost.
RefreshFails ==
  /\ run.pc = "scan" /\ ~Superseded /\ Fails
  /\ stage' = IF SyncOwnsStage THEN stage ELSE "problem"
  /\ mon' = RollBack(run.req)
  /\ \/ /\ run.req.why \notin {"file-change", "post-query-change"}
        /\ Schedule(run.req.sel)
     \/ /\ lapse' = (lapse \/ NotReadAgain(run.req))
        /\ UNCHANGED timer
  /\ Tell("rejected") /\ Drain
  /\ UNCHANGED <<world, picked, shown, pendingJob, reads, unsettled>>

\* The file has changed under the scan: only its newest state is queued.
FileChanged ==
  /\ run.pc = "commit" /\ ~Superseded /\ run.seen # run.req.snap
  /\ run' = Started(
       Request(run.seen, "post-query-change", run.req.sel, handle))
  /\ timer' = 0
  /\ Tell("superseded")
  /\ UNCHANGED <<world, picked, stage, shown, pendingJob, reads, next, mon,
                 spent, ghosts>>

\* The roster could not be read: the preview stays and is tried again.
RosterFailed ==
  /\ run.pc = "commit" /\ ~Superseded /\ run.seen = run.req.snap /\ run.bad
  /\ Schedule(run.req.sel)
  /\ Tell("completed") /\ Drain
  /\ UNCHANGED <<world, picked, stage, shown, pendingJob, reads, mon, spent,
                 unsettled>>

\* The stage after commitPreview.
StageOf(found) ==
  IF SyncOwnsStage THEN stage
  ELSE IF found # {} THEN "ready"
  ELSE IF stage = "done" THEN "done" ELSE "nothing"

CommitPreview ==
  /\ run.pc = "commit" /\ ~Superseded /\ run.seen = run.req.snap /\ ~run.bad
  /\ rendered' = run.req.snap
  /\ deltas' = Clears(run.req.snap) \ run.base
  /\ stage' = StageOf(deltas')
  /\ mon' = IF mon.on THEN Baseline(mon, run.req.snap) ELSE mon
  /\ timer' = 0
  /\ lapse' = (lapse /\ SyncOwnsStage)
  /\ Tell("completed") /\ Drain
  /\ UNCHANGED <<world, picked, pendingJob, reads, spent, unsettled>>

-----------------------------------------------------------------------------
(* The file monitor.                                                       *)

\* performProbe, on a poll, a focus or an observer's call: the header is read.
Probe ==
  /\ mon.on /\ mon.probe = NoSnap
  /\ mon' = [mon EXCEPT !.probe = Now(handle)]
  /\ UNCHANGED <<world, picked, stage, shown, pendingJob, timer, reads,
                 runner, send, spent, ghosts>>

\* And compared with what the monitor knows by then.
Probed ==
  /\ mon.on /\ mon.probe # NoSnap
  /\ LET m == [mon EXCEPT !.probe = NoSnap]
     IN mon' = IF mon.probe # mon.last \/ mon.cand # NoSnap
                 THEN Staged(m, mon.probe) ELSE m
  /\ UNCHANGED <<world, picked, stage, shown, pendingJob, timer, reads,
                 runner, send, spent, ghosts>>

\* The candidate has settled and the header is read once more.
SettleFires ==
  /\ mon.settle = "armed"
  /\ mon' = [mon EXCEPT !.settle = "reading", !.seen = Now(handle)]
  /\ UNCHANGED <<world, picked, stage, shown, pendingJob, timer, reads,
                 runner, send, spent, ghosts>>

\* confirmCandidate, which on a stable candidate calls onChange.
Confirmed ==
  /\ mon.settle = "reading"
  /\ \/ /\ mon.seen # mon.cand
        /\ mon' = Staged(mon, mon.seen)
        /\ UNCHANGED <<timer, runner>>
     \/ /\ mon.seen = mon.cand
        /\ mon' = Baseline(mon, mon.seen)
        /\ timer' = 0
        /\ Submit([Request(mon.seen, "file-change", serial, handle)
                     EXCEPT !.back = mon.last])
  /\ UNCHANGED <<world, picked, stage, shown, pendingJob, reads, send, spent,
                 ghosts>>

\* The read fails: the candidate stays, the next probe arms it again.
ConfirmFails ==
  /\ mon.settle = "reading" /\ Fails
  /\ mon' = [mon EXCEPT !.settle = "failed", !.seen = NoSnap]
  /\ UNCHANGED <<world, picked, stage, shown, pendingJob, timer, reads,
                 runner, send, ghosts>>

-----------------------------------------------------------------------------
(* Retries and the read after a finished or stale job.                     *)

Read(why, s, sel) == [why |-> why, snap |-> s, sel |-> sel]

TimerFires ==
  /\ timer # 0
  /\ timer' = 0
  /\ reads' = IF timer = serial /\ handle # NoFile
                THEN reads \cup {Read("retry", Now(handle), timer)} ELSE reads
  /\ UNCHANGED <<world, picked, stage, shown, pendingJob, runner, mon, send,
                 spent, ghosts>>

\* readStableFileHandleSnapshot has seen the file twice the same, or not.
RetryRead(x) ==
  /\ x \in reads /\ x.why = "retry"
  /\ reads' = reads \ {x}
  /\ \/ /\ Works /\ Now(x.snap.f) = x.snap
        /\ Submit(Request(x.snap, "retry", x.sel, handle))
        /\ lapse' = (lapse \/ x.sel # serial)
        /\ UNCHANGED timer
     \/ /\ Works /\ Now(x.snap.f) # x.snap
        /\ Schedule(x.sel)
        /\ UNCHANGED runner
     \/ /\ Fails
        /\ Schedule(x.sel)
        /\ UNCHANGED runner
  /\ UNCHANGED <<world, picked, stage, shown, pendingJob, mon, send,
                 unsettled>>

\* The page has gone on to a newer revision than s.
Overtakes(s) ==
  \E t \in {run.req.snap, next.snap, mon.last} : t.f = s.f /\ t.r > s.r

\* refreshSelectedFile: the request carries the selection of this moment, not
\* the one the read began under (x.sel is a ghost here).
StaleJobRead(x) ==
  /\ x \in reads /\ x.why = "stale-job"
  /\ reads' = reads \ {x}
  /\ \/ /\ Works
        /\ \E s \in {x.snap, Now(x.snap.f)} :
             /\ Submit(Request(s, "stale-job", serial, handle))
             /\ lapse' = (lapse \/ x.sel # serial \/ Overtakes(s))
        /\ timer' = 0
     \/ /\ Fails
        /\ lapse' = (lapse \/ x.sel = serial)
        /\ UNCHANGED <<timer, runner>>
  /\ UNCHANGED <<world, picked, stage, shown, pendingJob, mon, send,
                 unsettled>>

-----------------------------------------------------------------------------
(* The Sync button.                                                        *)

\* returnToPreview
Return ==
  /\ send' = NoSend
  /\ stage' = IF send.sel # serial THEN stage
              ELSE IF deltas # {} THEN "ready" ELSE "nothing"

\* renderSyncError
ShowError ==
  /\ send' = NoSend
  /\ stage' = IF send.sel # serial THEN stage ELSE "error"

\* The preview on the page is handed to the server, if there is any.
Post == IF deltas = {} THEN Return
        ELSE /\ send' = [NoSend EXCEPT !.pc = "create", !.sel = send.sel,
                           !.f = send.f, !.at = send.at]
             /\ UNCHANGED stage

\* The next round of ensureFreshPreviewBeforeSend, if one is left.
TryAgain ==
  IF send.tries + 1 = Attempts THEN Return
  ELSE /\ send' = [NoSend EXCEPT !.pc = "wait", !.sel = send.sel,
                     !.f = send.f, !.at = send.at, !.tries = send.tries + 1]
       /\ UNCHANGED stage

\* The button is offered in these stages.  A page without a handle has
\* nothing to read again.
Click ==
  /\ send.pc = "idle" /\ stage \in {"ready", "error"}
  /\ Spend
  /\ LET click(step) ==
           [NoSend EXCEPT !.pc = step, !.sel = serial, !.f = handle,
              !.at = IF handle = NoFile THEN NoSnap ELSE Now(handle)]
     IN \/ /\ pendingJob
           /\ send' = [NoSend EXCEPT !.pc = "apply", !.sel = serial]
           /\ stage' = "syncing"
           /\ unsettled' = TRUE
        \/ /\ ~pendingJob /\ handle # NoFile
           /\ send' = click("wait") /\ stage' = "syncing"
           /\ UNCHANGED unsettled
        \/ /\ ~pendingJob /\ handle = NoFile
           /\ IF deltas = {}
                THEN UNCHANGED send /\ stage' = "nothing"
                ELSE send' = click("create") /\ stage' = "syncing"
           /\ UNCHANGED unsettled
  /\ UNCHANGED <<world, picked, shown, pendingJob, timer, reads, runner, mon,
                 lapse>>

\* Mutated form: whatever is on the page is taken for the newest.
OnScreenAssumed == rendered # NoSnap

\* The header the click has read is the one on the page.
OnScreen == rendered = send.prev

\* The runner is idle: the read of the header begins.
ClickProbes ==
  /\ send.pc = "wait" /\ run = NoRun
  /\ send' = IF handle # send.f \/ serial # send.sel THEN NoSend
             ELSE [send EXCEPT !.pc = "probe", !.prev = Now(handle)]
  /\ UNCHANGED <<world, picked, stage, shown, pendingJob, timer, reads,
                 runner, mon, spent, ghosts>>

\* The header is there; refreshes may have begun and ended meanwhile.
ClickProbed ==
  /\ send.pc = "probe"
  /\ \/ /\ OnScreen /\ serial = send.sel
        /\ Post
     \/ /\ OnScreen /\ serial # send.sel
        /\ send' = NoSend /\ UNCHANGED stage
     \/ /\ ~OnScreen
        /\ send' = [send EXCEPT !.pc = "settle"] /\ UNCHANGED stage
  /\ UNCHANGED <<world, picked, shown, pendingJob, timer, reads, runner, mon,
                 spent, ghosts>>

\* The changed file is read until it holds still, for a few rounds.
ClickSettles ==
  /\ send.pc = "settle"
  /\ \/ /\ Now(send.f) = send.prev
        /\ Submit(Request(send.prev, "pre-send", send.sel, handle))
        /\ send' = [send EXCEPT !.pc = "refresh", !.out = "superseded"]
        /\ timer' = 0
        /\ UNCHANGED stage
     \/ /\ Now(send.f) # send.prev
        /\ \/ send' = [send EXCEPT !.prev = Now(send.f)] /\ UNCHANGED stage
           \/ Return
        /\ UNCHANGED <<timer, runner>>
  /\ UNCHANGED <<world, picked, shown, pendingJob, reads, mon, spent, ghosts>>

\* The refresh it asked for is over.  If the page shows what it was asked for,
\* the header is read a last time.
ClickRefreshed ==
  /\ send.pc = "refresh"
  /\ "pre-send" \notin {run.req.why, next.why}
  /\ \/ send.out = "rejected" /\ ShowError
     \/ send.out = "superseded" /\ TryAgain
     \/ /\ send.out = "completed"
        /\ IF ~OnScreen THEN TryAgain
           ELSE /\ send' = [send EXCEPT !.pc = "final", !.prev = Now(send.f)]
                /\ UNCHANGED stage
  /\ UNCHANGED <<world, picked, shown, pendingJob, timer, reads, runner, mon,
                 spent, ghosts>>

ClickChecked ==
  /\ send.pc = "final"
  /\ \/ /\ handle # send.f \/ serial # send.sel
        /\ send' = NoSend /\ UNCHANGED stage
     \/ /\ handle = send.f /\ serial = send.sel
        /\ IF OnScreen THEN Post ELSE TryAgain
  /\ UNCHANGED <<world, picked, shown, pendingJob, timer, reads, runner, mon,
                 spent, ghosts>>

\* A header read of the click throws.
ClickFails ==
  /\ send.pc \in {"probe", "settle", "final"} /\ Fails
  /\ ShowError
  /\ UNCHANGED <<world, picked, shown, pendingJob, timer, reads, runner, mon,
                 ghosts>>

\* createPreviewJob: the server stores what the roster does not have yet.  A
\* job whose id does not arrive is never applied.
Created ==
  /\ send.pc = "create"
  /\ \/ /\ Works /\ job' = deltas \ roster
        /\ IF send.sel # serial
             THEN send' = NoSend /\ UNCHANGED <<pendingJob, unsettled>>
             ELSE /\ pendingJob' = TRUE /\ unsettled' = TRUE
                  /\ send' = [NoSend EXCEPT !.pc = "apply", !.sel = send.sel]
        /\ UNCHANGED stage
     \/ /\ Fails /\ ShowError
        /\ UNCHANGED <<job, pendingJob, unsettled>>
  /\ UNCHANGED <<disk, roster, picked, shown, timer, reads, runner, mon,
                 lapse>>

\* What the server does with a job, and what the page hears.
Answers ==
  {[say |-> "applied", wrote |-> job]}
    \cup [say : {"retryable", "lost"}, wrote : SUBSET job]
    \cup [say : {"busy", "gone"}, wrote : {{}}]

\* Mutated form: a job that was applied in part is given up.
EndsJobWhenPartial(a) == a.say \in {"applied", "gone", "retryable"}

\* renderApplyOutcome and renderSyncError: the job cannot be used again.
EndsJob(a) == a.say \in {"applied", "gone"}

Applied ==
  /\ send.pc = "apply"
  /\ \E a \in Answers :
       /\ IF a.say = "applied" THEN Works ELSE Fails
       /\ roster' = roster \cup a.wrote
       /\ job' = IF send.sel # serial \/ EndsJob(a) THEN {} ELSE job \ a.wrote
       /\ send' = NoSend
       /\ IF send.sel # serial
            THEN UNCHANGED <<stage, deltas, pendingJob, reads, unsettled>>
            ELSE /\ stage' = IF a.say = "applied" THEN "done" ELSE "error"
                 /\ deltas' = IF a.say = "applied" THEN {} ELSE deltas
                 /\ pendingJob' = (pendingJob /\ ~EndsJob(a))
                 /\ unsettled' =
                      (unsettled /\ a.say \notin {"applied", "gone"})
                 /\ reads' = IF EndsJob(a) /\ handle # NoFile
                      THEN reads \cup {Read("stale-job", Now(handle), serial)}
                      ELSE reads
  /\ UNCHANGED <<disk, picked, rendered, timer, runner, mon, lapse>>

-----------------------------------------------------------------------------
RefreshStep == \/ RefreshAborts \/ Scanned \/ RefreshFails
               \/ FileChanged \/ RosterFailed \/ CommitPreview
WatchStep == Probe \/ Probed \/ SettleFires
ReadStep == \E x \in reads : RetryRead(x) \/ StaleJobRead(x)
ClickStep == \/ ClickProbes \/ ClickProbed \/ ClickSettles
             \/ ClickRefreshed \/ ClickChecked \/ ClickFails
             \/ Created \/ Applied

Next ==
  \/ \E f \in Files : LogClear(f) \/ Pick(f)
  \/ Opened
  \/ RefreshStep
  \/ WatchStep \/ Confirmed \/ ConfirmFails
  \/ TimerFires \/ ReadStep
  \/ Click \/ ClickStep

Spec == Init /\ [][Next]_vars

\* Polls come again and again; reads, scans and requests end, and timers fire.
\* A poll may catch the monitor reading and make it settle again; it cannot do
\* so for ever, since settling takes less than the time between two polls.
Fairness ==
  /\ WF_vars(Opened)
  /\ WF_vars(RefreshStep)
  /\ WF_vars(Probe) /\ WF_vars(Probed) /\ WF_vars(SettleFires)
  /\ SF_vars(Confirmed)
  /\ WF_vars(TimerFires \/ ReadStep)
  /\ WF_vars(ClickStep)

FairSpec == Spec /\ Fairness

-----------------------------------------------------------------------------
(* Properties.                                                             *)

\* The variables have their types, a refresh waits only behind another, and
\* exactly the selected handle is watched.
ReaderTypeOK ==
  /\ \A f \in Files : Now(f) \in Snaps
  /\ {roster, job, deltas} \subseteq SUBSET Snaps
  /\ serial \in 0..Picks /\ timer \in 0..Picks
  /\ handle \in Files \cup {NoFile}
  /\ {opening, rendered} \subseteq Snaps \cup {NoSnap}
  /\ stage \in {"empty", "reading", "ready", "nothing", "problem", "syncing",
                "done", "error"}
  /\ next \in Requests \cup {NoRequest}
  /\ run = NoRun \/ run.req \in Requests
  /\ next # NoRequest => run # NoRun /\ ~run.cur
  /\ mon.on <=> handle # NoFile
  /\ send.pc = "idle" <=> send = NoSend

\* What a click hands over holds every clear that was on disk when the user
\* clicked and is not on the roster yet, whatever the monitor, the retries
\* and the refreshes are doing at that moment (ensureFreshPreviewBeforeSend).
ClickSendsAll ==
  [][send.pc # "create" /\ send'.pc = "create" /\ send'.f # NoFile
       => Clears(send'.at) \ roster \subseteq deltas]_vars

\* No new preview is handed over while a job of this file is unsettled: the
\* gates an earlier attempt wrote reach the party only through their own job
\* (pendingJobId).
JobKept ==
  [][send.pc # "create" /\ send'.pc = "create" => ~unsettled]_vars

\* While a file is selected the preview never goes back to an older read of
\* it, in whatever order scans, retries and re-reads come in.
RenderedInOrder ==
  [][rendered'.f = rendered.f /\ handle # NoFile
       => rendered'.r >= rendered.r]_vars

\* When nobody writes or clicks any more, the page comes to show the newest
\* state of the selected file, with every clear the roster does not have, and
\* offers Sync for it; unless a re-read was lost that nothing repeats: a
\* request displaced by a read begun for an earlier file or showing an older
\* revision, a retry that met the timer of an earlier file, the read after a
\* job, which is tried once, a scan whose query threw for a revision that the
\* monitor knows already; or the file was opened while a click was in flight.
NewestShown ==
  <>[](handle # NoFile /\ opening = NoSnap /\ ~lapse =>
         /\ rendered = Now(handle)
         /\ Clears(rendered) \ roster \subseteq deltas
         /\ stage \in IF deltas # {} \/ pendingJob THEN {"ready", "error"}
                                     ELSE {"nothing", "done", "error"})
=============================================================================
