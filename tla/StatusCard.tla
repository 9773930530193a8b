----------------------------- MODULE StatusCard -----------------------------
(***************************************************************************)
(* One open /raid-status card: how the rosters it shows are loaded, how it *)
(* hears of Local Sync applies and how it is drawn over and over.          *)
(*                                                                         *)
(* The viewer's document is what its revision tells; the rosters others    *)
(* share with the viewer are read beside it and left out.  Reads, saves    *)
(* and Discord edits take time and may come back in any order; between two *)
(* awaits the event loop runs one piece of one caller.                     *)
(*                                                                         *)
(* Sources: handlers/raid-status (index.js, state/session-state.js,        *)
(* sync/live-apply-refresh.js, view/redraw.js, components), with           *)
(* utils/async/latest-only-queue.js and local-sync/core/apply-events.js.   *)
(***************************************************************************)
EXTENDS Naturals, FiniteSets

CONSTANTS
  Clicks,     \* clicks of the viewer on the card
  Kinds,      \* what they may be
  CardBudget  \* bound: clicks, applies, failures and the refresh begun when
              \* the card opens, taken together

ASSUME CardAssumption ==
  /\ {"queue", "open", "end"} \cap Clicks = {}
  /\ Kinds \subseteq {"page", "save", "reload", "raid", "sync", "apply"}
  /\ CardBudget \in Nat

VARIABLES
  phase,    \* the card is off, on its first reply, live or over
  mine,     \* revision of the viewer's document
  jobs,     \* previews of the viewer that were applied
  news,     \* applies not announced yet, with the viewer's job or 0
  session,  \* what the card's session holds (createRaidStatusSessionState)
  ownJob,   \* pendingOwnJobId
  labels,   \* pendingLabels of the queue
  queue,    \* its drain and the run in it
  behind,   \* the refresh begun when the card opened
  click,    \* [Clicks -> ...]
  reload,   \* [Callers -> ...]: reloads in flight
  draw,     \* [Callers -> ...]: redraws in flight
  message,  \* what Discord shows
  used,     \* of CardBudget
  told,     \* ghost: the revisions the card has been told of
  excuse    \* ghost: why the card may stay behind them, see CardCatchesUp

around == <<mine, jobs, news>>
refresher == <<ownJob, labels, queue>>
cardGhosts == <<told, excuse>>
cardVars == <<phase, mine, jobs, news, session, ownJob, labels, queue,
              behind, click, reload, draw, message, used, told, excuse>>

-----------------------------------------------------------------------------
(* Data.                                                                   *)

\* Who reloads and who redraws: a run of the queue, the refresh begun at the
\* opening, the end of the session, and clicks.
Callers == {"queue", "open", "end"} \cup Clicks

Labels == {"open", "sync-completed", "local-sync-apply", "refresh"}

\* STATUS_STATE_REFRESH_LABELS
ReloadLabels == Labels \ {"refresh"}

\* A card, or the session it is drawn from: revision of the roster, the view
\* and the job of the loaded preview.
Face(s) == [own |-> s.own, view |-> s.view, snap |-> s.snap]
Live(s) == [face |-> Face(s), expired |-> FALSE]

NoRead == [st |-> "off"]
NoDraw == [st |-> "off"]
NoClick == [pc |-> "new"]
Handled == [pc |-> "done"]

Use == used < CardBudget /\ used' = used + 1
CallFails == Use
CallWorks == UNCHANGED used

Ended == phase = "over"

-----------------------------------------------------------------------------
(* Reloading the rosters: reloadViewerAccounts.                            *)

Reading == [st |-> "reading", latest |-> TRUE, given |-> FALSE, own |-> mine]
Given(v) == [Reading EXCEPT !.given = TRUE, !.own = v]

\* A reload takes a ticket: none of those before is the latest any more, and
\* what they bring does not matter.  It reads the document, or is given it and
\* reads the shares alone.
Ask(c, r) ==
  reload' = [x \in Callers |-> IF x = c THEN r ELSE
               IF reload[x].st = "off" THEN NoRead
               ELSE IF reload[x].st = "failed" THEN reload[x]
               ELSE [Reading EXCEPT !.latest = FALSE, !.own = 0]]

\* What a reload may bring: it was current at some time since it began.
Own(r) == IF r.given THEN {r.own} ELSE r.own..mine

\* The queue is going to reload once more.
WillReload == labels \cap ReloadLabels # {} /\ ~Ended

\* A caller brings a document that is older than what the card was told of.
GivesOld(v) ==
  excuse' = IF v < told.own /\ ~WillReload
              THEN excuse \cup {"given"} ELSE excuse

\* Mutated form: whatever read comes back is taken.
TakesAny(r) == TRUE

\* ticket === latestReloadTicket
Takes(r) == r.latest

\* A given document replaces a newer one.
WentBack(r) ==
  IF Takes(r) /\ r.given /\ r.own < session.own THEN {"backwards"} ELSE {}

Loaded(c) ==
  /\ reload[c].st = "reading"
  /\ reload' = [reload EXCEPT ![c] = NoRead]
  /\ IF Takes(reload[c])
       THEN \E v \in Own(reload[c]) :
              session' = [session EXCEPT !.own = v, !.seed = FALSE]
       ELSE UNCHANGED session
  /\ excuse' = excuse \cup WentBack(reload[c])
  /\ UNCHANGED <<phase, around, refresher, behind, click, draw, message,
                 used, told>>

\* A click only refreshes: the reload that others may share (see ClickAsks).
Shareable(c) == c \in Clicks /\ click[c].pc = "fresh"

\* The document cannot be read.
Unread(c) ==
  /\ reload[c].st = "reading" /\ ~reload[c].given /\ CallFails
  /\ reload' = [reload EXCEPT ![c] =
                  IF Shareable(c) THEN NoRead
                  ELSE [st |-> "failed", latest |-> FALSE]]
  /\ excuse' = IF WillReload THEN excuse ELSE excuse \cup {"failed"}
  /\ UNCHANGED <<phase, around, session, refresher, behind, click, draw,
                 message, told>>

-----------------------------------------------------------------------------
(* Redrawing the message: createStatusRedraw.                              *)

\* What a newer redraw drops: a card that is being built will not be passed
\* on, and a payload that waits is discarded.
Dropped == {"building", "waiting"}

Replaced(c, d) ==
  [x \in Callers |-> IF x = c THEN d
                     ELSE IF draw[x].st \in Dropped THEN NoDraw
                     ELSE draw[x]]

\* redraw: the card is built from the session of this moment.  Nothing is
\* drawn once the session has ended.
Redraw(c, s) ==
  draw' = IF Ended THEN draw
          ELSE Replaced(c, [st |-> "building", card |-> Live(s)])

\* No edit is under way.
Idle == \A x \in Callers : draw[x].st # "sent"

Write(d) == [d EXCEPT !.st = IF Idle THEN "sent" ELSE "waiting"]

\* buildEmbedAndCanvas is done.  The payload waits (enqueue) and goes out when
\* no edit is under way (dispatch).
Built(c) ==
  /\ draw[c].st = "building"
  /\ draw' = [draw EXCEPT ![c] = Write(@)]
  /\ UNCHANGED <<phase, around, session, refresher, behind, click, reload,
                 message, used, cardGhosts>>

\* Discord answers: the message is edited, or not.  The payload that waits
\* goes out.
Edited(c) ==
  /\ draw[c].st = "sent"
  /\ draw' = [x \in Callers |->
                IF x = c THEN NoDraw
                ELSE IF draw[x].st = "waiting"
                  THEN [draw[x] EXCEPT !.st = "sent"] ELSE draw[x]]
  /\ \/ /\ CallWorks
        /\ message' = draw[c].card
        /\ UNCHANGED excuse
     \/ /\ CallFails
        /\ excuse' = excuse \cup {"failed"}
        /\ UNCHANGED message
  /\ UNCHANGED <<phase, around, session, refresher, behind, click, reload,
                 told>>

-----------------------------------------------------------------------------
(* The queue of background renders: createLatestOnlyQueue.                 *)

NoQueue == [pc |-> "idle"]

\* request: joins the run that has not begun, or one more run follows.
Requested(label) ==
  /\ labels' = labels \cup {label}
  /\ queue' = IF queue.pc = "idle" THEN [pc |-> "due"] ELSE queue

\* A run is over: the drain goes on with what was requested meanwhile, or
\* resolves.
RunOver == queue' = [pc |-> IF labels' # {} THEN "due" ELSE "resolved"]

\* A run begins with the labels gathered so far.
RunBegins ==
  /\ queue.pc = "due"
  /\ labels' = {}
  /\ IF Ended
       THEN RunOver /\ UNCHANGED <<ownJob, reload, draw>>
     ELSE IF labels \cap ReloadLabels # {}
       THEN /\ queue' = [pc |-> "reload",
                         snaps |-> ownJob # 0 \/ "open" \in labels]
            /\ ownJob' = 0
            /\ Ask("queue", Reading)
            /\ UNCHANGED draw
     ELSE /\ queue' = [pc |-> "draw"]
          /\ Redraw("queue", session)
          /\ UNCHANGED <<ownJob, reload>>
  /\ UNCHANGED <<phase, around, session, behind, click, message, used,
                 cardGhosts>>

\* The reload is over, dropped or not.  In the sync view the preview is read.
RunReloaded ==
  /\ queue.pc = "reload" /\ reload["queue"].st = "off"
  /\ UNCHANGED labels
  /\ IF Ended
       THEN RunOver /\ UNCHANGED draw
     ELSE IF session.view = "sync" /\ queue.snaps
       THEN queue' = [pc |-> "snap", snap |-> jobs] /\ UNCHANGED draw
     ELSE queue' = [pc |-> "draw"] /\ Redraw("queue", session)
  /\ UNCHANGED <<phase, around, session, ownJob, behind, click, reload,
                 message, used, cardGhosts>>

\* A preview that was read before the newest apply the card was told of.
SnapsOld(v) ==
  excuse' = IF v < told.snap /\ ownJob = 0
              THEN excuse \cup {"preview"} ELSE excuse

RunPreviewed ==
  /\ queue.pc = "snap"
  /\ \E v \in queue.snap..jobs :
       /\ session' = [session EXCEPT !.snap = v]
       /\ SnapsOld(v)
  /\ queue' = [pc |-> "draw"]
  /\ Redraw("queue", session')
  /\ UNCHANGED <<phase, around, ownJob, labels, behind, click, reload, message,
                 used, told>>

\* The run rejects, which is reported and ends it like any other.
RunFails ==
  /\ queue.pc = "reload" /\ reload["queue"].st = "failed"
  /\ reload' = [reload EXCEPT !["queue"] = NoRead]
  /\ UNCHANGED labels /\ RunOver
  /\ UNCHANGED <<phase, around, session, ownJob, behind, click, draw,
                 message, used, cardGhosts>>

RunDrawn ==
  /\ queue.pc = "draw" /\ draw["queue"].st = "off"
  /\ UNCHANGED labels /\ RunOver
  /\ UNCHANGED <<phase, around, session, ownJob, behind, click, reload, draw,
                 message, used, cardGhosts>>

\* Mutated form: a request made since the drain resolved is not looked for.
FinalizedBlind == [pc |-> "idle"]

\* The finalizer of the drain.
Finalized == [pc |-> IF labels # {} THEN "due" ELSE "idle"]

DrainEnds ==
  /\ queue.pc = "resolved"
  /\ queue' = Finalized
  /\ UNCHANGED <<phase, around, session, ownJob, labels, behind, click, reload,
                 draw, message, used, cardGhosts>>

-----------------------------------------------------------------------------
(* Local Sync, in this process.                                            *)

\* One more apply reaches the viewer's roster, to be announced when it is
\* through: the job is the viewer's own, or 0 for that of a party member.  One
\* apply at a time is not announced yet.
Applying(j) ==
  /\ news = {} /\ news' = {j}

\* An apply on the page of the Local Reader, or a party member's.
ViewerApply ==
  /\ Use
  /\ mine' = mine + 1
  /\ \/ jobs' = jobs + 1 /\ Applying(jobs + 1)
     \/ UNCHANGED jobs /\ Applying(0)
  /\ UNCHANGED <<phase, session, refresher, behind, click, reload, draw,
                 message, cardGhosts>>

\* What the card has been told of it has to show, whatever excused it before.
Tells ==
  /\ told' = [own |-> mine, snap |-> jobs]
  /\ excuse' = excuse \cap {"backwards"}

\* publishLocalSyncApplied and onApplied: only a live card is subscribed.
Published(j) ==
  /\ j \in news /\ news' = news \ {j}
  /\ IF phase = "live"
       THEN /\ ownJob' = IF j # 0 THEN j ELSE ownJob
            /\ Requested("local-sync-apply")
            /\ Tells
       ELSE UNCHANGED <<refresher, cardGhosts>>
  /\ UNCHANGED <<phase, mine, jobs, session, behind,
                 click, reload, draw, message, used>>

-----------------------------------------------------------------------------
(* Opening the card, and the end of it.                                    *)

\* handleStatusCommand after its first reply: the card listens, and asks for
\* the writes made since its rosters were read.
Opens ==
  /\ phase = "reply"
  /\ phase' = "live"
  /\ Requested("open")
  /\ Tells
  /\ UNCHANGED <<around, session, ownJob, behind, click, reload, draw, message,
                 used>>

\* startBackgroundRefresh.  With nothing due it hands back the document the
\* card was opened with, and does so before any read can answer, but after
\* the queue has begun; otherwise it saves what it gathered, and Bible logs
\* that take longer may follow.
Refreshed ==
  /\ behind.pc = "busy" /\ phase # "reply" /\ "open" \notin labels
  /\ \/ behind' = [pc |-> "back", own |-> 0, more |-> FALSE] /\ UNCHANGED mine
     \/ /\ mine' = mine + 1
        /\ \E m \in BOOLEAN :
             behind' = [pc |-> "back", own |-> mine + 1, more |-> m]
  /\ UNCHANGED <<phase, jobs, news, session, refresher,
                 click, reload, draw, message, used, cardGhosts>>

AtLeast(v) == IF v > told.own THEN v ELSE told.own

\* statusState.userDoc === refreshSeed
SeedShown == session.seed

\* Its result is used if no reload has been taken since.
RefreshReturns ==
  /\ behind.pc = "back"
  /\ behind' = [pc |-> "reload", more |-> behind.more]
  /\ told' = [told EXCEPT !.own = AtLeast(behind.own)]
  /\ IF SeedShown
       THEN Ask("open", Given(behind.own)) /\ GivesOld(behind.own)
       ELSE Ask("open", Reading) /\ UNCHANGED excuse
  /\ UNCHANGED <<phase, around, session, refresher, click, draw, message,
                 used>>

RefreshLoaded ==
  /\ behind.pc = "reload" /\ reload["open"].st # "reading"
  /\ behind' = [pc |-> IF behind.more /\ reload["open"].st = "off"
                         THEN "more" ELSE "done"]
  /\ reload' = [reload EXCEPT !["open"] = NoRead]
  /\ Requested("refresh")
  /\ UNCHANGED <<phase, around, session, ownJob, click, draw, message, used,
                 cardGhosts>>

\* The late Bible logs are saved, and the card is asked to load them.
LateSaved ==
  /\ behind.pc = "more"
  /\ behind' = [pc |-> "late"]
  /\ mine' = mine + 1
  /\ UNCHANGED <<phase, jobs, news, session, refresher,
                 click, reload, draw, message, used, cardGhosts>>

LateShown ==
  /\ behind.pc = "late"
  /\ behind' = [pc |-> "done"]
  /\ Requested("sync-completed")
  /\ IF phase = "live" THEN Tells ELSE UNCHANGED cardGhosts
  /\ UNCHANGED <<phase, around, session, ownJob, click, reload, draw, message,
                 used>>

\* The collector ends: stop(), and finish() with the expired card, which
\* nothing may follow.
SessionEnds ==
  /\ phase = "live" /\ phase' = "over"
  /\ draw' = Replaced("end",
       Write([st |-> "due", card |-> [face |-> Face(session),
                                      expired |-> TRUE]]))
  /\ UNCHANGED <<around, session, refresher, behind, click, reload, message,
                 used, cardGhosts>>

-----------------------------------------------------------------------------
(* Clicks: routeOwnerComponent and the handlers.                           *)

Goto(c, pc) == click' = [click EXCEPT ![c].pc = pc]
Over(c) == click' = [click EXCEPT ![c] = Handled]

\* LIVE_SNAPSHOT_ACTIONS
LiveKinds == {"page", "raid", "sync"}

\* The control is on the card.
Offered(k) ==
  /\ k \in {"save", "reload"} => message.face.view = "raid"
  /\ k = "apply" => message.face.view = "sync"

\* A click; which of those left does not matter.  A control that applies is for
\* the preview that follows those the card has seen applied.
Clicked(k) ==
  LET c == CHOOSE c \in Clicks : click[c] = NoClick IN
  /\ NoClick \in {click[d] : d \in Clicks} /\ phase = "live" /\ Use
  /\ Offered(k)
  /\ click' = [click EXCEPT ![c] = [pc |-> "defer", kind |-> k, of |-> c,
                                    latest |-> FALSE,
                                    rev |-> message.face.snap]]
  /\ UNCHANGED <<phase, around, session, refresher, behind, reload, draw,
                 message, cardGhosts>>

\* refreshViewerAccountsIfStale: the rosters are fresh enough, or a click that
\* came before is reading them and its read is still the latest, or they are
\* read.
ClickAsks(c) ==
  LET reading == {d \in Clicks : /\ reload[d].st = "reading"
                                 /\ reload[d].latest /\ Shareable(d)}
      waits(d) == click' = [click EXCEPT ![c].pc = "fresh", ![c].of = d]
  IN /\ click[c].pc = "defer" /\ click[c].kind \in LiveKinds
     /\ \/ Goto(c, "fresh") /\ UNCHANGED reload
        \/ \E d \in reading : waits(d) /\ UNCHANGED reload
        \/ reading = {} /\ waits(c) /\ Ask(c, Reading)
     /\ UNCHANGED <<phase, around, session, refresher, behind, draw, message,
                    used, cardGhosts>>

\* latestViewTicket
Picked(c, to) ==
  click' = [x \in Clicks |->
              IF x = c THEN to
              ELSE IF click[x] \in {NoClick, Handled} THEN click[x]
              ELSE [click[x] EXCEPT !.latest = FALSE]]

\* The handlers that only choose what to show.
ClickShows(c) ==
  /\ click[c].pc = "fresh" /\ reload[click[c].of].st = "off"
  /\ \/ /\ click[c].kind = "page"
        /\ Over(c) /\ Redraw(c, session) /\ UNCHANGED session
     \/ /\ click[c].kind = "raid"
        /\ Picked(c, Handled)
        /\ session' = [session EXCEPT !.view = "raid"]
        /\ Redraw(c, session')
     \/ /\ click[c].kind = "sync"
        /\ Picked(c, [click[c] EXCEPT !.pc = "preview", !.latest = TRUE,
                                        !.rev = jobs])
        /\ UNCHANGED <<session, draw>>
  /\ UNCHANGED <<phase, around, refresher, behind, reload, message, used,
                 cardGhosts>>

\* Gold, task, manual sync and roster refresh save the own document.
ClickSaves(c) ==
  /\ click[c].pc = "defer" /\ click[c].kind = "save"
  /\ \/ /\ CallWorks
        /\ mine' = mine + 1
        /\ click' = [click EXCEPT ![c].pc = "saved", ![c].rev = mine + 1]
        /\ UNCHANGED draw
     \/ /\ CallFails
        /\ Over(c) /\ Redraw(c, session)
        /\ UNCHANGED mine
  /\ UNCHANGED <<phase, jobs, news, session, refresher,
                 behind, reload, message, cardGhosts>>

\* The saved document is given to the reload, except for a task.
ClickSaved(c) ==
  /\ click[c].pc = "saved" /\ click[c].kind = "save"
  /\ Goto(c, "reload")
  /\ told' = [told EXCEPT !.own = AtLeast(click[c].rev)]
  /\ \/ Ask(c, Given(click[c].rev)) /\ GivesOld(click[c].rev)
     \/ Ask(c, Reading) /\ UNCHANGED excuse
  /\ UNCHANGED <<phase, around, session, refresher, behind, draw, message,
                 used>>

\* runLocalSyncViewAction: the preview the control was for is applied, or in
\* part and without an announcement; or nothing is written, because it has been
\* applied, is busy, cancelled or gone.
ClickApplies(c) ==
  LET goes(pc) == click' = [click EXCEPT ![c].pc = pc, ![c].rev = jobs'] IN
  /\ click[c].pc = "defer" /\ click[c].kind = "apply"
  /\ \/ /\ click[c].rev = jobs /\ mine' = mine + 1
        /\ \/ jobs' = jobs + 1 /\ Applying(jobs + 1) /\ UNCHANGED used
           \/ UNCHANGED <<jobs, news>> /\ Use
        /\ goes("saved")
     \/ /\ UNCHANGED <<mine, jobs, news, used>>
        /\ goes("saved") \/ goes("preview")
  /\ UNCHANGED <<phase, session, refresher, behind, reload, draw, message,
                 cardGhosts>>

\* The rosters are read again: after an apply and its announcement, or because
\* the user asks.
ClickReloads(c) ==
  /\ \/ /\ click[c].pc = "saved" /\ click[c].kind = "apply"
        /\ click[c].rev \notin news
     \/ click[c].pc = "defer" /\ click[c].kind = "reload"
  /\ Goto(c, "reload")
  /\ Ask(c, Reading)
  /\ UNCHANGED <<phase, around, session, refresher, behind, draw, message,
                 used, cardGhosts>>

\* After the reload the card is drawn, or the preview is read first.  A reload
\* that failed is told to the user; after an apply it is only logged.
ClickReloaded(c) ==
  /\ click[c].pc = "reload" /\ reload[c].st # "reading"
  /\ reload' = [reload EXCEPT ![c] = NoRead]
  /\ IF click[c].kind = "apply"
       THEN /\ click' = [click EXCEPT ![c].pc = "preview", ![c].rev = jobs]
            /\ UNCHANGED draw
       ELSE /\ Over(c)
            /\ IF reload[c].st = "failed" THEN UNCHANGED draw
                                          ELSE Redraw(c, session)
  /\ UNCHANGED <<phase, around, session, refresher, behind, message, used,
                 cardGhosts>>

StillPicked(c) == click[c].kind = "sync" => click[c].latest

ClickPreviewed(c) ==
  /\ click[c].pc = "preview"
  /\ Over(c)
  /\ IF StillPicked(c)
       THEN \E v \in click[c].rev..jobs :
              /\ session' = [session EXCEPT !.snap = v,
                               !.view = IF click[c].kind = "sync" THEN "sync"
                                                                  ELSE @]
              /\ SnapsOld(v)
              /\ Redraw(c, session')
       ELSE UNCHANGED <<session, draw, excuse>>
  /\ UNCHANGED <<phase, around, refresher, behind, reload, message, used,
                 told>>

-----------------------------------------------------------------------------
NotOpen == [own |-> 0, snap |-> 0]

\* The card begins in a view, with its rosters read, and with a refresh begun
\* behind it when the viewer has a roster.
CardAt(p, view, pc) ==
  /\ phase = p
  /\ mine = 0 /\ jobs = 0 /\ news = {}
  /\ session = [own |-> 0, view |-> view, snap |-> 0, seed |-> TRUE]
  /\ ownJob = 0 /\ labels = {} /\ queue = NoQueue
  /\ behind = [pc |-> pc]
  /\ click = [c \in Clicks |-> NoClick]
  /\ reload = [c \in Callers |-> NoRead]
  /\ draw = [c \in Callers |-> NoDraw]
  /\ message = Live(session)
  /\ used = IF pc = "busy" THEN 1 ELSE 0
  /\ told = NotOpen /\ excuse = {}

\* The first reply is under way.
CardInit ==
  \E view \in {"raid", "sync"}, pc \in {"busy", "done"} :
    CardAt("reply", view, pc)

RunStep == \/ RunBegins \/ RunReloaded \/ RunPreviewed \/ RunFails
           \/ RunDrawn \/ DrainEnds
BehindStep == \/ Refreshed \/ RefreshReturns \/ RefreshLoaded
              \/ LateSaved \/ LateShown
AwaitStep(c) == Loaded(c) \/ Unread(c) \/ Built(c) \/ Edited(c)
CardClickStep(c) == \/ ClickAsks(c) \/ ClickShows(c) \/ ClickSaves(c)
                    \/ ClickSaved(c) \/ ClickApplies(c) \/ ClickReloads(c)
                    \/ ClickReloaded(c) \/ ClickPreviewed(c)

CardNext ==
  \/ Opens \/ SessionEnds
  \/ ViewerApply \/ \E j \in news : Published(j)
  \/ RunStep \/ BehindStep
  \/ \E c \in Callers : AwaitStep(c)
  \/ \E k \in Kinds : Clicked(k)
  \/ \E c \in Clicks : CardClickStep(c)

\* The event loop resumes everyone, an apply is announced, and the reads and
\* edits, of which a caller awaits one at a time, come back.  Nobody has to
\* click, apply or let the session end.
CardFairness ==
  /\ WF_cardVars(Opens)
  /\ WF_cardVars(\E j \in news : Published(j))
  /\ WF_cardVars(RunStep)
  /\ WF_cardVars(BehindStep)
  /\ \A c \in Callers : WF_cardVars(AwaitStep(c))
  /\ \A c \in Clicks : WF_cardVars(CardClickStep(c))

CardSpec == CardInit /\ [][CardNext]_cardVars /\ CardFairness

-----------------------------------------------------------------------------
(* Properties.                                                             *)

\* The variables have their types; one payload waits and one edit is under way
\* at most, and at most one reload is the latest.
CardTypeOK ==
  /\ phase \in {"off", "reply", "live", "over"}
  /\ {mine, jobs, ownJob, used} \subseteq Nat
  /\ session.view \in {"raid", "sync"} /\ session.own \in 0..mine
  /\ session.snap \in 0..jobs
  /\ labels \subseteq Labels
  /\ labels # {} => queue.pc # "idle"
  /\ \A st \in {"waiting", "sent"} :
       Cardinality({c \in Callers : draw[c].st = st}) <= 1
  /\ Cardinality({c \in Callers : reload[c].st # "off" /\ reload[c].latest})
       <= 1

\* What Discord shows never goes back: nothing follows the expired card, and
\* no redraw, reload or edit that comes late brings back an older roster;
\* unless a save's own document, which the reload takes as the newest, was
\* overtaken by an apply.
MessageInOrder ==
  [][/\ message.expired => message' = message
     /\ \/ message'.face.own >= message.face.own
        \/ "backwards" \in excuse]_message

Shows(f) ==
  /\ f.own >= told.own
  /\ f.view = "sync" => f.snap >= told.snap

\* Once nothing more happens, the card shows every write it was told of, by
\* an event, by its opening or by its own saves, and an expired session shows
\* the expired card: no announcement, run of the queue or redraw is lost.
\* Excused is a card with a failed call, with a given document that is older
\* than an apply, or with a preview read before one and shown after it.
CardCatchesUp ==
  <>[](\/ excuse \ {"backwards"} # {}
       \/ IF phase = "over" THEN message.expired ELSE Shows(message.face))

\* "Catch writes made while the first reply was rendering, before the apply
\* subscription existed" (handlers/raid-status/index.js:509): what was saved
\* before the run asked for at the opening is shown in the end, if no call
\* fails.
OpeningCaughtUp ==
  \A v \in 1..CardBudget :
    []("open" \in labels /\ told.own = v =>
         <>[](\/ phase = "over" \/ "failed" \in excuse
              \/ message.face.own >= v))
=============================================================================
