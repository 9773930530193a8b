---------------------------- MODULE SyncViews_proofs ----------------------------
(***************************************************************************)
(* The safety of the two views of Local Sync, for any number of files,     *)
(* picks, clicks and revisions: the types, what a click on Sync hands      *)
(* over, the order in which reads of the file and rosters of the card      *)
(* come to the screen.                                                     *)
(*                                                                         *)
(* The page first.  Everything it holds is a state the file has had        *)
(* (Logged, which only grows), the lemmas on the latest-only runner say    *)
(* what a request, a drain and an invalidation leave in it, and ClickInv   *)
(* and CommitInv say what a click and a commit rely on.  Then the card:    *)
(* one reload is the latest (ReloadInv), a payload is built, waits and is  *)
(* sent in turn (DrawInv), and each is at least as new as what it is going *)
(* to replace (AgeInv).                                                    *)
(***************************************************************************)
EXTENDS SyncViews, FiniteSetTheorems, TLAPS

-----------------------------------------------------------------------------
(* The page.                                                               *)

\* The states a file has had so far, or none of them.
Logged == UNION {[f : {g}, r : 1..disk[g]] : g \in Files}
Possible(K) == K \cup {NoSnap}

Asked(K) == [snap : K, why : Reasons, sel : 1..Picks,
             handle : Files \cup {NoFile}, back : Possible(K)]
Refreshes(K) == [req : Asked(K), pc : {"scan", "commit"}, cur : BOOLEAN,
                 base : SUBSET K, bad : BOOLEAN, seen : Possible(K)]
Monitors(K) == [on : BOOLEAN, last : Possible(K), cand : Possible(K),
                settle : {"none", "armed", "reading", "failed"},
                seen : Possible(K), probe : Possible(K)]
Sends(K) == [pc : {"idle", "wait", "probe", "settle", "refresh", "final",
                   "create", "apply"},
             sel : 0..Picks, f : Files \cup {NoFile}, at : Possible(K),
             tries : Nat, prev : Possible(K),
             out : {"none", "superseded", "rejected", "completed"}]
FileReads(K) == [why : Reasons, snap : K, sel : 1..Picks]

DataInv ==
  /\ disk \in [Files -> Nat]
  /\ \A f \in Files : disk[f] \in 1..MaxRev[f]
  /\ roster \subseteq Logged /\ job \subseteq Logged /\ deltas \subseteq Logged

\* Before the first pick there is nothing to read.
PickInv ==
  /\ serial \in 0..Picks /\ timer \in 0..Picks
  /\ handle \in Files \cup {NoFile}
  /\ opening \in Possible(Logged) /\ rendered \in Possible(Logged)
  /\ reads \subseteq FileReads(Logged)
  /\ serial = 0 => handle = NoFile /\ opening = NoSnap /\ reads = {}
  /\ stage \in {"empty", "reading", "ready", "nothing", "problem", "syncing",
                "done", "error"}

RunInv ==
  /\ run = NoRun \/ run \in Refreshes(Logged)
  /\ run.pc = "commit" => run.seen \in Logged
  /\ next = NoRequest \/ next \in Asked(Logged)
  /\ next # NoRequest => run # NoRun /\ ~run.cur

WatchInv ==
  /\ mon \in Monitors(Logged)
  /\ mon.on <=> handle # NoFile
  /\ mon.settle # "none" => mon.on
  /\ mon.settle = "reading" => mon.seen \in Logged

\* Only a click that waits for its refresh has one, and the header it compares
\* with the page is not older than the click.
SendInv ==
  /\ send \in Sends(Logged)
  /\ send.pc = "idle" <=> send = NoSend
  /\ send.pc \in {"wait", "probe", "settle", "refresh", "final"} =>
       /\ send.sel # 0 /\ send.f \in Files
       /\ send.at \in Logged /\ send.at.f = send.f
  /\ send.pc \in {"probe", "settle", "refresh", "final"} => send.prev \in Logged
  /\ send.pc \in {"probe", "final"} =>
       send.prev.f = send.f /\ send.at.r <= send.prev.r
  /\ "pre-send" \in {run.req.why, next.why} => send.pc = "refresh"

\* What a click finds: a job that is unsettled is the one the page would
\* apply, no preview is prepared beside it, and the preview shown lacks
\* nothing but what the roster has.
ClickInv ==
  /\ unsettled => pendingJob
  /\ send.pc \in {"wait", "probe", "settle", "refresh", "final", "create"} =>
       ~pendingJob
  /\ run # NoRun => run.base \subseteq roster
  /\ deltas # {} => Clears(rendered) \ roster \subseteq deltas

\* A refresh that may still commit was asked for under the selected handle,
\* and what it re-read is not older than what is shown.
CommitInv ==
  handle # NoFile =>
    /\ run # NoRun /\ run.cur => run.req.handle = handle
    /\ next # NoRequest => next.handle = handle
    /\ run.pc = "commit" /\ run.cur /\ rendered.f = run.seen.f =>
         rendered.r <= run.seen.r

PageInv == /\ DataInv /\ PickInv /\ RunInv /\ WatchInv /\ SendInv
           /\ ClickInv /\ CommitInv

-----------------------------------------------------------------------------
(* The card.                                                               *)

Reloads(n) ==
  {NoRead} \cup [st : {"failed"}, latest : BOOLEAN]
    \cup [st : {"reading"}, latest : BOOLEAN, given : BOOLEAN, own : 0..n]
Sessions(n, k) == [own : 0..n, view : {"raid", "sync"}, snap : 0..k,
                   seed : BOOLEAN]
Faces(n, k) == [own : 0..n, view : {"raid", "sync"}, snap : 0..k]
Cards(n, k) == [face : Faces(n, k), expired : BOOLEAN]
Draws(n, k) == {NoDraw} \cup [st : {"building", "waiting", "sent"},
                              card : Cards(n, k)]
Queues == [pc : {"idle", "due", "draw", "resolved"}]
            \cup [pc : {"reload"}, snaps : BOOLEAN]
            \cup [pc : {"snap"}, snap : Nat]
Behinds(n) == [pc : {"busy", "more", "late", "done"}]
                \cup [pc : {"back"}, own : 0..n, more : BOOLEAN]
                \cup [pc : {"reload"}, more : BOOLEAN]
BusyClicks == [pc : {"defer", "fresh", "saved", "reload", "preview"},
               kind : Kinds, of : Clicks, latest : BOOLEAN, rev : Nat]
CardClicks == {NoClick, Handled} \cup BusyClicks

CountInv ==
  /\ phase \in {"off", "reply", "live", "over"}
  /\ mine \in Nat /\ jobs \in Nat /\ used \in Nat /\ ownJob \in Nat
  /\ news \subseteq Nat
  /\ session \in Sessions(mine, jobs)
  /\ message \in Cards(mine, jobs)

QueueInv ==
  /\ labels \subseteq Labels
  /\ queue \in Queues
  /\ labels # {} => queue.pc # "idle"
  /\ behind \in Behinds(mine)

\* A save that is through has a revision of the document.
ClicksInv ==
  /\ click \in [Clicks -> CardClicks]
  /\ \A c \in Clicks : click[c].pc = "saved" /\ click[c].kind = "save" =>
                         click[c].rev <= mine

\* One reload at most is the latest, and unless it was given its document it
\* brings nothing older than the session holds.
ReloadInv ==
  /\ reload \in [Callers -> Reloads(mine)]
  /\ \A c, d \in Callers :
       /\ reload[c].st # "off" /\ reload[c].latest
       /\ reload[d].st # "off" /\ reload[d].latest
       => c = d
  /\ \A c \in Callers : reload[c].st = "failed" => ~reload[c].latest
  /\ \A c \in Callers :
       /\ reload[c].st = "reading" /\ reload[c].latest
       /\ ~reload[c].given
       => session.own <= reload[c].own

\* A payload is built, waits and is sent in turn; the expired card comes last.
DrawInv ==
  /\ draw \in [Callers -> Draws(mine, jobs)]
  /\ \A c, d \in Callers :
       /\ draw[c].st \in Dropped /\ draw[d].st \in Dropped => c = d
       /\ draw[c].st = "sent" /\ draw[d].st = "sent" => c = d
  /\ \A c \in Callers :
       draw[c].st # "off" => (draw[c].card.expired <=> c = "end")
  /\ phase # "over" => draw["end"].st = "off" /\ ~message.expired
  /\ phase = "over" =>
       \A c \in Callers : draw[c].st \in Dropped =>
                            c = "end" /\ draw[c].st = "waiting"
  /\ message.expired => \A c \in Callers : draw[c].st = "off"

\* Unless a given document has replaced a newer one, message, edit, payload
\* and session hold ever newer rosters.
AgeInv ==
  "backwards" \notin excuse =>
    /\ message.face.own <= session.own
    /\ \A c \in Callers : draw[c].st # "off" =>
         /\ message.face.own <= draw[c].card.face.own
         /\ draw[c].card.face.own <= session.own
         /\ \A d \in Callers :
              draw[c].st = "sent" /\ draw[d].st \in Dropped =>
                draw[c].card.face.own <= draw[d].card.face.own

CardInv == /\ CountInv /\ QueueInv /\ ClicksInv
           /\ ReloadInv /\ DrawInv /\ AgeInv

IInv == PageInv /\ CardInv

-----------------------------------------------------------------------------
(* States of a file.                                                       *)

LEMMA LoggedState ==
  ASSUME DataInv, NEW s \in Logged
  PROVE  /\ s = [f |-> s.f, r |-> s.r]
         /\ s.f \in Files /\ s.r \in 1..disk[s.f]
         /\ s \in Snaps /\ s # NoSnap
<1>1. PICK g \in Files : s \in [f : {g}, r : 1..disk[g]]
  BY DEF Logged
<1>2. disk[g] \in Nat /\ MaxRev[g] \in Nat /\ disk[g] <= MaxRev[g]
  BY ReaderAssumption DEF DataInv, ReaderAssumption
<1>3. s \in [f : {g}, r : 1..MaxRev[g]]
  BY <1>1, <1>2
<1>4. s \in Snaps
  BY <1>3 DEF Snaps
<1>5. s.f = g /\ s.r \in 1..disk[g] /\ s = [f |-> s.f, r |-> s.r]
  BY <1>1
<1>6. s # NoSnap
  BY <1>5, <1>2 DEF NoSnap
<1> QED BY <1>4, <1>5, <1>6

LEMMA LoggedIs ==
  ASSUME NEW g \in Files, NEW i \in 1..disk[g]
  PROVE  [f |-> g, r |-> i] \in Logged
BY DEF Logged

LEMMA NowLogged ==
  ASSUME DataInv, NEW g \in Files
  PROVE  Now(g) \in Logged /\ Now(g).f = g /\ Now(g).r = disk[g]
<1>1. disk[g] \in 1..disk[g]
  BY DEF DataInv
<1> QED BY <1>1, LoggedIs DEF Now

LEMMA ClearsIs ==
  ASSUME NEW g, NEW n \in Nat
  PROVE  Clears([f |-> g, r |-> n]) = {[f |-> g, r |-> i] : i \in 1..n}
BY DEF Clears

\* The clears of a state were logged, and those of an older one are among them.
LEMMA ClearsLogged ==
  ASSUME DataInv, NEW s \in Logged
  PROVE  Clears(s) \subseteq Logged
<1>1. /\ s = [f |-> s.f, r |-> s.r] /\ s.f \in Files /\ s.r \in 1..disk[s.f]
      /\ disk[s.f] \in Nat
  BY LoggedState DEF DataInv
<1>2. Clears(s) = {[f |-> s.f, r |-> i] : i \in 1..s.r}
  BY <1>1, ClearsIs
<1> QED BY <1>1, <1>2, LoggedIs

LEMMA ClearsGrow ==
  ASSUME DataInv, NEW s \in Logged, NEW t \in Logged, s.f = t.f, s.r <= t.r
  PROVE  Clears(s) \subseteq Clears(t)
<1>1. /\ s = [f |-> s.f, r |-> s.r] /\ t = [f |-> s.f, r |-> t.r]
      /\ s.r \in Nat /\ t.r \in Nat
  <2>1. s.f \in Files /\ disk[s.f] \in Nat
    BY LoggedState DEF DataInv
  <2> QED BY <2>1, LoggedState
<1>2. /\ Clears(s) = {[f |-> s.f, r |-> i] : i \in 1..s.r}
      /\ Clears(t) = {[f |-> s.f, r |-> i] : i \in 1..t.r}
  BY <1>1, ClearsIs
<1>3. 1..s.r \subseteq 1..t.r
  BY <1>1
<1> QED BY <1>2, <1>3

LEMMA NoClears == Clears(NoSnap) = {}
BY DEF Clears, NoSnap

-----------------------------------------------------------------------------
(* What stays.                                                             *)

\* The parts of the invariant hold as long as what they are about is left
\* alone.
LEMMA PageKept ==
  ASSUME PageInv, disk' = disk
  PROVE  /\ Logged' = Logged
         /\ UNCHANGED <<roster, job, deltas>> => DataInv'
         /\ UNCHANGED <<picked, rendered, timer, reads, stage>> => PickInv'
         /\ UNCHANGED runner => RunInv'
         /\ UNCHANGED <<mon, handle>> => WatchInv'
         /\ UNCHANGED <<send, runner>> => SendInv'
         /\ UNCHANGED <<unsettled, pendingJob, send, run, roster, deltas,
                        rendered>> => ClickInv'
         /\ UNCHANGED <<handle, runner, rendered>> => CommitInv'
<1>1. Logged' = Logged
  BY DEF Logged
<1>2. UNCHANGED <<roster, job, deltas>> => DataInv'
  BY <1>1 DEF PageInv, DataInv
<1>3. UNCHANGED <<picked, rendered, timer, reads, stage>> => PickInv'
  BY <1>1 DEF PageInv, PickInv, picked
<1>4. UNCHANGED runner => RunInv'
  BY <1>1 DEF PageInv, RunInv, runner
<1>5. UNCHANGED <<mon, handle>> => WatchInv'
  BY <1>1 DEF PageInv, WatchInv
<1>6. UNCHANGED <<send, runner>> => SendInv'
  BY <1>1 DEF PageInv, SendInv, runner
<1>7. UNCHANGED <<unsettled, pendingJob, send, run, roster, deltas,
                  rendered>> => ClickInv'
  BY <1>1 DEF PageInv, ClickInv
<1>8. UNCHANGED <<handle, runner, rendered>> => CommitInv'
  BY <1>1 DEF PageInv, CommitInv, runner
<1> QED BY <1>1, <1>2, <1>3, <1>4, <1>5, <1>6, <1>7, <1>8

-----------------------------------------------------------------------------
(* The runner.                                                             *)

\* A request is the newest, and nothing older may commit any more.
LEMMA Submitted ==
  ASSUME DataInv, RunInv, NEW q \in Asked(Logged), Submit(q), disk' = disk
  PROVE  /\ RunInv'
         /\ run' # NoRun
         /\ run'.base = roster \/ (run # NoRun /\ run'.base = run.base)
         /\ run'.cur => run'.req = q /\ run'.pc = "scan"
         /\ next' \in {NoRequest, q}
         /\ {run'.req.why, next'.why} \subseteq {run.req.why, q.why, "none"}
<1>1. Logged' = Logged
  BY DEF Logged
<1>2. q # NoRequest
  BY DEF Asked, NoRequest, Reasons
<1>3. CASE run = NoRun
  <2>1. run' = Started(q) /\ next' = NoRequest
    BY <1>3 DEF Submit
  <2>2. Started(q) \in Refreshes(Logged)
    BY DEF Started, Refreshes, DataInv, Possible
  <2> QED BY <1>1, <2>1, <2>2 DEF RunInv, Started, NoRun, NoRequest
<1>4. CASE run # NoRun
  <2>1. run' = [run EXCEPT !.cur = FALSE] /\ next' = q
    BY <1>4 DEF Submit
  <2>2. run \in Refreshes(Logged)
    BY <1>4 DEF RunInv
  <2>3. /\ run' \in Refreshes(Logged) /\ ~run'.cur /\ run'.req = run.req
        /\ run'.base = run.base /\ run'.pc = run.pc /\ run'.seen = run.seen
    BY <2>1, <2>2 DEF Refreshes
  <2>4. run' # NoRun
    BY <2>3 DEF Refreshes, NoRun
  <2> QED BY <1>1, <1>4, <2>1, <2>3, <2>4 DEF RunInv
<1> QED BY <1>3, <1>4

\* The refresh is over and the one that waits begins.
LEMMA Drained ==
  ASSUME DataInv, RunInv, Drain, disk' = disk
  PROVE  /\ RunInv'
         /\ run' # NoRun => /\ run'.base = roster /\ run'.req = next
                            /\ next # NoRequest /\ run'.pc = "scan"
         /\ next' = NoRequest
         /\ {run'.req.why, next'.why} \subseteq {next.why, "none"}
         /\ run'.pc # "commit"
<1>1. Logged' = Logged
  BY DEF Logged
<1>2. next' = NoRequest /\ (run' = IF next = NoRequest THEN NoRun ELSE Started(next))
  BY DEF Drain
<1>3. CASE next = NoRequest
  BY <1>1, <1>2, <1>3 DEF RunInv, NoRun, NoRequest
<1>4. CASE next # NoRequest
  <2>1. next \in Asked(Logged)
    BY <1>4 DEF RunInv
  <2>2. Started(next) \in Refreshes(Logged)
    BY <2>1 DEF Started, Refreshes, DataInv, Possible
  <2> QED BY <1>1, <1>2, <1>4, <2>2 DEF RunInv, Started, NoRun, NoRequest
<1> QED BY <1>3, <1>4

LEMMA Invalidated ==
  ASSUME RunInv, Invalidate, disk' = disk
  PROVE  /\ RunInv'
         /\ run' = NoRun <=> run = NoRun
         /\ run' # NoRun => run'.base = run.base /\ ~run'.cur
         /\ next' = NoRequest
         /\ {run'.req.why, next'.why} \subseteq {run.req.why, "none"}
<1>1. Logged' = Logged
  BY DEF Logged
<1>2. CASE run = NoRun
  BY <1>1, <1>2 DEF RunInv, Invalidate, NoRun, NoRequest
<1>3. CASE run # NoRun
  <2>1. run' = [run EXCEPT !.cur = FALSE] /\ next' = NoRequest
    BY <1>3 DEF Invalidate
  <2>2. run \in Refreshes(Logged)
    BY <1>3 DEF RunInv
  <2>3. /\ run' \in Refreshes(Logged) /\ ~run'.cur /\ run'.req = run.req
        /\ run'.base = run.base /\ run'.pc = run.pc /\ run'.seen = run.seen
    BY <2>1, <2>2 DEF Refreshes
  <2>4. run' # NoRun
    BY <2>3 DEF Refreshes, NoRun
  <2> QED BY <1>1, <1>3, <2>1, <2>3, <2>4 DEF RunInv, NoRequest
<1> QED BY <1>2, <1>3

\* How the refresh of a click ended is all the click learns.
LEMMA Learnt ==
  ASSUME SendInv, disk' = disk, NEW o \in {"superseded", "rejected", "completed"},
         Tell(o),
         "pre-send" \in {run'.req.why, next'.why} =>
           "pre-send" \in {run.req.why, next.why}
  PROVE  SendInv' /\ send'.pc = send.pc
<1>1. Logged' = Logged
  BY DEF Logged
<1>2. CASE run.req.why # "pre-send"
  <2>1. send' = send
    BY <1>2 DEF Tell
  <2> QED BY <1>1, <2>1 DEF SendInv
<1>3. CASE run.req.why = "pre-send"
  <2>1. send' = [send EXCEPT !.out = o] /\ send.pc = "refresh"
    BY <1>3 DEF Tell, SendInv
  <2>2. send \in Sends(Logged)
    BY DEF SendInv
  <2>3. /\ send' \in Sends(Logged) /\ send'.pc = "refresh"
        /\ send'.sel = send.sel /\ send'.f = send.f /\ send'.at = send.at
        /\ send'.prev = send.prev
    BY <2>1, <2>2 DEF Sends
  <2> QED BY <1>1, <2>1, <2>3 DEF SendInv, NoSend
<1> QED BY <1>2, <1>3

\* The click is over.
LEMMA IdleSend ==
  ASSUME SendInv, disk' = disk, send' = NoSend,
         "pre-send" \notin {run'.req.why, next'.why}
  PROVE  SendInv'
<1>1. NoSend \in Sends(Logged') /\ NoSend.pc = "idle"
  BY ReaderAssumption DEF NoSend, Sends, Possible, ReaderAssumption
<1> QED BY <1>1 DEF SendInv

-----------------------------------------------------------------------------
(* The steps of the page.                                                  *)

LEMMA Monotone ==
  ASSUME NEW K, NEW L, K \subseteq L
  PROVE  /\ Possible(K) \subseteq Possible(L) /\ Asked(K) \subseteq Asked(L)
         /\ Refreshes(K) \subseteq Refreshes(L)
         /\ Monitors(K) \subseteq Monitors(L) /\ Sends(K) \subseteq Sends(L)
         /\ FileReads(K) \subseteq FileReads(L)
<1>1. Possible(K) \subseteq Possible(L)
  BY DEF Possible
<1>2. Asked(K) \subseteq Asked(L)
  BY <1>1 DEF Asked
<1>3. Refreshes(K) \subseteq Refreshes(L)
  <2>1. SUBSET K \subseteq SUBSET L
    OBVIOUS
  <2> QED BY <1>1, <1>2, <2>1 DEF Refreshes
<1>4. Monitors(K) \subseteq Monitors(L)
  BY <1>1 DEF Monitors
<1>5. Sends(K) \subseteq Sends(L)
  BY <1>1 DEF Sends
<1>6. FileReads(K) \subseteq FileReads(L)
  BY DEF FileReads
<1> QED BY <1>1, <1>2, <1>3, <1>4, <1>5, <1>6

LEMMA LogClearStep ==
  ASSUME PageInv, NEW f \in Files, LogClear(f)
  PROVE  PageInv'
<1>1. /\ disk' = [disk EXCEPT ![f] = @ + 1] /\ disk[f] < MaxRev[f]
      /\ UNCHANGED <<roster, job, serial, handle, opening, stage, rendered,
                     deltas, pendingJob, timer, reads, run, next, mon, send,
                     unsettled>>
  BY DEF LogClear, picked, shown, runner, ghosts
<1>2. /\ disk \in [Files -> Nat] /\ \A g \in Files : disk[g] \in 1..MaxRev[g]
      /\ \A g \in Files : MaxRev[g] \in Nat
  BY ReaderAssumption DEF PageInv, DataInv, ReaderAssumption
<1>3. /\ disk' \in [Files -> Nat]
      /\ \A g \in Files : disk'[g] \in 1..MaxRev[g] /\ disk'[g] >= disk[g]
  BY <1>1, <1>2
<1>4. Logged \subseteq Logged'
  <2>1. ASSUME NEW s \in Logged
        PROVE  s \in Logged'
    <3>1. PICK g \in Files : s \in [f : {g}, r : 1..disk[g]]
      BY DEF Logged
    <3>2. 1..disk[g] \subseteq 1..disk'[g]
      BY <1>2, <1>3
    <3>3. s \in [f : {g}, r : 1..disk'[g]]
      BY <3>1, <3>2
    <3> QED BY <3>3 DEF Logged
  <2> QED BY <2>1
<1>5. /\ Possible(Logged) \subseteq Possible(Logged')
      /\ Asked(Logged) \subseteq Asked(Logged')
      /\ Refreshes(Logged) \subseteq Refreshes(Logged')
      /\ Monitors(Logged) \subseteq Monitors(Logged')
      /\ Sends(Logged) \subseteq Sends(Logged')
      /\ FileReads(Logged) \subseteq FileReads(Logged')
  BY <1>4, Monotone
<1>6. DataInv'
  BY <1>1, <1>3, <1>4 DEF PageInv, DataInv
<1>7. PickInv'
  BY <1>1, <1>5 DEF PageInv, PickInv
<1>8. RunInv'
  BY <1>1, <1>4, <1>5 DEF PageInv, RunInv
<1>9. WatchInv'
  BY <1>1, <1>4, <1>5 DEF PageInv, WatchInv
<1>10. SendInv'
  BY <1>1, <1>4, <1>5 DEF PageInv, SendInv
<1>11. ClickInv' /\ CommitInv'
  BY <1>1 DEF PageInv, ClickInv, CommitInv
<1> QED BY <1>6, <1>7, <1>8, <1>9, <1>10, <1>11 DEF PageInv

LEMMA PickStep ==
  ASSUME PageInv, NEW f \in Files, Pick(f)
  PROVE  PageInv'
<1>1. /\ serial < Picks /\ serial' = serial + 1
      /\ handle' = NoFile /\ opening' = Now(f) /\ mon' = NoMonitor
      /\ rendered' = NoSnap /\ deltas' = {} /\ ~pendingJob' /\ timer' = 0
      /\ Invalidate /\ ~unsettled'
      /\ job' = IF send.pc = "apply" THEN job ELSE {}
      /\ UNCHANGED <<disk, roster, stage, reads, send>>
  BY DEF Pick
<1>2. /\ DataInv /\ PickInv /\ RunInv /\ SendInv /\ ClickInv
      /\ Logged' = Logged /\ Picks \in Nat
  BY <1>1, PageKept, ReaderAssumption DEF PageInv, ReaderAssumption
<1>3. /\ RunInv' /\ (run' # NoRun => run # NoRun /\ run'.base = run.base /\ ~run'.cur)
      /\ next' = NoRequest
      /\ {run'.req.why, next'.why} \subseteq {run.req.why, "none"}
  BY <1>1, <1>2, Invalidated
<1>4. DataInv'
  BY <1>1, <1>2 DEF DataInv
<1>5. PickInv'
  <2>1. Now(f) \in Logged
    BY <1>2, NowLogged
  <2>2. serial' \in 0..Picks /\ serial' # 0
    BY <1>1, <1>2 DEF PickInv
  <2> QED BY <1>1, <1>2, <2>1, <2>2 DEF PickInv, Possible
<1>6. WatchInv'
  BY <1>1 DEF WatchInv, NoMonitor, Monitors, Possible
<1>7. SendInv'
  BY <1>1, <1>2, <1>3 DEF SendInv
<1>8. ClickInv'
  BY <1>1, <1>2, <1>3 DEF ClickInv
<1>9. CommitInv'
  BY <1>1 DEF CommitInv
<1> QED BY <1>3, <1>4, <1>5, <1>6, <1>7, <1>8, <1>9 DEF PageInv

LEMMA OpenedStep ==
  ASSUME PageInv, Opened
  PROVE  PageInv'
<1> DEFINE q == Request(opening, "initial", serial, opening.f)
<1>1. /\ opening # NoSnap /\ handle' = opening.f /\ opening' = NoSnap
      /\ mon' = [Baseline(NoMonitor, opening) EXCEPT !.on = TRUE]
      /\ stage' = "reading" /\ timer' = 0
      /\ Submit(q)
      /\ UNCHANGED <<disk, roster, job, serial, rendered, deltas, pendingJob,
                     reads, send, unsettled>>
  BY DEF Opened, world, shown
<1>2. /\ DataInv /\ PickInv /\ RunInv /\ SendInv /\ ClickInv
      /\ Logged' = Logged
  BY <1>1, PageKept DEF PageInv
<1>3. opening \in Logged /\ serial \in 1..Picks /\ opening.f \in Files
      /\ opening.f # NoFile
  <2>1. opening \in Logged /\ serial \in 1..Picks
    BY <1>1, <1>2, ReaderAssumption DEF PickInv, Possible, ReaderAssumption
  <2> QED BY <2>1, <1>2, LoggedState, ReaderAssumption DEF ReaderAssumption
<1>4. q \in Asked(Logged) /\ q.why = "initial" /\ q.handle = opening.f
  BY <1>3 DEF Request, Asked, Reasons, Possible
<1> HIDE DEF q
<1>5. /\ RunInv'
      /\ run' # NoRun
      /\ run'.base = roster \/ (run # NoRun /\ run'.base = run.base)
      /\ run'.cur => run'.req = q /\ run'.pc = "scan"
      /\ next' \in {NoRequest, q}
      /\ {run'.req.why, next'.why} \subseteq {run.req.why, q.why, "none"}
  BY <1>1, <1>2, <1>4, Submitted
<1>6. DataInv'
  BY <1>1, <1>2 DEF DataInv
<1>7. PickInv'
  BY <1>1, <1>2, <1>3, ReaderAssumption
     DEF PickInv, Possible, ReaderAssumption
<1>8. WatchInv'
  BY <1>1, <1>2, <1>3 DEF WatchInv, Baseline, NoMonitor, Monitors, Possible
<1>9. SendInv'
  BY <1>1, <1>2, <1>4, <1>5 DEF SendInv
<1>10. ClickInv'
  BY <1>1, <1>2, <1>5 DEF ClickInv
<1>11. CommitInv'
  BY <1>1, <1>4, <1>5 DEF CommitInv
<1> QED BY <1>5, <1>6, <1>7, <1>8, <1>9, <1>10, <1>11 DEF PageInv

\* Steps that end the refresh that is under way.
LEMMA RefreshAbortsStep ==
  ASSUME PageInv, RefreshAborts
  PROVE  PageInv'
<1>1. /\ Tell("superseded") /\ Drain
      /\ UNCHANGED <<disk, roster, job, serial, handle, opening, stage,
                     rendered, deltas, pendingJob, timer, reads, mon,
                     unsettled>>
  BY DEF RefreshAborts, world, picked, shown, ghosts
<1>2. DataInv /\ RunInv /\ SendInv /\ ClickInv /\ CommitInv
  BY DEF PageInv
<1>3. DataInv' /\ PickInv' /\ WatchInv'
  BY <1>1, PageKept DEF picked
<1>4. /\ RunInv'
      /\ run' # NoRun => run'.base = roster /\ run'.req = next /\ next # NoRequest
      /\ next' = NoRequest
      /\ {run'.req.why, next'.why} \subseteq {next.why, "none"}
      /\ run'.pc # "commit"
  BY <1>1, <1>2, Drained
<1>5. SendInv' /\ send'.pc = send.pc
  BY <1>1, <1>2, <1>4, Learnt
<1>6. ClickInv'
  BY <1>1, <1>2, <1>4, <1>5 DEF ClickInv
<1>7. CommitInv'
  BY <1>1, <1>2, <1>4 DEF CommitInv
<1> QED BY <1>3, <1>4, <1>5, <1>6, <1>7 DEF PageInv

LEMMA ScheduledType ==
  ASSUME PageInv, NEW sel \in 0..Picks, Schedule(sel)
  PROVE  timer' \in 0..Picks
BY DEF PageInv, PickInv, Schedule

LEMMA RefreshFailsStep ==
  ASSUME PageInv, RefreshFails
  PROVE  PageInv'
<1>1. /\ run.pc = "scan" /\ ~Superseded
      /\ stage' = IF SyncOwnsStage THEN stage ELSE "problem"
      /\ timer' = timer \/ Schedule(run.req.sel)
      /\ mon' = RollBack(run.req) /\ Tell("rejected") /\ Drain
      /\ UNCHANGED <<disk, roster, job, serial, handle, opening, rendered,
                     deltas, pendingJob, reads, unsettled>>
  BY DEF RefreshFails, world, picked, shown
<1>2. DataInv /\ PickInv /\ RunInv /\ WatchInv /\ SendInv /\ ClickInv /\ CommitInv
  BY DEF PageInv
<1>3. DataInv' /\ Logged' = Logged
  BY <1>1, PageKept
<1>4. run \in Refreshes(Logged) /\ run.req \in Asked(Logged)
  BY <1>1, <1>2 DEF RunInv, NoRun, Refreshes
<1>5. PickInv'
  <2>1. timer' \in 0..Picks
    <3>1. run.req.sel \in 0..Picks
      BY <1>4 DEF Asked
    <3> QED BY <1>1, <1>2, <3>1, ScheduledType DEF PickInv
  <2> QED BY <1>1, <1>2, <1>3, <2>1 DEF PickInv
<1>6. WatchInv'
  <2>1. CASE run.req.why = "file-change"
    <3>1. mon' = [mon EXCEPT !.last = run.req.back]
      BY <1>1, <2>1 DEF RollBack
    <3>2. /\ mon' \in Monitors(Logged) /\ mon'.on = mon.on
          /\ mon'.settle = mon.settle /\ mon'.seen = mon.seen
      BY <1>2, <1>4, <3>1 DEF WatchInv, Monitors, Asked
    <3> QED BY <1>1, <1>2, <1>3, <3>2 DEF WatchInv
  <2>2. CASE run.req.why # "file-change"
    BY <1>1, <1>2, <1>3, <2>2 DEF WatchInv, RollBack
  <2> QED BY <2>1, <2>2
<1>7. /\ RunInv'
      /\ run' # NoRun => run'.base = roster /\ run'.req = next /\ next # NoRequest
      /\ next' = NoRequest
      /\ {run'.req.why, next'.why} \subseteq {next.why, "none"}
      /\ run'.pc # "commit"
  BY <1>1, <1>2, Drained
<1>8. SendInv' /\ send'.pc = send.pc
  BY <1>1, <1>2, <1>7, Learnt
<1>9. ClickInv'
  BY <1>1, <1>2, <1>7, <1>8 DEF ClickInv
<1>10. CommitInv'
  BY <1>1, <1>2, <1>7 DEF CommitInv
<1> QED BY <1>3, <1>5, <1>6, <1>7, <1>8, <1>9, <1>10 DEF PageInv

LEMMA RosterFailedStep ==
  ASSUME PageInv, RosterFailed
  PROVE  PageInv'
<1>1. /\ run.pc = "commit" /\ Schedule(run.req.sel)
      /\ Tell("completed") /\ Drain
      /\ UNCHANGED <<disk, roster, job, serial, handle, opening, stage,
                     rendered, deltas, pendingJob, reads, mon, unsettled>>
  BY DEF RosterFailed, world, picked, shown
<1>2. DataInv /\ PickInv /\ RunInv /\ SendInv /\ ClickInv /\ CommitInv
  BY DEF PageInv
<1>3. DataInv' /\ WatchInv' /\ Logged' = Logged
  BY <1>1, PageKept
<1>4. run.req \in Asked(Logged)
  BY <1>1, <1>2 DEF RunInv, NoRun, Refreshes
<1>5. PickInv'
  <2>1. timer' \in 0..Picks
    <3>1. run.req.sel \in 0..Picks
      BY <1>4 DEF Asked
    <3> QED BY <1>1, <3>1, ScheduledType
  <2> QED BY <1>1, <1>2, <1>3, <2>1 DEF PickInv
<1>6. /\ RunInv'
      /\ run' # NoRun => run'.base = roster /\ run'.req = next /\ next # NoRequest
      /\ next' = NoRequest
      /\ {run'.req.why, next'.why} \subseteq {next.why, "none"}
      /\ run'.pc # "commit"
  BY <1>1, <1>2, Drained
<1>7. SendInv' /\ send'.pc = send.pc
  BY <1>1, <1>2, <1>6, Learnt
<1>8. ClickInv'
  BY <1>1, <1>2, <1>6, <1>7 DEF ClickInv
<1>9. CommitInv'
  BY <1>1, <1>2, <1>6 DEF CommitInv
<1> QED BY <1>3, <1>5, <1>6, <1>7, <1>8, <1>9 DEF PageInv

LEMMA CommitPreviewStep ==
  ASSUME PageInv, CommitPreview
  PROVE  PageInv'
<1>1. /\ run.pc = "commit" /\ ~Superseded
      /\ rendered' = run.req.snap
      /\ deltas' = Clears(run.req.snap) \ run.base
      /\ stage' = StageOf(deltas')
      /\ mon' = IF mon.on THEN Baseline(mon, run.req.snap) ELSE mon
      /\ timer' = 0 /\ Tell("completed") /\ Drain
      /\ UNCHANGED <<disk, roster, job, serial, handle, opening, pendingJob,
                     reads, unsettled>>
  BY DEF CommitPreview, world, picked
<1>2. /\ DataInv /\ PickInv /\ RunInv /\ WatchInv /\ SendInv /\ ClickInv
      /\ CommitInv /\ Logged' = Logged
  BY <1>1, PageKept DEF PageInv
<1>3. /\ run # NoRun /\ run.req.snap \in Logged
      /\ Clears(run.req.snap) \subseteq Logged
  <2>1. run # NoRun /\ run.req.snap \in Logged
    BY <1>1, <1>2 DEF RunInv, NoRun, Refreshes, Asked
  <2> QED BY <1>2, <2>1, ClearsLogged
<1>4. DataInv'
  BY <1>1, <1>2, <1>3 DEF DataInv
<1>5. PickInv'
  BY <1>1, <1>2, <1>3, ReaderAssumption
     DEF PickInv, StageOf, Possible, ReaderAssumption
<1>6. WatchInv'
  <2>1. CASE mon.on
    <3>1. mon' = Baseline(mon, run.req.snap)
      BY <1>1, <2>1
    <3>2. mon' \in Monitors(Logged) /\ mon'.on /\ mon'.settle = "none"
      BY <1>2, <1>3, <2>1, <3>1 DEF WatchInv, Baseline, Monitors, Possible
    <3> QED BY <1>1, <1>2, <2>1, <3>2 DEF WatchInv
  <2>2. CASE ~mon.on
    BY <1>1, <1>2, <2>2 DEF WatchInv
  <2> QED BY <2>1, <2>2
<1>7. /\ RunInv'
      /\ run' # NoRun => run'.base = roster /\ run'.req = next /\ next # NoRequest
      /\ next' = NoRequest
      /\ {run'.req.why, next'.why} \subseteq {next.why, "none"}
      /\ run'.pc # "commit"
  BY <1>1, <1>2, Drained
<1>8. SendInv' /\ send'.pc = send.pc
  BY <1>1, <1>2, <1>7, Learnt
<1>9. ClickInv'
  BY <1>1, <1>2, <1>3, <1>7, <1>8 DEF ClickInv
<1>10. CommitInv'
  BY <1>1, <1>2, <1>7 DEF CommitInv
<1> QED BY <1>4, <1>5, <1>6, <1>7, <1>8, <1>9, <1>10 DEF PageInv

\* The scan re-reads the selected file, so nothing newer has been shown.
LEMMA ScannedStep ==
  ASSUME PageInv, Scanned
  PROVE  PageInv'
<1>1. /\ run.pc = "scan" /\ ~Superseded
      /\ UNCHANGED <<disk, roster, job, serial, handle, opening, stage,
                     rendered, deltas, pendingJob, timer, reads, next, mon,
                     send, unsettled>>
  BY DEF Scanned, world, picked, shown, ghosts
<1>2. /\ DataInv /\ PickInv /\ RunInv /\ SendInv /\ ClickInv /\ CommitInv
      /\ Logged' = Logged
  BY <1>1, PageKept DEF PageInv
<1>3. run # NoRun /\ run \in Refreshes(Logged) /\ run.cur
  BY <1>1, <1>2 DEF RunInv, NoRun, Superseded
<1>4. Reread \in Logged
  <2>1. run.req.snap \in Logged
    BY <1>3 DEF Refreshes, Asked
  <2>2. CASE run.req.handle # NoFile /\ run.req.handle = handle
    <3>1. handle \in Files
      BY <1>2, <2>2 DEF PickInv
    <3> QED BY <1>2, <2>2, <3>1, NowLogged DEF Reread
  <2> QED BY <2>1, <2>2 DEF Reread
<1>5. PICK b \in {run.base, roster, {}}, w \in BOOLEAN :
        run' = [run EXCEPT !.pc = "commit", !.base = b, !.bad = w,
                           !.seen = Reread]
  <2>1. CASE \E b \in {run.base, roster} :
               run' = [run EXCEPT !.pc = "commit", !.base = b, !.seen = Reread]
    <3>1. PICK b \in {run.base, roster} :
            run' = [run EXCEPT !.pc = "commit", !.base = b, !.seen = Reread]
      BY <2>1
    <3>2. run.bad \in BOOLEAN
      BY <1>3 DEF Refreshes
    <3>3. run' = [run EXCEPT !.pc = "commit", !.base = b, !.bad = run.bad,
                             !.seen = Reread]
      BY <1>3, <3>1 DEF Refreshes
    <3> QED BY <3>2, <3>3
  <2>2. CASE run' = [run EXCEPT !.pc = "commit", !.base = {}, !.bad = TRUE,
                                !.seen = Reread]
    BY <2>2
  <2> QED BY <2>1, <2>2 DEF Scanned
<1>6. /\ run' \in Refreshes(Logged) /\ run'.seen = Reread /\ run'.req = run.req
      /\ run'.base = b /\ run'.cur
  <2>1. b \in SUBSET Logged
    BY <1>2, <1>3, <1>5 DEF Refreshes, DataInv
  <2>2. Reread \in Possible(Logged)
    BY <1>4 DEF Possible
  <2> QED BY <1>3, <1>5, <2>1, <2>2 DEF Refreshes
<1>7. run' # NoRun
  BY <1>6 DEF Refreshes, NoRun
<1>8. DataInv' /\ PickInv' /\ WatchInv'
  BY <1>1, PageKept DEF picked
<1>9. RunInv'
  BY <1>1, <1>2, <1>3, <1>4, <1>6, <1>7 DEF RunInv
<1>10. SendInv'
  BY <1>1, <1>2, <1>6 DEF SendInv
<1>11. ClickInv'
  BY <1>1, <1>2, <1>3, <1>5, <1>6 DEF ClickInv
<1>12. CommitInv'
  <2>1. ASSUME handle # NoFile, rendered.f = Reread.f
        PROVE  rendered.r <= Reread.r
    <3>1. handle \in Files /\ run.req.handle = handle
      BY <1>2, <1>3, <2>1 DEF PickInv, CommitInv
    <3>2. /\ Reread.f = handle /\ Reread.r = disk[handle]
          /\ disk[handle] \in Nat
      BY <1>2, <2>1, <3>1, NowLogged DEF Reread, DataInv
    <3>3. rendered \in Logged
      BY <1>2, <2>1, <3>2 DEF PickInv, Possible, NoSnap
    <3>4. rendered.r \in 1..disk[rendered.f]
      BY <1>2, <3>3, LoggedState
    <3> QED BY <2>1, <3>2, <3>4
  <2> QED BY <1>1, <1>2, <1>3, <1>6, <2>1 DEF CommitInv
<1> QED BY <1>8, <1>9, <1>10, <1>11, <1>12 DEF PageInv

LEMMA FileChangedStep ==
  ASSUME PageInv, FileChanged
  PROVE  PageInv'
<1> DEFINE q == Request(run.seen, "post-query-change", run.req.sel, handle)
<1>1. /\ run.pc = "commit" /\ ~Superseded /\ run' = Started(q) /\ timer' = 0
      /\ Tell("superseded")
      /\ UNCHANGED <<disk, roster, job, serial, handle, opening, stage,
                     rendered, deltas, pendingJob, reads, next, mon,
                     unsettled>>
  BY DEF FileChanged, world, picked, shown, ghosts
<1>2. /\ DataInv /\ PickInv /\ RunInv /\ SendInv /\ ClickInv /\ CommitInv
      /\ Logged' = Logged
  BY <1>1, PageKept DEF PageInv
<1>3. run # NoRun /\ run \in Refreshes(Logged) /\ run.cur
      /\ run.seen \in Logged /\ next = NoRequest
  BY <1>1, <1>2 DEF RunInv, NoRun, Superseded
<1>4. q \in Asked(Logged) /\ q.why = "post-query-change" /\ q.handle = handle
  <2>1. run.req.sel \in 1..Picks
    BY <1>3 DEF Refreshes, Asked
  <2> QED BY <1>2, <1>3, <2>1 DEF Request, Asked, Reasons, Possible, PickInv
<1> HIDE DEF q
<1>5. /\ run' \in Refreshes(Logged) /\ run'.req = q /\ run'.base = roster
      /\ run'.pc = "scan"
  BY <1>1, <1>2, <1>4 DEF Started, Refreshes, DataInv, Possible
<1>6. run' # NoRun
  BY <1>5 DEF Refreshes, NoRun
<1>7. DataInv' /\ WatchInv'
  BY <1>1, PageKept
<1>8. PickInv'
  BY <1>1, <1>2, ReaderAssumption DEF PickInv, ReaderAssumption
<1>9. RunInv'
  BY <1>1, <1>2, <1>3, <1>5 DEF RunInv
<1>10. SendInv' /\ send'.pc = send.pc
  <2>1. "pre-send" \in {run'.req.why, next'.why} =>
          "pre-send" \in {run.req.why, next.why}
    BY <1>1, <1>4, <1>5
  <2> QED BY <1>1, <1>2, <2>1, Learnt
<1>11. ClickInv'
  BY <1>1, <1>2, <1>5, <1>10 DEF ClickInv
<1>12. CommitInv'
  BY <1>1, <1>3, <1>4, <1>5 DEF CommitInv
<1> QED BY <1>7, <1>8, <1>9, <1>10, <1>11, <1>12 DEF PageInv

\* The monitor settles on one candidate at a time.
LEMMA StagedType ==
  ASSUME NEW K, NEW m \in Monitors(K), m.on, NEW s \in K
  PROVE  /\ Staged(m, s) \in Monitors(K) /\ Staged(m, s).on
         /\ Staged(m, s).settle \in {"none", "armed"}
<1>1. CASE s = m.last
  BY <1>1 DEF Staged, Monitors, Possible
<1>2. CASE s # m.last /\ s = m.cand /\ m.settle = "armed"
  BY <1>2 DEF Staged, Monitors, Possible
<1>3. CASE s # m.last /\ ~(s = m.cand /\ m.settle = "armed")
  <2>1. Staged(m, s) = [m EXCEPT !.cand = s, !.settle = "armed", !.seen = NoSnap]
    BY <1>3 DEF Staged
  <2> QED BY <2>1 DEF Monitors, Possible
<1> QED BY <1>1, <1>2, <1>3

LEMMA WatchSteps ==
  ASSUME PageInv, WatchStep \/ ConfirmFails
  PROVE  PageInv'
<1>1. UNCHANGED <<disk, roster, job, serial, handle, opening, stage, rendered,
                  deltas, pendingJob, timer, reads, run, next, send,
                  unsettled>>
  BY DEF WatchStep, Probe, Probed, SettleFires, ConfirmFails, world, picked,
         shown, runner, ghosts
<1>2. /\ DataInv /\ PickInv /\ WatchInv /\ Logged' = Logged
      /\ DataInv' /\ PickInv' /\ RunInv' /\ SendInv' /\ ClickInv' /\ CommitInv'
  BY <1>1, PageKept DEF PageInv, picked, runner
<1>3. mon.on /\ mon \in Monitors(Logged) /\ Now(handle) \in Logged
  <2>1. mon.on
    BY <1>2 DEF WatchStep, Probe, Probed, SettleFires, ConfirmFails, WatchInv
  <2>2. handle \in Files
    BY <1>2, <2>1 DEF WatchInv, PickInv
  <2> QED BY <1>2, <2>1, <2>2, NowLogged DEF WatchInv
<1>4. WatchInv'
  <2>1. CASE Probe
    <3>1. mon' = [mon EXCEPT !.probe = Now(handle)]
      BY <2>1 DEF Probe
    <3>2. /\ mon' \in Monitors(Logged) /\ mon'.on = mon.on
          /\ mon'.settle = mon.settle /\ mon'.seen = mon.seen
      BY <1>3, <3>1 DEF Monitors, Possible
    <3> QED BY <1>1, <1>2, <1>3, <3>2 DEF WatchInv
  <2>2. CASE SettleFires
    <3>1. mon' = [mon EXCEPT !.settle = "reading", !.seen = Now(handle)]
      BY <2>2 DEF SettleFires
    <3>2. mon' \in Monitors(Logged) /\ mon'.on /\ mon'.seen = Now(handle)
      BY <1>3, <3>1 DEF Monitors, Possible
    <3> QED BY <1>1, <1>2, <1>3, <3>2 DEF WatchInv
  <2>3. CASE ConfirmFails
    <3>1. mon' = [mon EXCEPT !.settle = "failed", !.seen = NoSnap]
      BY <2>3 DEF ConfirmFails
    <3>2. mon' \in Monitors(Logged) /\ mon'.on /\ mon'.settle = "failed"
      BY <1>3, <3>1 DEF Monitors, Possible
    <3> QED BY <1>1, <1>2, <1>3, <3>2 DEF WatchInv
  <2>4. CASE Probed
    <3> DEFINE m == [mon EXCEPT !.probe = NoSnap]
    <3>1. /\ m \in Monitors(Logged) /\ m.on = mon.on
          /\ m.settle = mon.settle /\ m.seen = mon.seen
          /\ mon.probe \in Logged
      BY <1>3, <2>4 DEF Probed, Monitors, Possible
    <3>2. mon' = m \/ mon' = Staged(m, mon.probe)
      BY <2>4 DEF Probed
    <3> HIDE DEF m
    <3>3. CASE mon' = m
      BY <1>1, <1>2, <1>3, <3>1, <3>3 DEF WatchInv
    <3>4. CASE mon' = Staged(m, mon.probe)
      <4>1. mon' \in Monitors(Logged) /\ mon'.on /\ mon'.settle # "reading"
        BY <1>3, <3>1, <3>4, StagedType
      <4> QED BY <1>1, <1>2, <1>3, <4>1 DEF WatchInv
    <3> QED BY <3>2, <3>3, <3>4
  <2> QED BY <2>1, <2>2, <2>3, <2>4 DEF WatchStep
<1> QED BY <1>2, <1>4 DEF PageInv

\* A request of the selected handle, of no click, that the invariant allows.
LEMMA RequestKept ==
  ASSUME PageInv, NEW q \in Asked(Logged), q.why # "pre-send", q.handle = handle,
         Submit(q),
         UNCHANGED <<disk, roster, handle, rendered, deltas, pendingJob, send,
                     unsettled>>
  PROVE  RunInv' /\ SendInv' /\ ClickInv' /\ CommitInv'
<1>1. /\ DataInv /\ RunInv /\ SendInv /\ ClickInv /\ CommitInv
      /\ Logged' = Logged
  BY PageKept DEF PageInv
<1>2. /\ RunInv'
      /\ run' # NoRun
      /\ run'.base = roster \/ (run # NoRun /\ run'.base = run.base)
      /\ run'.cur => run'.req = q /\ run'.pc = "scan"
      /\ next' \in {NoRequest, q}
      /\ {run'.req.why, next'.why} \subseteq {run.req.why, q.why, "none"}
  BY <1>1, Submitted
<1>3. SendInv'
  BY <1>1, <1>2 DEF SendInv
<1>4. ClickInv'
  BY <1>1, <1>2 DEF ClickInv
<1>5. CommitInv'
  BY <1>1, <1>2 DEF CommitInv
<1> QED BY <1>2, <1>3, <1>4, <1>5

LEMMA ConfirmedStep ==
  ASSUME PageInv, Confirmed
  PROVE  PageInv'
<1>1. /\ mon.settle = "reading"
      /\ UNCHANGED <<disk, roster, job, serial, handle, opening, stage,
                     rendered, deltas, pendingJob, reads, send, unsettled>>
  BY DEF Confirmed, world, picked, shown, ghosts
<1>2. /\ DataInv /\ PickInv /\ WatchInv /\ Logged' = Logged /\ DataInv'
  BY <1>1, PageKept DEF PageInv
<1>3. /\ mon.on /\ mon \in Monitors(Logged) /\ mon.seen \in Logged
      /\ handle \in Files /\ serial \in 1..Picks
  BY <1>1, <1>2, ReaderAssumption DEF WatchInv, PickInv, ReaderAssumption
<1>4. CASE mon.seen # mon.cand
  <2>1. mon' = Staged(mon, mon.seen) /\ UNCHANGED <<timer, run, next>>
    BY <1>4 DEF Confirmed, runner
  <2>2. mon' \in Monitors(Logged) /\ mon'.on /\ mon'.settle # "reading"
    BY <1>3, <2>1, StagedType
  <2>3. WatchInv'
    BY <1>1, <1>2, <1>3, <2>2 DEF WatchInv
  <2> QED BY <1>1, <2>1, <2>3, PageKept DEF PageInv, picked, runner
<1>5. CASE mon.seen = mon.cand
  <2> DEFINE q == [Request(mon.seen, "file-change", serial, handle)
                     EXCEPT !.back = mon.last]
  <2>1. mon' = Baseline(mon, mon.seen) /\ timer' = 0 /\ Submit(q)
    BY <1>5 DEF Confirmed
  <2>2. q \in Asked(Logged) /\ q.why = "file-change" /\ q.handle = handle
    BY <1>3 DEF Request, Asked, Reasons, Possible, Monitors
  <2> HIDE DEF q
  <2>3. RunInv' /\ SendInv' /\ ClickInv' /\ CommitInv'
    BY <1>1, <2>1, <2>2, RequestKept
  <2>4. WatchInv'
    BY <1>1, <1>2, <1>3, <2>1
       DEF WatchInv, Baseline, NoMonitor, Monitors, Possible
  <2>5. PickInv'
    BY <1>1, <1>2, <2>1, ReaderAssumption DEF PickInv, ReaderAssumption
  <2> QED BY <1>2, <2>3, <2>4, <2>5 DEF PageInv
<1> QED BY <1>4, <1>5

LEMMA TimerFiresStep ==
  ASSUME PageInv, TimerFires
  PROVE  PageInv'
<1>1. /\ timer # 0 /\ timer' = 0
      /\ reads' = IF timer = serial /\ handle # NoFile
                    THEN reads \cup {Read("retry", Now(handle), timer)} ELSE reads
      /\ UNCHANGED <<disk, roster, job, serial, handle, opening, stage,
                     rendered, deltas, pendingJob, run, next, mon, send,
                     unsettled>>
  BY DEF TimerFires, world, picked, shown, runner, ghosts
<1>2. /\ DataInv /\ PickInv /\ Logged' = Logged
      /\ DataInv' /\ RunInv' /\ WatchInv' /\ SendInv' /\ ClickInv' /\ CommitInv'
  BY <1>1, PageKept DEF PageInv, runner
<1>3. reads' \subseteq FileReads(Logged)
  <2>1. CASE timer = serial /\ handle # NoFile
    <3>1. Now(handle) \in Logged
      BY <1>2, <2>1, NowLogged DEF PickInv
    <3>2. timer \in 1..Picks
      BY <1>1, <1>2, ReaderAssumption DEF PickInv, ReaderAssumption
    <3>3. Read("retry", Now(handle), timer) \in FileReads(Logged)
      BY <3>1, <3>2 DEF Read, FileReads, Reasons
    <3> QED BY <1>1, <1>2, <2>1, <3>3 DEF PickInv
  <2>2. CASE ~(timer = serial /\ handle # NoFile)
    BY <1>1, <1>2, <2>2 DEF PickInv
  <2> QED BY <2>1, <2>2
<1>4. PickInv'
  BY <1>1, <1>2, <1>3, ReaderAssumption DEF PickInv, ReaderAssumption
<1> QED BY <1>2, <1>4 DEF PageInv

LEMMA RetryReadStep ==
  ASSUME PageInv, NEW x \in reads, RetryRead(x)
  PROVE  PageInv'
<1>1. /\ reads' = reads \ {x}
      /\ UNCHANGED <<disk, roster, job, serial, handle, opening, stage,
                     rendered, deltas, pendingJob, mon, send, unsettled>>
  BY DEF RetryRead, world, picked, shown
<1>2. /\ DataInv /\ PickInv /\ Logged' = Logged /\ DataInv' /\ WatchInv'
  BY <1>1, PageKept DEF PageInv
<1>3. x \in FileReads(Logged)
  BY <1>2 DEF PickInv
<1>4. CASE Submit(Request(x.snap, "retry", x.sel, handle)) /\ timer' = timer
  <2> DEFINE q == Request(x.snap, "retry", x.sel, handle)
  <2>1. q \in Asked(Logged) /\ q.why = "retry" /\ q.handle = handle
    BY <1>2, <1>3 DEF Request, Asked, Reasons, Possible, FileReads, PickInv
  <2> HIDE DEF q
  <2>2. RunInv' /\ SendInv' /\ ClickInv' /\ CommitInv'
    BY <1>1, <1>4, <2>1, RequestKept DEF q
  <2>3. PickInv'
    BY <1>1, <1>2, <1>4 DEF PickInv
  <2> QED BY <1>2, <2>2, <2>3 DEF PageInv
<1>5. CASE Schedule(x.sel) /\ UNCHANGED <<run, next>>
  <2>1. RunInv' /\ SendInv' /\ ClickInv' /\ CommitInv'
    BY <1>1, <1>5, PageKept DEF runner
  <2>2. timer' \in 0..Picks
    <3>1. x.sel \in 0..Picks
      BY <1>3 DEF FileReads
    <3> QED BY <1>5, <3>1, ScheduledType
  <2>3. PickInv'
    BY <1>1, <1>2, <2>2 DEF PickInv
  <2> QED BY <1>2, <2>1, <2>3 DEF PageInv
<1> QED BY <1>4, <1>5 DEF RetryRead, runner

LEMMA StaleJobReadStep ==
  ASSUME PageInv, NEW x \in reads, StaleJobRead(x)
  PROVE  PageInv'
<1>1. /\ reads' = reads \ {x}
      /\ UNCHANGED <<disk, roster, job, serial, handle, opening, stage,
                     rendered, deltas, pendingJob, mon, send, unsettled>>
  BY DEF StaleJobRead, world, picked, shown
<1>2. /\ DataInv /\ PickInv /\ Logged' = Logged /\ DataInv' /\ WatchInv'
  BY <1>1, PageKept DEF PageInv
<1>3. /\ x \in FileReads(Logged) /\ x.snap \in Logged /\ serial \in 1..Picks
      /\ Now(x.snap.f) \in Logged
  <2>1. x \in FileReads(Logged) /\ x.snap \in Logged /\ serial \in 1..Picks
    BY <1>2, ReaderAssumption DEF PickInv, FileReads, ReaderAssumption
  <2>2. x.snap.f \in Files
    BY <1>2, <2>1, LoggedState
  <2> QED BY <1>2, <2>1, <2>2, NowLogged
<1>4. ASSUME NEW s \in {x.snap, Now(x.snap.f)},
             Submit(Request(s, "stale-job", serial, handle)), timer' = 0
      PROVE  PageInv'
  <2> DEFINE q == Request(s, "stale-job", serial, handle)
  <2>1. q \in Asked(Logged) /\ q.why = "stale-job" /\ q.handle = handle
    BY <1>2, <1>3 DEF Request, Asked, Reasons, Possible, PickInv
  <2> HIDE DEF q
  <2>2. RunInv' /\ SendInv' /\ ClickInv' /\ CommitInv'
    BY <1>1, <1>4, <2>1, RequestKept DEF q
  <2>3. PickInv'
    BY <1>1, <1>2, <1>4, ReaderAssumption DEF PickInv, ReaderAssumption
  <2> QED BY <1>2, <2>2, <2>3 DEF PageInv
<1>5. CASE UNCHANGED <<timer, run, next>>
  <2>1. PickInv'
    BY <1>1, <1>2, <1>5 DEF PickInv
  <2> QED BY <1>1, <1>2, <1>5, <2>1, PageKept DEF PageInv, runner
<1> QED BY <1>4, <1>5 DEF StaleJobRead, runner

-----------------------------------------------------------------------------
(* The steps of a click.                                                   *)

\* What a click leaves alone until it hands a preview over.
Apart == /\ UNCHANGED <<disk, roster, job, serial, handle, opening, rendered,
                        deltas, pendingJob, reads, mon, unsettled>>

\* The click gives up: what it may show is a stage, and it is idle.
LEMMA GivesUp ==
  ASSUME PageInv, Apart, UNCHANGED <<timer, run, next>>,
         Return \/ ShowError \/ (send' = NoSend /\ stage' = stage),
         "pre-send" \notin {run.req.why, next.why}
  PROVE  PageInv'
<1>1. send' = NoSend /\ stage' \in {stage, "ready", "nothing", "error"}
  BY DEF Return, ShowError
<1>2. DataInv' /\ RunInv' /\ WatchInv' /\ CommitInv' /\ Logged' = Logged
  BY PageKept DEF Apart, runner
<1>3. PickInv'
  BY <1>1, <1>2 DEF Apart, PageInv, PickInv
<1>4. SendInv'
  BY IdleSend DEF Apart, PageInv, Return, ShowError
<1>5. ClickInv'
  BY <1>1 DEF Apart, PageInv, ClickInv, NoSend
<1> QED BY <1>2, <1>3, <1>4, <1>5 DEF PageInv

\* The click goes on waiting or hands over.
LEMMA GoesOn ==
  ASSUME PageInv, Apart, UNCHANGED <<timer, run, next, stage>>,
         send' \in Sends(Logged),
         send'.pc \in {"wait", "probe", "settle", "final", "create"},
         send'.pc # "create" =>
           /\ send'.sel # 0 /\ send'.f \in Files
           /\ send'.at \in Logged /\ send'.at.f = send'.f,
         send'.pc \in {"probe", "settle", "final"} => send'.prev \in Logged,
         send'.pc \in {"probe", "final"} =>
           send'.prev.f = send'.f /\ send'.at.r <= send'.prev.r,
         send.pc # "idle" =>
           send.pc \in {"wait", "probe", "settle", "refresh", "final"},
         send.pc = "idle" => ~pendingJob,
         "pre-send" \notin {run.req.why, next.why}
  PROVE  PageInv'
<1>1. DataInv' /\ PickInv' /\ RunInv' /\ WatchInv' /\ CommitInv' /\ Logged' = Logged
  BY PageKept DEF Apart, runner, picked
<1>2. SendInv'
  BY <1>1 DEF SendInv, NoSend
<1>3. ClickInv'
  BY DEF Apart, PageInv, ClickInv
<1> QED BY <1>1, <1>2, <1>3 DEF PageInv

\* So does a click that posts, or begins another round.
LEMMA PostsOrRetries ==
  ASSUME PageInv, Apart, UNCHANGED <<timer, run, next>>, Post \/ TryAgain,
         send.pc \in {"probe", "refresh", "final"},
         "pre-send" \notin {run.req.why, next.why}
  PROVE  PageInv'
<1>1. CASE Return
  BY <1>1, GivesUp
<1>2. CASE ~Return
  <2>1. /\ send \in Sends(Logged) /\ send.sel # 0 /\ send.f \in Files
        /\ send.at \in Logged /\ send.at.f = send.f
    BY DEF PageInv, SendInv
  <2>2. /\ stage' = stage
        /\ \/ send' = [NoSend EXCEPT !.pc = "create", !.sel = send.sel,
                              !.f = send.f, !.at = send.at]
           \/ send' = [NoSend EXCEPT !.pc = "wait", !.sel = send.sel,
                              !.f = send.f, !.at = send.at,
                              !.tries = send.tries + 1]
    BY <1>2 DEF Post, TryAgain
  <2>3. /\ send' \in Sends(Logged) /\ send'.pc \in {"create", "wait"}
        /\ send'.sel = send.sel /\ send'.f = send.f /\ send'.at = send.at
    <3>1. PICK pc \in {"create", "wait"}, n \in Nat :
            send' = [pc |-> pc, sel |-> send.sel, f |-> send.f, at |-> send.at,
                     tries |-> n, prev |-> NoSnap, out |-> "none"]
      <4>1. send.tries \in Nat /\ send.tries + 1 \in Nat
        BY <2>1 DEF Sends
      <4> QED BY <2>2, <4>1 DEF NoSend
    <3>2. send.sel \in 0..Picks /\ send.f \in Files \cup {NoFile}
      BY <2>1 DEF Sends
    <3> QED BY <2>1, <3>1, <3>2 DEF Sends, Possible
  <2> QED BY <2>1, <2>2, <2>3, GoesOn
<1> QED BY <1>1, <1>2

LEMMA ClickStarts ==
  ASSUME PageInv, Click
  PROVE  PageInv'
<1> DEFINE click0(step) ==
      [NoSend EXCEPT !.pc = step, !.sel = serial, !.f = handle,
                     !.at = IF handle = NoFile THEN NoSnap ELSE Now(handle)]
<1>1. /\ send.pc = "idle"
      /\ UNCHANGED <<disk, roster, job, serial, handle, opening, rendered,
                     deltas, pendingJob, timer, reads, run, next, mon>>
  BY DEF Click, world, picked, shown, runner
<1>2. /\ DataInv /\ PickInv /\ SendInv /\ ClickInv /\ Logged' = Logged
      /\ DataInv' /\ RunInv' /\ WatchInv' /\ CommitInv'
      /\ "pre-send" \notin {run.req.why, next.why}
  BY <1>1, PageKept DEF PageInv, runner, SendInv
<1>3. CASE /\ pendingJob
           /\ send' = [NoSend EXCEPT !.pc = "apply", !.sel = serial]
           /\ stage' = "syncing" /\ unsettled' = TRUE
  <2>1. send' \in Sends(Logged) /\ send'.pc = "apply"
    BY <1>2, <1>3 DEF NoSend, Sends, Possible, PickInv
  <2>2. SendInv'
    BY <1>1, <1>2, <2>1 DEF SendInv, NoSend
  <2>3. ClickInv'
    BY <1>1, <1>2, <1>3, <2>1 DEF ClickInv
  <2>4. PickInv'
    BY <1>1, <1>2, <1>3 DEF PickInv
  <2> QED BY <1>2, <2>2, <2>3, <2>4 DEF PageInv
<1>4. CASE /\ ~pendingJob /\ handle # NoFile
           /\ send' = click0("wait") /\ stage' = "syncing"
           /\ UNCHANGED unsettled
  <2>1. handle \in Files /\ Now(handle) \in Logged /\ Now(handle).f = handle
        /\ serial # 0
    <3>1. handle \in Files /\ serial # 0
      BY <1>2, <1>4 DEF PickInv
    <3> QED BY <1>2, <3>1, NowLogged
  <2>2. /\ send' \in Sends(Logged) /\ send'.pc = "wait" /\ send'.sel = serial
        /\ send'.f = handle /\ send'.at = Now(handle)
    BY <1>2, <1>4, <2>1 DEF NoSend, Sends, Possible, PickInv
  <2>3. SendInv'
    BY <1>1, <1>2, <2>1, <2>2 DEF SendInv, NoSend
  <2>4. ClickInv'
    BY <1>1, <1>2, <1>4, <2>2 DEF ClickInv
  <2>5. PickInv'
    BY <1>1, <1>2, <1>4 DEF PickInv
  <2> QED BY <1>2, <2>3, <2>4, <2>5 DEF PageInv
<1>5. CASE /\ ~pendingJob /\ handle = NoFile
           /\ IF deltas = {}
                THEN UNCHANGED send /\ stage' = "nothing"
                ELSE send' = click0("create") /\ stage' = "syncing"
           /\ UNCHANGED unsettled
  <2>1. PickInv'
    BY <1>1, <1>2, <1>5 DEF PickInv
  <2>2. CASE deltas = {}
    <3>1. SendInv' /\ ClickInv'
      BY <1>1, <1>5, <2>2, PageKept DEF runner
    <3> QED BY <1>2, <2>1, <3>1 DEF PageInv
  <2>3. CASE deltas # {}
    <3>1. send' = [pc |-> "create", sel |-> serial, f |-> NoFile,
                   at |-> NoSnap, tries |-> 0, prev |-> NoSnap, out |-> "none"]
      BY <1>5, <2>3 DEF NoSend
    <3>2. send' \in Sends(Logged) /\ send'.pc = "create"
      BY <1>2, <3>1 DEF Sends, Possible, PickInv
    <3>3. SendInv'
      BY <1>1, <1>2, <3>2 DEF SendInv, NoSend
    <3>4. ClickInv'
      BY <1>1, <1>2, <1>5, <3>2 DEF ClickInv
    <3> QED BY <1>2, <2>1, <3>3, <3>4 DEF PageInv
  <2> QED BY <2>2, <2>3
<1> QED BY <1>3, <1>4, <1>5 DEF Click

\* A header that is read now is not older than the click.
LEMMA ReadsHeader ==
  ASSUME PageInv, Apart, UNCHANGED <<timer, run, next, stage>>,
         NEW pc \in {"probe", "final"},
         send.pc \in {"wait", "refresh"},
         send' = [send EXCEPT !.pc = pc, !.prev = Now(send.f)],
         "pre-send" \notin {run.req.why, next.why}
  PROVE  PageInv'
<1>1. /\ send \in Sends(Logged) /\ send.sel # 0 /\ send.f \in Files
      /\ send.at \in Logged /\ send.at.f = send.f /\ DataInv
  BY DEF PageInv, SendInv
<1>2. Now(send.f) \in Logged /\ Now(send.f).f = send.f
      /\ Now(send.f).r = disk[send.f]
  BY <1>1, NowLogged
<1>3. send.at.r <= disk[send.f]
  <2>1. send.at.r \in 1..disk[send.f] /\ disk[send.f] \in Nat
    BY <1>1, LoggedState DEF DataInv
  <2> QED BY <2>1
<1>4. /\ send' \in Sends(Logged) /\ send'.pc = pc
      /\ send'.sel = send.sel /\ send'.f = send.f /\ send'.at = send.at
      /\ send'.prev = Now(send.f)
  BY <1>1, <1>2 DEF Sends, Possible
<1> QED BY <1>1, <1>2, <1>3, <1>4, GoesOn

LEMMA ClickProbesStep ==
  ASSUME PageInv, ClickProbes
  PROVE  PageInv'
<1>1. /\ send.pc = "wait" /\ Apart /\ UNCHANGED <<timer, run, next>>
      /\ stage' = stage
  BY DEF ClickProbes, Apart, world, picked, shown, runner, ghosts
<1>2. "pre-send" \notin {run.req.why, next.why}
  BY <1>1 DEF PageInv, SendInv
<1>3. CASE send' = NoSend
  BY <1>1, <1>2, <1>3, GivesUp
<1>4. CASE send' = [send EXCEPT !.pc = "probe", !.prev = Now(send.f)]
  BY <1>1, <1>2, <1>4, ReadsHeader
<1> QED BY <1>3, <1>4 DEF ClickProbes

LEMMA ClickProbedStep ==
  ASSUME PageInv, ClickProbed
  PROVE  PageInv'
<1>1. send.pc = "probe" /\ Apart /\ UNCHANGED <<timer, run, next>>
  BY DEF ClickProbed, Apart, world, picked, shown, runner, ghosts
<1>2. "pre-send" \notin {run.req.why, next.why} /\ send \in Sends(Logged)
      /\ send.sel # 0 /\ send.f \in Files /\ send.prev \in Logged
      /\ send.at \in Logged /\ send.at.f = send.f
  BY <1>1 DEF PageInv, SendInv
<1>3. CASE send' = NoSend /\ stage' = stage
  BY <1>1, <1>2, <1>3, GivesUp
<1>4. CASE Post
  BY <1>1, <1>2, <1>4, PostsOrRetries
<1>5. CASE send' = [send EXCEPT !.pc = "settle"] /\ stage' = stage
  <2>1. /\ send' \in Sends(Logged) /\ send'.pc = "settle"
        /\ send'.sel = send.sel /\ send'.f = send.f /\ send'.at = send.at
        /\ send'.prev = send.prev
    BY <1>2, <1>5 DEF Sends
  <2> QED BY <1>1, <1>2, <1>5, <2>1, GoesOn
<1> QED BY <1>3, <1>4, <1>5 DEF ClickProbed

LEMMA ClickSettlesStep ==
  ASSUME PageInv, ClickSettles
  PROVE  PageInv'
<1>1. send.pc = "settle" /\ Apart
  BY DEF ClickSettles, Apart, world, picked, shown, ghosts
<1>2. /\ "pre-send" \notin {run.req.why, next.why} /\ send \in Sends(Logged)
      /\ send.sel # 0 /\ send.f \in Files
      /\ send.at \in Logged /\ send.at.f = send.f /\ send.prev \in Logged
      /\ Now(send.f) \in Logged
      /\ DataInv /\ PickInv /\ RunInv /\ ClickInv /\ CommitInv
  <2>1. send.f \in Files
    BY <1>1 DEF PageInv, SendInv
  <2> QED BY <1>1, <2>1, NowLogged DEF PageInv, SendInv
<1>3. CASE /\ Submit(Request(send.prev, "pre-send", send.sel, handle))
           /\ send' = [send EXCEPT !.pc = "refresh", !.out = "superseded"]
           /\ timer' = 0 /\ stage' = stage
  <2> DEFINE q == Request(send.prev, "pre-send", send.sel, handle)
  <2>1. q \in Asked(Logged) /\ q.handle = handle
    <3>1. send.sel \in 1..Picks
      BY <1>2, ReaderAssumption DEF Sends, ReaderAssumption
    <3> QED BY <1>2, <3>1 DEF Request, Asked, Reasons, Possible, PickInv
  <2>2. Submit(q) /\ disk' = disk
    BY <1>1, <1>3 DEF Apart
  <2> HIDE DEF q
  <2>3. /\ RunInv'
        /\ run' # NoRun
        /\ run'.base = roster \/ (run # NoRun /\ run'.base = run.base)
        /\ run'.cur => run'.req = q /\ run'.pc = "scan"
        /\ next' \in {NoRequest, q}
    BY <1>2, <2>1, <2>2, Submitted
  <2>4. /\ send' \in Sends(Logged) /\ send'.pc = "refresh"
        /\ send'.sel = send.sel /\ send'.f = send.f /\ send'.at = send.at
        /\ send'.prev = send.prev
    BY <1>2, <1>3 DEF Sends
  <2>5. DataInv' /\ WatchInv' /\ Logged' = Logged
    BY <1>1, PageKept DEF Apart
  <2>6. PickInv'
    BY <1>1, <1>2, <1>3, <2>5, ReaderAssumption
       DEF Apart, PickInv, ReaderAssumption
  <2>7. SendInv'
    BY <1>2, <2>4, <2>5 DEF SendInv, NoSend
  <2>8. ClickInv'
    BY <1>1, <1>2, <2>3, <2>4 DEF Apart, ClickInv
  <2>9. CommitInv'
    BY <1>1, <1>2, <2>1, <2>3 DEF Apart, CommitInv
  <2> QED BY <2>3, <2>5, <2>6, <2>7, <2>8, <2>9 DEF PageInv
<1>4. CASE /\ send' = [send EXCEPT !.prev = Now(send.f)] /\ stage' = stage
           /\ UNCHANGED <<timer, run, next>>
  <2>1. /\ send' \in Sends(Logged) /\ send'.pc = "settle"
        /\ send'.sel = send.sel /\ send'.f = send.f /\ send'.at = send.at
        /\ send'.prev \in Logged
    BY <1>1, <1>2, <1>4 DEF Sends, Possible
  <2> QED BY <1>1, <1>2, <1>4, <2>1, GoesOn
<1>5. CASE Return /\ UNCHANGED <<timer, run, next>>
  BY <1>1, <1>2, <1>5, GivesUp
<1> QED BY <1>3, <1>4, <1>5 DEF ClickSettles, runner

LEMMA ClickRefreshedStep ==
  ASSUME PageInv, ClickRefreshed
  PROVE  PageInv'
<1>1. /\ send.pc = "refresh" /\ Apart /\ UNCHANGED <<timer, run, next>>
      /\ "pre-send" \notin {run.req.why, next.why}
  BY DEF ClickRefreshed, Apart, world, picked, shown, runner, ghosts
<1>2. CASE Post \/ TryAgain
  BY <1>1, <1>2, PostsOrRetries
<1>3. CASE ShowError
  BY <1>1, <1>3, GivesUp
<1>4. CASE /\ send' = [send EXCEPT !.pc = "final", !.prev = Now(send.f)]
           /\ stage' = stage
  BY <1>1, <1>4, ReadsHeader
<1> QED BY <1>2, <1>3, <1>4 DEF ClickRefreshed

LEMMA ClickCheckedStep ==
  ASSUME PageInv, ClickChecked
  PROVE  PageInv'
<1>1. send.pc = "final" /\ Apart /\ UNCHANGED <<timer, run, next>>
  BY DEF ClickChecked, Apart, world, picked, shown, runner, ghosts
<1>2. "pre-send" \notin {run.req.why, next.why}
  BY <1>1 DEF PageInv, SendInv
<1>3. CASE Post \/ TryAgain
  BY <1>1, <1>2, <1>3, PostsOrRetries
<1>4. CASE send' = NoSend /\ stage' = stage
  BY <1>1, <1>2, <1>4, GivesUp
<1> QED BY <1>3, <1>4 DEF ClickChecked

LEMMA ClickFailsStep ==
  ASSUME PageInv, ClickFails
  PROVE  PageInv'
<1>1. /\ send.pc \in {"probe", "settle", "final"} /\ Apart /\ UNCHANGED <<timer, run, next>>
      /\ ShowError
  BY DEF ClickFails, Apart, world, picked, shown, runner, ghosts
<1>2. "pre-send" \notin {run.req.why, next.why}
  BY <1>1 DEF PageInv, SendInv
<1> QED BY <1>1, <1>2, GivesUp

\* The job that is created is the one the page will apply.
LEMMA CreatedStep ==
  ASSUME PageInv, Created
  PROVE  PageInv'
<1>1. /\ send.pc = "create"
      /\ UNCHANGED <<disk, roster, serial, handle, opening, rendered, deltas,
                     timer, reads, run, next, mon>>
  BY DEF Created, picked, shown, runner
<1>2. /\ DataInv /\ PickInv /\ SendInv /\ ClickInv /\ Logged' = Logged
      /\ RunInv' /\ WatchInv' /\ CommitInv'
      /\ "pre-send" \notin {run'.req.why, next'.why}
  BY <1>1, PageKept DEF PageInv, runner, SendInv
<1>3. CASE /\ job' = deltas \ roster /\ stage' = stage
           /\ IF send.sel # serial
                THEN send' = NoSend /\ UNCHANGED <<pendingJob, unsettled>>
                ELSE /\ pendingJob' = TRUE /\ unsettled' = TRUE
                     /\ send' = [NoSend EXCEPT !.pc = "apply",
                                               !.sel = send.sel]
  <2>1. DataInv' /\ PickInv'
    BY <1>1, <1>2, <1>3 DEF DataInv, PickInv
  <2>2. CASE send.sel # serial
    <3>1. send' = NoSend /\ UNCHANGED <<pendingJob, unsettled>>
      BY <1>3, <2>2
    <3>2. SendInv'
      BY <1>1, <1>2, <3>1, IdleSend
    <3>3. ClickInv'
      BY <1>1, <1>2, <3>1 DEF ClickInv, NoSend
    <3> QED BY <1>2, <2>1, <3>2, <3>3 DEF PageInv
  <2>3. CASE send.sel = serial
    <3>1. /\ pendingJob' /\ unsettled'
          /\ send' = [pc |-> "apply", sel |-> serial, f |-> NoFile,
                      at |-> NoSnap, tries |-> 0, prev |-> NoSnap,
                      out |-> "none"]
      BY <1>3, <2>3 DEF NoSend
    <3>2. send' \in Sends(Logged) /\ send'.pc = "apply"
      BY <1>2, <3>1 DEF Sends, Possible, PickInv
    <3>3. SendInv'
      BY <1>1, <1>2, <3>2 DEF SendInv, NoSend
    <3>4. ClickInv'
      BY <1>1, <1>2, <3>1, <3>2 DEF ClickInv
    <3> QED BY <1>2, <2>1, <3>3, <3>4 DEF PageInv
  <2> QED BY <2>2, <2>3
<1>4. CASE ShowError /\ UNCHANGED <<job, pendingJob, unsettled>>
  <2>1. send' = NoSend /\ stage' \in {stage, "error"}
    BY <1>4 DEF ShowError
  <2>2. DataInv'
    BY <1>1, <1>2, <1>4 DEF DataInv
  <2>3. PickInv'
    BY <1>1, <1>2, <2>1 DEF PickInv
  <2>4. SendInv'
    BY <1>1, <1>2, <2>1, IdleSend
  <2>5. ClickInv'
    BY <1>1, <1>2, <1>4, <2>1 DEF ClickInv, NoSend
  <2> QED BY <1>2, <2>2, <2>3, <2>4, <2>5 DEF PageInv
<1> QED BY <1>3, <1>4 DEF Created

\* What is written leaves the job and joins the roster.
LEMMA AppliedStep ==
  ASSUME PageInv, Applied
  PROVE  PageInv'
<1>1. /\ send.pc = "apply" /\ send' = NoSend
      /\ UNCHANGED <<disk, serial, handle, opening, rendered, timer, run,
                     next, mon>>
  BY DEF Applied, picked, runner
<1>2. /\ DataInv /\ PickInv /\ SendInv /\ ClickInv /\ Logged' = Logged
      /\ RunInv' /\ WatchInv' /\ CommitInv'
      /\ "pre-send" \notin {run'.req.why, next'.why}
  BY <1>1, PageKept DEF PageInv, runner, SendInv
<1>3. PICK a \in Answers :
        /\ roster' = roster \cup a.wrote
        /\ job' = IF send.sel # serial \/ EndsJob(a) THEN {} ELSE job \ a.wrote
        /\ IF send.sel # serial
             THEN UNCHANGED <<stage, deltas, pendingJob, reads, unsettled>>
             ELSE /\ stage' = IF a.say = "applied" THEN "done" ELSE "error"
                  /\ deltas' = IF a.say = "applied" THEN {} ELSE deltas
                  /\ pendingJob' = (pendingJob /\ ~EndsJob(a))
                  /\ unsettled' =
                       (unsettled /\ a.say \notin {"applied", "gone"})
                  /\ reads' = IF EndsJob(a) /\ handle # NoFile
                       THEN reads \cup {Read("stale-job", Now(handle), serial)}
                       ELSE reads
  BY DEF Applied
<1>4. a.wrote \subseteq job
  BY DEF Answers
<1>5. DataInv'
  BY <1>1, <1>2, <1>3, <1>4 DEF DataInv
<1>6. PickInv'
  <2>1. reads' \subseteq FileReads(Logged) /\ (reads' = reads \/ serial # 0)
    <3>1. CASE reads' = reads
      BY <1>2, <3>1 DEF PickInv
    <3>2. CASE /\ handle # NoFile
               /\ reads' = reads \cup {Read("stale-job", Now(handle), serial)}
      <4>1. handle \in Files /\ serial # 0 /\ serial \in 1..Picks
        BY <1>2, <3>2, ReaderAssumption DEF PickInv, ReaderAssumption
      <4>2. Now(handle) \in Logged
        BY <1>2, <4>1, NowLogged
      <4>3. Read("stale-job", Now(handle), serial) \in FileReads(Logged)
        BY <4>1, <4>2 DEF Read, FileReads, Reasons
      <4> QED BY <1>2, <3>2, <4>1, <4>3 DEF PickInv
    <3> QED BY <1>3, <3>1, <3>2
  <2> QED BY <1>1, <1>2, <1>3, <2>1 DEF PickInv
<1>7. SendInv'
  BY <1>1, <1>2, IdleSend
<1>8. ClickInv'
  <2>1. unsettled' => pendingJob'
    BY <1>2, <1>3 DEF ClickInv, EndsJob
  <2>2. deltas' # {} => Clears(rendered) \ roster' \subseteq deltas'
    BY <1>2, <1>3 DEF ClickInv
  <2>3. Clears(rendered)' = Clears(rendered)
    BY <1>1 DEF Clears
  <2>4. run' # NoRun => run'.base \subseteq roster'
    BY <1>1, <1>2, <1>3 DEF ClickInv
  <2> QED BY <1>1, <2>1, <2>2, <2>3, <2>4 DEF ClickInv, NoSend
<1> QED BY <1>2, <1>5, <1>6, <1>7, <1>8 DEF PageInv

LEMMA PageStep ==
  ASSUME PageInv, Next
  PROVE  PageInv'
<1>1. CASE \E f \in Files : LogClear(f) \/ Pick(f)
  BY <1>1, LogClearStep, PickStep
<1>2. CASE RefreshStep
  BY <1>2, RefreshAbortsStep, ScannedStep, RefreshFailsStep, FileChangedStep,
     RosterFailedStep, CommitPreviewStep DEF RefreshStep
<1>3. CASE Opened \/ WatchStep \/ Confirmed \/ ConfirmFails
  BY <1>3, OpenedStep, WatchSteps, ConfirmedStep
<1>4. CASE TimerFires \/ ReadStep
  BY <1>4, TimerFiresStep, RetryReadStep, StaleJobReadStep DEF ReadStep
<1>5. CASE Click \/ ClickStep
  BY <1>5, ClickStarts, ClickProbesStep, ClickProbedStep, ClickSettlesStep,
     ClickRefreshedStep, ClickCheckedStep, ClickFailsStep, CreatedStep,
     AppliedStep DEF ClickStep
<1> QED BY <1>1, <1>2, <1>3, <1>4, <1>5 DEF Next

LEMMA PageStutters ==
  ASSUME PageInv, UNCHANGED vars
  PROVE  PageInv'
BY PageKept DEF vars, PageInv, picked, runner

LEMMA PageInit ==
  ASSUME Init
  PROVE  PageInv
<1>1. DataInv
  BY ReaderAssumption DEF Init, DataInv, ReaderAssumption
<1>2. PickInv
  BY ReaderAssumption DEF Init, PickInv, Possible, ReaderAssumption
<1>3. RunInv
  BY DEF Init, RunInv, NoRun
<1>4. WatchInv
  BY DEF Init, WatchInv, NoMonitor, Monitors, Possible
<1>5. SendInv
  BY ReaderAssumption
     DEF Init, SendInv, NoSend, Sends, Possible, NoRun, NoRequest,
         ReaderAssumption
<1>6. ClickInv
  BY DEF Init, ClickInv, NoSend
<1>7. CommitInv
  BY DEF Init, CommitInv
<1> QED BY <1>1, <1>2, <1>3, <1>4, <1>5, <1>6, <1>7 DEF PageInv

\* The types of the page that its runs check.
LEMMA PageTypes ==
  ASSUME PageInv
  PROVE  ReaderTypeOK
<1>1. /\ DataInv /\ PickInv /\ RunInv /\ WatchInv /\ SendInv
  BY DEF PageInv
<1>2. Logged \subseteq Snaps
  BY <1>1, LoggedState
<1>3. Possible(Logged) \subseteq Snaps \cup {NoSnap}
  BY <1>2 DEF Possible
<1>4. Asked(Logged) \subseteq Requests
  BY <1>2, <1>3 DEF Asked, Requests
<1>5. \A f \in Files : Now(f) \in Snaps
  BY <1>1, <1>2, NowLogged
<1>6. {roster, job, deltas} \subseteq SUBSET Snaps
  BY <1>1, <1>2 DEF DataInv
<1>7. run = NoRun \/ run.req \in Requests
  BY <1>1, <1>4 DEF RunInv, Refreshes
<1>8. next \in Requests \cup {NoRequest}
  BY <1>1, <1>4 DEF RunInv
<1> QED BY <1>1, <1>3, <1>5, <1>6, <1>7, <1>8
           DEF ReaderTypeOK, PickInv, RunInv, WatchInv, SendInv

-----------------------------------------------------------------------------
(* What the steps of the page never do.                                    *)

\* A click hands over by posting what is shown, or has no file.
LEMMA HandsOver ==
  ASSUME PageInv, Next, send.pc # "create", send'.pc = "create"
  PROVE  /\ ~unsettled
         /\ send'.f # NoFile => Clears(send'.at) \ roster \subseteq deltas
<1>1. CASE ClickProbed \/ ClickChecked
  <2>1. /\ send.pc \in {"probe", "final"} /\ OnScreen
        /\ deltas # {} /\ send'.at = send.at
    <3>0. send \in Sends(Logged)
      BY DEF PageInv, SendInv
    <3>1. Post /\ send.pc \in {"probe", "final"} /\ OnScreen
      <4>1. send' # NoSend /\ send' # [send EXCEPT !.pc = "settle"]
        BY <3>0 DEF NoSend, Sends
      <4>2. ASSUME TryAgain
            PROVE  FALSE
        <5>1. send' # [NoSend EXCEPT !.pc = "wait", !.sel = send.sel,
                         !.f = send.f, !.at = send.at, !.tries = send.tries + 1]
          BY DEF NoSend
        <5> QED BY <4>1, <4>2, <5>1 DEF TryAgain, Return
      <4> QED BY <1>1, <4>1, <4>2 DEF ClickProbed, ClickChecked
    <3>2. deltas # {}
      BY <3>1, send'.pc = "create" DEF Post, Return, NoSend
    <3> QED BY <3>1, <3>2 DEF Post, NoSend
  <2>2. ~pendingJob /\ ~unsettled
    BY <2>1 DEF PageInv, ClickInv
  <2>3. /\ send.at \in Logged /\ send.prev \in Logged /\ DataInv
        /\ send.prev.f = send.at.f /\ send.at.r <= send.prev.r
    BY <2>1 DEF PageInv, SendInv
  <2>4. rendered = send.prev
    BY <2>1 DEF OnScreen
  <2>5. Clears(send.at) \subseteq Clears(rendered)
    BY <2>3, <2>4, ClearsGrow
  <2>6. Clears(rendered) \ roster \subseteq deltas
    BY <2>1 DEF PageInv, ClickInv
  <2> QED BY <2>1, <2>2, <2>5, <2>6
<1>2. CASE Click
  <2>1. send.pc = "idle" /\ ~pendingJob /\ handle = NoFile /\ send'.f = NoFile
    BY <1>2, send'.pc = "create" DEF Click, NoSend
  <2> QED BY <2>1 DEF PageInv, ClickInv
<1>3. ASSUME ~(ClickProbed \/ ClickChecked), ~Click
      PROVE  FALSE
  <2>1. CASE send' = send
    BY <2>1
  <2>2. ASSUME NEW o, Tell(o)
        PROVE  FALSE
    <3>1. send \in Sends(Logged)
      BY DEF PageInv, SendInv
    <3> QED BY <2>2, <3>1 DEF Tell, Sends
  <2>3. CASE RefreshStep
    BY <2>1, <2>2, <2>3
       DEF RefreshStep, RefreshAborts, Scanned, RefreshFails, FileChanged,
           RosterFailed, CommitPreview, ghosts
  <2>4. CASE \/ ClickProbes \/ ClickSettles \/ ClickRefreshed
             \/ ClickFails \/ Created \/ Applied
    <3>1. send \in Sends(Logged)
      BY DEF PageInv, SendInv
    <3>2. ~Return /\ ~ShowError /\ send' # NoSend
      BY DEF Return, ShowError, NoSend
    <3>3. CASE ClickSettles
      <4>1. /\ send' # [send EXCEPT !.pc = "refresh", !.out = "superseded"]
            /\ send' # [send EXCEPT !.prev = Now(send.f)]
        BY <3>1 DEF Sends
      <4> QED BY <3>2, <3>3, <4>1 DEF ClickSettles
    <3>4. CASE ClickProbes
      <4>1. send' # [send EXCEPT !.pc = "probe", !.prev = Now(handle)]
        BY <3>1 DEF Sends
      <4> QED BY <3>2, <3>4, <4>1 DEF ClickProbes
    <3>5. CASE ClickRefreshed
      <4>1. send' # [send EXCEPT !.pc = "final", !.prev = Now(send.f)]
        BY <3>1 DEF Sends
      <4>2. send' # [NoSend EXCEPT !.pc = "wait", !.sel = send.sel,
                       !.f = send.f, !.at = send.at, !.tries = send.tries + 1]
        BY DEF NoSend
      <4> QED BY <3>2, <3>5, <4>1, <4>2 DEF ClickRefreshed, TryAgain
    <3> QED BY <2>4, <3>2, <3>3, <3>4, <3>5 DEF ClickFails, Created, Applied
  <2>5. CASE ~(RefreshStep \/ ClickProbes \/ ClickSettles \/ ClickRefreshed
               \/ ClickFails \/ Created \/ Applied)
    <3>1. send' = send
      BY <1>3, <2>5
         DEF Next, ClickStep, LogClear, Pick, Opened, WatchStep, Probe,
             Probed, SettleFires, Confirmed, ConfirmFails, TimerFires, ReadStep,
             RetryRead, StaleJobRead
    <3> QED BY <2>1, <3>1
  <2> QED BY <2>3, <2>4, <2>5
<1> QED BY <1>1, <1>2, <1>3

\* Only a commit shows another state, and it is not older.
LEMMA ShowsNewer ==
  ASSUME PageInv, Next, rendered'.f = rendered.f, handle # NoFile
  PROVE  rendered'.r >= rendered.r
<1>1. DataInv /\ PickInv
  BY DEF PageInv
<1>2. rendered.r \in Nat
  <2>1. CASE rendered = NoSnap
    BY <2>1 DEF NoSnap
  <2>2. CASE rendered \in Logged
    <3>1. rendered.f \in Files /\ rendered.r \in 1..disk[rendered.f]
      BY <1>1, <2>2, LoggedState
    <3> QED BY <1>1, <3>1 DEF DataInv
  <2> QED BY <1>1, <2>1, <2>2 DEF PickInv, Possible
<1>3. CASE CommitPreview
  <2>1. /\ run.pc = "commit" /\ run.cur /\ rendered' = run.seen
    BY <1>3 DEF CommitPreview, Superseded
  <2>2. rendered.r <= run.seen.r
    BY <2>1 DEF PageInv, CommitInv
  <2>3. run.seen.r \in Nat
    <3>1. run.seen \in Logged
      BY <2>1 DEF PageInv, RunInv
    <3>2. run.seen.f \in Files /\ run.seen.r \in 1..disk[run.seen.f]
      BY <1>1, <3>1, LoggedState
    <3> QED BY <1>1, <3>2 DEF DataInv
  <2> QED BY <1>2, <2>1, <2>2, <2>3
<1>4. CASE \E f \in Files : Pick(f)
  <2>1. rendered' = NoSnap
    BY <1>4 DEF Pick
  <2>2. rendered.f = NoFile
    BY <2>1 DEF NoSnap
  <2>3. rendered = NoSnap
    <3>1. ASSUME rendered \in Logged
          PROVE  FALSE
      <4>1. rendered.f \in Files
        BY <1>1, <3>1, LoggedState
      <4> QED BY <2>2, <4>1, ReaderAssumption DEF ReaderAssumption
    <3> QED BY <1>1, <3>1 DEF PickInv, Possible
  <2> QED BY <2>1, <2>3 DEF NoSnap
<1>5. CASE ~CommitPreview /\ ~(\E f \in Files : Pick(f))
  <2>1. rendered' = rendered
    BY <1>5
       DEF Next, RefreshStep, RefreshAborts, Scanned, RefreshFails,
           FileChanged, RosterFailed, ClickStep, LogClear, Opened, WatchStep,
           Probe, Probed, SettleFires, Confirmed, ConfirmFails, TimerFires,
           ReadStep, RetryRead, StaleJobRead, Click, ClickProbes, ClickProbed,
           ClickSettles, ClickRefreshed, ClickChecked, ClickFails, Created,
           Applied, shown
  <2> QED BY <1>2, <2>1
<1> QED BY <1>3, <1>4, <1>5

-----------------------------------------------------------------------------
(* What stays of the card.                                                 *)

LEMMA CardMonotone ==
  ASSUME NEW n \in Nat, NEW m \in Nat, NEW k \in Nat, NEW l \in Nat,
         n <= m, k <= l
  PROVE  /\ Cards(n, k) \subseteq Cards(m, l)
         /\ Draws(n, k) \subseteq Draws(m, l)
         /\ Reloads(n) \subseteq Reloads(m) /\ Behinds(n) \subseteq Behinds(m)
         /\ Sessions(n, k) \subseteq Sessions(m, l)
         /\ 0..n \subseteq 0..m /\ 0..k \subseteq 0..l
<1>1. 0..n \subseteq 0..m /\ 0..k \subseteq 0..l
  OBVIOUS
<1>2. Cards(n, k) \subseteq Cards(m, l)
  <2>1. Faces(n, k) \subseteq Faces(m, l)
    BY <1>1 DEF Faces
  <2> QED BY <2>1 DEF Cards
<1>3. Draws(n, k) \subseteq Draws(m, l)
  BY <1>2 DEF Draws
<1>4. Reloads(n) \subseteq Reloads(m)
  BY <1>1 DEF Reloads
<1>5. Behinds(n) \subseteq Behinds(m)
  BY <1>1 DEF Behinds
<1>6. Sessions(n, k) \subseteq Sessions(m, l)
  BY <1>1 DEF Sessions
<1> QED BY <1>1, <1>2, <1>3, <1>4, <1>5, <1>6

\* Counts grow, and what is left alone stays as it was.
LEMMA CardKept ==
  ASSUME CardInv, mine' \in Nat, mine <= mine', jobs' \in Nat, jobs <= jobs'
  PROVE  /\ UNCHANGED <<phase, session, message>> /\ used' \in Nat
           /\ ownJob' \in Nat /\ news' \subseteq Nat => CountInv'
         /\ UNCHANGED <<labels, queue, behind>> => QueueInv'
         /\ UNCHANGED click => ClicksInv'
         /\ UNCHANGED <<session, reload>> => ReloadInv'
         /\ UNCHANGED <<phase, message, draw>> => DrawInv'
         /\ UNCHANGED <<session, message, draw>>
           /\ ("backwards" \in excuse => "backwards" \in excuse') => AgeInv'
<1>1. mine \in Nat /\ jobs \in Nat
  BY DEF CardInv, CountInv
<1>2. /\ Cards(mine, jobs) \subseteq Cards(mine', jobs')
      /\ Draws(mine, jobs) \subseteq Draws(mine', jobs')
      /\ Reloads(mine) \subseteq Reloads(mine')
      /\ Behinds(mine) \subseteq Behinds(mine')
      /\ Sessions(mine, jobs) \subseteq Sessions(mine', jobs')
      /\ 0..mine \subseteq 0..mine' /\ 0..jobs \subseteq 0..jobs'
  BY <1>1, CardMonotone
<1>3. UNCHANGED <<phase, session, message>> /\ used' \in Nat
        /\ ownJob' \in Nat /\ news' \subseteq Nat => CountInv'
  BY <1>2 DEF CardInv, CountInv
<1>4. UNCHANGED <<labels, queue, behind>> => QueueInv'
  BY <1>2 DEF CardInv, QueueInv
<1>5. UNCHANGED click => ClicksInv'
  <2>1. ASSUME UNCHANGED click, NEW c \in Clicks, click[c].pc = "saved",
               click[c].kind = "save"
        PROVE  click[c].rev <= mine'
    <3>1. click[c].rev <= mine /\ click[c] \in CardClicks
      BY <2>1 DEF CardInv, ClicksInv
    <3>2. click[c].rev \in Nat
      BY <2>1, <3>1 DEF CardClicks, BusyClicks, NoClick, Handled
    <3> QED BY <1>1, <3>1, <3>2
  <2> QED BY <2>1 DEF CardInv, ClicksInv
<1>6. UNCHANGED <<session, reload>> => ReloadInv'
  BY <1>2 DEF CardInv, ReloadInv
<1>7. UNCHANGED <<phase, message, draw>> => DrawInv'
  BY <1>2 DEF CardInv, DrawInv
<1>8. UNCHANGED <<session, message, draw>>
        /\ ("backwards" \in excuse => "backwards" \in excuse') => AgeInv'
  BY DEF CardInv, AgeInv
<1> QED BY <1>3, <1>4, <1>5, <1>6, <1>7, <1>8

\* The same for a step that writes nothing.
LEMMA CardStays ==
  ASSUME CardInv, UNCHANGED <<mine, jobs>>
  PROVE  /\ UNCHANGED <<phase, session, message>> /\ used' \in Nat
           /\ ownJob' \in Nat /\ news' \subseteq Nat => CountInv'
         /\ UNCHANGED <<labels, queue, behind>> => QueueInv'
         /\ UNCHANGED click => ClicksInv'
         /\ UNCHANGED <<session, reload>> => ReloadInv'
         /\ UNCHANGED <<phase, message, draw>> => DrawInv'
         /\ UNCHANGED <<session, message, draw>>
           /\ ("backwards" \in excuse => "backwards" \in excuse') => AgeInv'
<1>1. mine \in Nat /\ jobs \in Nat
  BY DEF CardInv, CountInv
<1>2. mine' \in Nat /\ mine <= mine' /\ jobs' \in Nat /\ jobs <= jobs'
  BY <1>1
<1> QED BY <1>2, CardKept

-----------------------------------------------------------------------------
(* Reloads, redraws and the queue.                                         *)

LEMMA Counts ==
  ASSUME CountInv
  PROVE  /\ mine \in Nat /\ jobs \in Nat
         /\ session.own \in Nat /\ session.own <= mine
         /\ session.snap \in Nat /\ session.snap <= jobs
         /\ message.face.own \in Nat
<1>1. mine \in Nat /\ jobs \in Nat
  BY DEF CountInv
<1>2. session.own \in 0..mine /\ session.snap \in 0..jobs
  BY DEF CountInv, Sessions
<1>3. message.face.own \in 0..mine
  BY DEF CountInv, Cards, Faces
<1> QED BY <1>1, <1>2, <1>3

ReadingsOf(n) == [st : {"reading"}, latest : BOOLEAN, given : BOOLEAN, own : 0..n]

LEMMA Readings ==
  ASSUME mine \in Nat
  PROVE  /\ Reading \in ReadingsOf(mine) /\ Reading.own = mine
         /\ \A v \in 0..mine : Given(v) \in ReadingsOf(mine) /\ Given(v).given
         /\ \A r : r = [Reading EXCEPT !.latest = FALSE, !.own = 0] =>
                     r \in ReadingsOf(mine) /\ ~r.latest
<1>1. Reading \in ReadingsOf(mine) /\ Reading.own = mine
  BY DEF Reading, ReadingsOf
<1>2. \A v \in 0..mine : Given(v) \in ReadingsOf(mine) /\ Given(v).given
  BY <1>1 DEF Given, ReadingsOf
<1>3. ASSUME NEW r, r = [Reading EXCEPT !.latest = FALSE, !.own = 0]
      PROVE  r \in ReadingsOf(mine) /\ ~r.latest
  <2>1. 0 \in 0..mine
    OBVIOUS
  <2> QED BY <1>1, <1>3, <2>1 DEF ReadingsOf
<1> QED BY <1>1, <1>2, <1>3

\* A reload that begins is the only latest one.
LEMMA Begun ==
  ASSUME CountInv, ReloadInv, NEW c \in Callers, NEW r, Ask(c, r),
         r = Reading \/ \E v \in 0..mine : r = Given(v),
         UNCHANGED <<mine, session>>
  PROVE  ReloadInv'
<1>1. mine \in Nat /\ session.own \in 0..mine
  BY DEF CountInv, Sessions
<1>2. r \in ReadingsOf(mine) /\ (r.given \/ r.own = mine)
  BY <1>1, Readings
<1>3. PICK o : o = [Reading EXCEPT !.latest = FALSE, !.own = 0]
  OBVIOUS
<1>4. o \in ReadingsOf(mine) /\ ~o.latest
  BY <1>1, <1>3, Readings
<1>5. reload' = [x \in Callers |-> IF x = c THEN r
                   ELSE IF reload[x].st = "off" THEN NoRead
                   ELSE IF reload[x].st = "failed" THEN reload[x] ELSE o]
  BY <1>3 DEF Ask
<1>6. ReadingsOf(mine) \subseteq Reloads(mine)
  BY DEF ReadingsOf, Reloads
<1>7. \A x \in Callers :
        reload[x].st = "failed" => reload[x] \in Reloads(mine) /\ ~reload[x].latest
  BY DEF ReloadInv
<1>8. NoRead \in Reloads(mine) /\ NoRead.st = "off"
  BY DEF Reloads, NoRead
<1>9. ASSUME NEW x \in Callers
      PROVE  /\ reload'[x] \in Reloads(mine)
             /\ x # c => reload'[x].st = "off" \/ ~reload'[x].latest
  BY <1>2, <1>4, <1>5, <1>6, <1>7, <1>8
<1>10. reload'[c] = r
  BY <1>5
<1>11. reload' \in [Callers -> Reloads(mine')]
  BY <1>5, <1>9
<1>12. session'.own <= mine
  <2>1. session.own <= mine
    BY <1>1
  <2> QED BY <2>1
<1>13. \A x \in Callers : reload'[x].st = "failed" => ~reload'[x].latest
  <2>1. r.st = "reading" /\ NoRead.st = "off"
    BY <1>2 DEF ReadingsOf, NoRead
  <2> QED BY <1>9, <1>10, <2>1
<1>14. ASSUME NEW x \in Callers, reload'[x].st = "reading", reload'[x].latest,
              ~reload'[x].given
       PROVE  session'.own <= reload'[x].own
  <2>1. x = c /\ reload'[x].own = mine
    BY <1>2, <1>9, <1>10, <1>14
  <2> QED BY <1>12, <2>1
<1> QED BY <1>9, <1>11, <1>13, <1>14 DEF ReloadInv

\* A card drawn from the session is the newest.
LEMMA Redrawn ==
  ASSUME CountInv, DrawInv, AgeInv, CountInv',
         NEW c \in Callers, c # "end", Redraw(c, session'),
         UNCHANGED <<phase, message, mine, jobs>>, session'.own = session.own,
         "backwards" \in excuse => "backwards" \in excuse'
  PROVE  DrawInv' /\ AgeInv'
<1>1. CASE Ended
  BY <1>1 DEF Redraw, DrawInv, AgeInv
<1>2. CASE ~Ended
  <2>0. PICK card : card = Live(session')
    OBVIOUS
  <2>1. card \in Cards(mine, jobs) /\ ~card.expired /\ card.face.own = session.own
    BY <2>0 DEF CountInv, Live, Face, Cards, Faces, Sessions
  <2>2. draw' = [x \in Callers |->
                   IF x = c THEN [st |-> "building", card |-> card]
                   ELSE IF draw[x].st \in Dropped THEN NoDraw ELSE draw[x]]
    BY <1>2, <2>0 DEF Redraw, Replaced
  <2>3. phase # "over" /\ "end" \in Callers
    BY <1>2 DEF Ended, Callers
  <2>4. \A x \in Callers : draw[x] \in Draws(mine, jobs)
    BY DEF DrawInv
  <2>5. draw' \in [Callers -> Draws(mine', jobs')]
    <3>1. [st |-> "building", card |-> card] \in Draws(mine, jobs)
      BY <2>1 DEF Draws
    <3> QED BY <2>2, <2>4, <3>1 DEF Draws
  <2>6. \A x \in Callers :
          /\ x # c => draw'[x] = NoDraw
                      \/ (draw'[x] = draw[x] /\ draw[x].st \notin Dropped)
          /\ x = c => draw'[x] = [st |-> "building", card |-> card]
    BY <2>2
  <2>7. NoDraw.st = "off"
    BY DEF NoDraw
  <2>10. /\ draw'[c].st = "building" /\ draw'[c].card = card
         /\ \A x \in Callers : x # c => draw'[x].st = "off"
                                \/ (draw'[x] = draw[x] /\ draw'[x].st \notin Dropped)
    <3>1. draw'[c].st = "building" /\ draw'[c].card = card
      <4>1. PICK d : d = [st |-> "building", card |-> card]
        OBVIOUS
      <4>2. d.st = "building" /\ d.card = card
        BY <4>1
      <4>3. draw'[c] = d
        BY <2>6, <4>1
      <4> QED BY <4>2, <4>3
    <3>2. ASSUME NEW x \in Callers, x # c
          PROVE  draw'[x].st = "off"
                 \/ (draw'[x] = draw[x] /\ draw'[x].st \notin Dropped)
      BY <2>6, <2>7, <3>2
    <3> QED BY <3>1, <3>2
  <2>8. DrawInv'
    <3>2. \A x, y \in Callers :
            /\ draw'[x].st \in Dropped /\ draw'[y].st \in Dropped => x = y
            /\ draw'[x].st = "sent" /\ draw'[y].st = "sent" => x = y
      BY <2>10 DEF DrawInv, Dropped
    <3>3. \A x \in Callers :
            draw'[x].st # "off" => (draw'[x].card.expired <=> x = "end")
      BY <2>1, <2>10 DEF DrawInv
    <3>4. draw'["end"].st = "off" /\ ~message.expired
      BY <2>3, <2>10 DEF DrawInv
    <3> QED BY <2>3, <2>5, <3>2, <3>3, <3>4 DEF DrawInv
  <2>9. AgeInv'
    <3>1. SUFFICES ASSUME "backwards" \notin excuse
                   PROVE  AgeInv'
      BY DEF AgeInv
    <3>2. message.face.own <= session.own
      BY <3>1 DEF AgeInv
    <3>3. session.own \in Nat /\ message.face.own \in Nat
      BY Counts
    <3>5. ASSUME NEW x \in Callers, draw'[x].st # "off"
          PROVE  /\ message.face.own <= draw'[x].card.face.own
                 /\ draw'[x].card.face.own <= session.own
      <4>1. CASE x = c
        <5>1. draw'[x].card = card
          BY <2>10, <4>1
        <5>2. draw'[x].card.face.own = session.own
          BY <2>1, <5>1
        <5>3. session.own <= session.own
          BY <3>3
        <5> QED BY <3>2, <5>2, <5>3
      <4>2. CASE x # c
        BY <2>10, <3>1, <3>5, <4>2 DEF AgeInv
      <4> QED BY <4>1, <4>2
    <3>6. ASSUME NEW x \in Callers, NEW y \in Callers,
                 draw'[x].st = "sent", draw'[y].st \in Dropped
          PROVE  draw'[x].card.face.own <= draw'[y].card.face.own
      <4>1. y = c /\ x # c /\ draw'[x] = draw[x]
        BY <2>10, <3>6 DEF Dropped
      <4>2. draw'[x].card.face.own <= session.own
        BY <3>5, <3>6
      <4> QED BY <2>1, <2>10, <4>1, <4>2
    <3> QED BY <3>2, <3>5, <3>6 DEF AgeInv
  <2> QED BY <2>8, <2>9
<1> QED BY <1>1, <1>2

\* A request finds or begins a drain.
LEMMA RequestedKeeps ==
  ASSUME QueueInv, NEW l \in Labels, Requested(l), behind' \in Behinds(mine')
  PROVE  QueueInv'
<1>1. labels' = labels \cup {l}
      /\ queue' = IF queue.pc = "idle" THEN [pc |-> "due"] ELSE queue
  BY DEF Requested
<1>2. queue' \in Queues /\ queue'.pc # "idle"
  BY <1>1 DEF QueueInv, Queues
<1> QED BY <1>1, <1>2 DEF QueueInv

LEMMA CallersAre ==
  /\ {"queue", "open", "end"} \subseteq Callers /\ Clicks \subseteq Callers
  /\ \A c \in Clicks : c # "end"
BY CardAssumption DEF Callers, CardAssumption

\* The session takes a revision of the document, or the view of a preview.
LEMMA SessionMoves ==
  ASSUME CountInv, UNCHANGED <<mine, jobs>>
  PROVE  /\ \A v \in 0..mine :
              session' = [session EXCEPT !.own = v, !.seed = FALSE] =>
                session' \in Sessions(mine', jobs') /\ session'.own = v
         /\ \A v \in 0..jobs, w \in {"raid", "sync"} :
              session' = [session EXCEPT !.snap = v, !.view = w] =>
                session' \in Sessions(mine', jobs') /\ session'.own = session.own
         /\ \A v \in 0..jobs :
              session' = [session EXCEPT !.snap = v] =>
                session' \in Sessions(mine', jobs') /\ session'.own = session.own
         /\ session' = [session EXCEPT !.view = "raid"] =>
              session' \in Sessions(mine', jobs') /\ session'.own = session.own
<1>1. session \in Sessions(mine, jobs)
  BY DEF CountInv
<1>2. ASSUME NEW v \in 0..mine, session' = [session EXCEPT !.own = v, !.seed = FALSE]
      PROVE  session' \in Sessions(mine', jobs') /\ session'.own = v
  BY <1>1, <1>2 DEF Sessions
<1>3. ASSUME NEW v \in 0..jobs, NEW w \in {"raid", "sync"},
             session' = [session EXCEPT !.snap = v, !.view = w]
      PROVE  session' \in Sessions(mine', jobs') /\ session'.own = session.own
  BY <1>1, <1>3 DEF Sessions
<1>4. ASSUME NEW v \in 0..jobs, session' = [session EXCEPT !.snap = v]
      PROVE  session' \in Sessions(mine', jobs') /\ session'.own = session.own
  BY <1>1, <1>4 DEF Sessions
<1>5. ASSUME session' = [session EXCEPT !.view = "raid"]
      PROVE  session' \in Sessions(mine', jobs') /\ session'.own = session.own
  BY <1>1, <1>5 DEF Sessions
<1> QED BY <1>2, <1>3, <1>4, <1>5

\* A click goes on.
LEMMA ClickMoves ==
  ASSUME ClicksInv, NEW c \in Clicks, NEW to \in CardClicks,
         click' = [click EXCEPT ![c] = to],
         mine \in Nat, mine' \in Nat, mine <= mine',
         to.pc = "saved" /\ to.kind = "save" => to.rev <= mine'
  PROVE  ClicksInv'
<1>1. click' \in [Clicks -> CardClicks]
  BY DEF ClicksInv
<1>2. ASSUME NEW d \in Clicks, click'[d].pc = "saved", click'[d].kind = "save"
      PROVE  click'[d].rev <= mine'
  <2>1. CASE d = c
    BY <1>2, <2>1 DEF ClicksInv
  <2>2. CASE d # c
    <3>1. click'[d] = click[d] /\ click[d].rev <= mine
      BY <1>2, <2>2 DEF ClicksInv
    <3>2. click[d] \in BusyClicks
      BY <1>2, <3>1 DEF ClicksInv, CardClicks, NoClick, Handled
    <3>3. click[d].rev \in Nat
      BY <3>2 DEF BusyClicks
    <3> QED BY <3>1, <3>3
  <2> QED BY <2>1, <2>2
<1> QED BY <1>1, <1>2 DEF ClicksInv

\* A click at work, and what it may become.
LEMMA ClickBusy ==
  ASSUME ClicksInv, NEW c \in Clicks,
         click[c].pc \in {"defer", "fresh", "saved", "reload", "preview"}
  PROVE  click[c] \in BusyClicks
BY DEF ClicksInv, CardClicks, NoClick, Handled

LEMMA HandledClick == Handled \in CardClicks /\ Handled.pc = "done"
BY DEF Handled, CardClicks

\* A reload whose caller has gone on.
LEMMA Dismissed ==
  ASSUME ReloadInv, NEW c \in Callers, UNCHANGED <<mine, session>>,
         reload' = reload \/ reload' = [reload EXCEPT ![c] = NoRead]
  PROVE  ReloadInv'
<1>1. CASE reload' = reload
  BY <1>1 DEF ReloadInv
<1>2. CASE reload' = [reload EXCEPT ![c] = NoRead]
  <2>1. NoRead \in Reloads(mine) /\ NoRead.st = "off"
    BY DEF Reloads, NoRead
  <2>2. /\ reload' \in [Callers -> Reloads(mine)] /\ reload'[c].st = "off"
        /\ \A d \in Callers : d # c => reload'[d] = reload[d]
    BY <1>2, <2>1 DEF ReloadInv
  <2> QED BY <2>2 DEF ReloadInv
<1> QED BY <1>1, <1>2

-----------------------------------------------------------------------------
(* The steps of the card: reloads and redraws.                             *)

\* A reload that is taken brings what the session lacks, unless it was given.
LEMMA LoadedStep ==
  ASSUME CardInv, NEW c \in Callers, Loaded(c)
  PROVE  CardInv'
<1>1. /\ reload[c].st = "reading"
      /\ reload' = [reload EXCEPT ![c] = NoRead]
      /\ excuse' = excuse \cup WentBack(reload[c])
      /\ UNCHANGED <<phase, mine, jobs, news, ownJob, labels, queue, behind,
                     click, draw, message, used>>
  BY DEF Loaded, around, refresher
<1>2. /\ CountInv /\ ReloadInv /\ DrawInv /\ AgeInv
      /\ QueueInv' /\ ClicksInv' /\ DrawInv'
  BY <1>1, CardStays DEF CardInv
<1>3. /\ mine \in Nat /\ session.own \in Nat /\ session.own <= mine
      /\ message.face.own \in Nat
  BY <1>2, Counts
<1>4. /\ reload' \in [Callers -> Reloads(mine')] /\ reload'[c].st = "off"
      /\ \A d \in Callers : d # c => reload'[d] = reload[d]
  <2>1. NoRead \in Reloads(mine) /\ NoRead.st = "off"
    BY DEF Reloads, NoRead
  <2> QED BY <1>1, <1>2, <2>1 DEF ReloadInv
<1>5. CASE ~Takes(reload[c])
  <2>1. UNCHANGED session
    BY <1>5 DEF Loaded
  <2>2. CountInv'
    BY <1>1, <1>2, <2>1 DEF CountInv
  <2>3. ReloadInv'
    BY <1>2, <1>4, <2>1 DEF ReloadInv
  <2>4. AgeInv'
    BY <1>1, <1>2, <2>1 DEF AgeInv
  <2> QED BY <1>2, <2>2, <2>3, <2>4 DEF CardInv
<1>6. CASE Takes(reload[c])
  <2>1. PICK v \in Own(reload[c]) :
          session' = [session EXCEPT !.own = v, !.seed = FALSE]
    BY <1>6 DEF Loaded
  <2>2. reload[c] \in ReadingsOf(mine) /\ reload[c].latest
    BY <1>1, <1>2, <1>6 DEF ReloadInv, Reloads, ReadingsOf, NoRead, Takes
  <2>3. v \in 0..mine /\ reload[c].own \in 0..mine
    BY <1>3, <2>1, <2>2 DEF Own, ReadingsOf
  <2>4. session' \in Sessions(mine', jobs') /\ session'.own = v
    BY <1>1, <1>2, <2>1, <2>3, SessionMoves
  <2>5. "backwards" \notin excuse' => session.own <= v /\ "backwards" \notin excuse
    <3>1. CASE reload[c].given
      <4>1. v = reload[c].own
        BY <2>1, <3>1 DEF Own
      <4>2. "backwards" \notin excuse' => ~(reload[c].own < session.own)
        BY <1>1, <1>6, <3>1 DEF WentBack
      <4> QED BY <1>1, <1>3, <2>3, <4>1, <4>2
    <3>2. CASE ~reload[c].given
      <4>1. session.own <= reload[c].own
        BY <1>1, <1>2, <2>2, <3>2 DEF ReloadInv
      <4>2. v \in reload[c].own..mine
        BY <2>1, <3>2 DEF Own
      <4> QED BY <1>1, <1>3, <2>3, <4>1, <4>2
    <3> QED BY <3>1, <3>2
  <2>6. CountInv'
    BY <1>1, <1>2, <2>4 DEF CountInv
  <2>7. ReloadInv'
    <3>1. \A d \in Callers : d # c /\ reload[d].st # "off" => ~reload[d].latest
      BY <1>1, <1>2, <2>2 DEF ReloadInv
    <3> QED BY <1>2, <1>4, <3>1 DEF ReloadInv
  <2>8. AgeInv'
    <3>1. SUFFICES ASSUME "backwards" \notin excuse'
                   PROVE  AgeInv'
      BY DEF AgeInv
    <3>2. session.own <= v /\ "backwards" \notin excuse
      BY <2>5, <3>1
    <3>3. ASSUME NEW d \in Callers, draw[d].st # "off"
          PROVE  draw[d].card.face.own <= v
      <4>1. draw[d].card.face.own <= session.own
        BY <1>2, <3>2, <3>3 DEF AgeInv
      <4>2. draw[d].card.face.own \in 0..mine
        BY <1>2, <3>3 DEF DrawInv, Draws, Cards, Faces, NoDraw
      <4> QED BY <1>3, <2>3, <3>2, <4>1, <4>2
    <3>4. message.face.own <= v
      <4>1. message.face.own <= session.own
        BY <1>2, <3>2 DEF AgeInv
      <4> QED BY <1>3, <2>3, <3>2, <4>1
    <3> QED BY <1>1, <1>2, <2>4, <3>2, <3>3, <3>4 DEF AgeInv
  <2> QED BY <1>2, <2>6, <2>7, <2>8 DEF CardInv
<1> QED BY <1>5, <1>6

LEMMA UnreadStep ==
  ASSUME CardInv, NEW c \in Callers, Unread(c)
  PROVE  CardInv'
<1>1. /\ UNCHANGED <<phase, mine, jobs, news, session, ownJob, labels, queue,
                     behind, click, draw, message>>
      /\ used' = used + 1
      /\ "backwards" \in excuse => "backwards" \in excuse'
      /\ reload' = [reload EXCEPT ![c] =
                      IF Shareable(c) THEN NoRead
                      ELSE [st |-> "failed", latest |-> FALSE]]
  BY DEF Unread, around, refresher, CallFails, Use
<1>2. PICK r : r = IF Shareable(c) THEN NoRead
                   ELSE [st |-> "failed", latest |-> FALSE]
  OBVIOUS
<1>3. /\ r \in Reloads(mine)
      /\ r.st # "off" => r.st = "failed" /\ ~r.latest
  BY <1>2 DEF Reloads, NoRead
<1>4. ReloadInv'
  <2>1. /\ reload' \in [Callers -> Reloads(mine)] /\ reload'[c] = r
        /\ \A d \in Callers : d # c => reload'[d] = reload[d]
    BY <1>1, <1>2, <1>3 DEF CardInv, ReloadInv
  <2> QED BY <1>1, <1>3, <2>1 DEF CardInv, ReloadInv
<1>5. used' \in Nat /\ ownJob' \in Nat /\ news' \subseteq Nat
  BY <1>1 DEF CardInv, CountInv
<1> QED BY <1>1, <1>4, <1>5, CardStays DEF CardInv

LEMMA BuiltStep ==
  ASSUME CardInv, NEW c \in Callers, Built(c)
  PROVE  CardInv'
<1>1. /\ draw[c].st = "building" /\ draw' = [draw EXCEPT ![c] = Write(@)]
      /\ UNCHANGED <<phase, mine, jobs, news, session, ownJob, labels, queue,
                     behind, click, reload, message, used, excuse>>
  BY DEF Built, around, refresher, cardGhosts
<1>2. CountInv' /\ QueueInv' /\ ClicksInv' /\ ReloadInv' /\ DrawInv /\ AgeInv
  <2>1. used' \in Nat /\ ownJob' \in Nat /\ news' \subseteq Nat
    BY <1>1 DEF CardInv, CountInv
  <2> QED BY <1>1, <2>1, CardStays DEF CardInv
<1>3. PICK d : d = [draw[c] EXCEPT !.st = IF Idle THEN "sent" ELSE "waiting"]
  OBVIOUS
<1>4. /\ draw' \in [Callers -> Draws(mine, jobs)] /\ draw'[c] = d
      /\ \A x \in Callers : x # c => draw'[x] = draw[x]
      /\ d.st = (IF Idle THEN "sent" ELSE "waiting") /\ d.card = draw[c].card
  <2>1. draw[c] \in [st : {"building", "waiting", "sent"}, card : Cards(mine, jobs)]
    BY <1>1, <1>2 DEF DrawInv, Draws, NoDraw
  <2>2. /\ d \in [st : {"building", "waiting", "sent"}, card : Cards(mine, jobs)]
        /\ d.st = (IF Idle THEN "sent" ELSE "waiting") /\ d.card = draw[c].card
    BY <1>3, <2>1
  <2>3. d \in Draws(mine, jobs)
    BY <2>2 DEF Draws
  <2> QED BY <1>1, <1>2, <1>3, <2>2, <2>3 DEF DrawInv, Write
<1>5. phase # "over"
  BY <1>1, <1>2 DEF DrawInv, Dropped
<1>6. d.st = "sent" => \A x \in Callers : draw[x].st # "sent"
  BY <1>4 DEF Idle
<1>7. \A x \in Callers : x # c => draw[x].st \notin Dropped
  BY <1>1, <1>2 DEF DrawInv, Dropped
<1>8. DrawInv'
  <2>1. \A x, y \in Callers :
          /\ draw'[x].st \in Dropped /\ draw'[y].st \in Dropped => x = y
          /\ draw'[x].st = "sent" /\ draw'[y].st = "sent" => x = y
    BY <1>2, <1>4, <1>6, <1>7 DEF DrawInv
  <2>2. \A x \in Callers :
          draw'[x].st # "off" => (draw'[x].card.expired <=> x = "end")
    BY <1>1, <1>2, <1>4 DEF DrawInv
  <2>3. draw'["end"].st = "off" /\ ~message.expired
    <3>1. "end" \in Callers /\ draw["end"].st = "off" /\ ~message.expired
      BY <1>2, <1>5, CallersAre DEF DrawInv
    <3> QED BY <1>1, <1>4, <3>1
  <2> QED BY <1>1, <1>4, <1>5, <2>1, <2>2, <2>3 DEF DrawInv
<1>9. AgeInv'
  <2>1. \A x \in Callers : draw'[x].st # "off" =>
                             draw[x].st # "off" /\ draw'[x].card = draw[x].card
    BY <1>1, <1>4
  <2>2. \A x, y \in Callers :
          draw'[x].st = "sent" /\ draw'[y].st \in Dropped =>
            draw[x].st = "sent" /\ draw[y].st \in Dropped
    BY <1>1, <1>4, <1>7 DEF Dropped
  <2>3. \A y \in Callers : draw'[y].st \in Dropped => draw'[y].st # "off"
    BY DEF Dropped
  <2>4. \A x \in Callers : draw'[x].st = "sent" => draw'[x].st # "off"
    OBVIOUS
  <2> QED BY <1>1, <1>2, <2>1, <2>2, <2>3, <2>4 DEF AgeInv
<1> QED BY <1>2, <1>8, <1>9 DEF CardInv

\* The edit that is over was older than the payload that goes out next.
LEMMA EditedStep ==
  ASSUME CardInv, NEW c \in Callers, Edited(c)
  PROVE  CardInv'
<1>1. /\ draw[c].st = "sent"
      /\ draw' = [x \in Callers |->
                    IF x = c THEN NoDraw
                    ELSE IF draw[x].st = "waiting"
                      THEN [draw[x] EXCEPT !.st = "sent"] ELSE draw[x]]
      /\ message' = draw[c].card \/ message' = message
      /\ "backwards" \in excuse => "backwards" \in excuse'
      /\ used' = used \/ used' = used + 1
      /\ UNCHANGED <<phase, mine, jobs, news, session, ownJob, labels, queue,
                     behind, click, reload>>
  BY DEF Edited, around, refresher, CallWorks, CallFails, Use
<1>2. /\ CountInv /\ DrawInv /\ AgeInv
      /\ QueueInv' /\ ClicksInv' /\ ReloadInv'
  BY <1>1, CardStays DEF CardInv
<1>3. draw[c].card \in Cards(mine, jobs)
  BY <1>1, <1>2 DEF DrawInv, Draws, NoDraw
<1>4. CountInv'
  <2>1. used' \in Nat
    BY <1>1, <1>2 DEF CountInv
  <2>2. message' \in Cards(mine, jobs)
    BY <1>1, <1>2, <1>3 DEF CountInv
  <2> QED BY <1>1, <1>2, <2>1, <2>2 DEF CountInv
<1>5. ASSUME NEW x \in Callers
      PROVE  /\ draw'[x] \in Draws(mine, jobs)
             /\ x = c => draw'[x].st = "off"
             /\ x # c =>
                  /\ draw'[x].st = IF draw[x].st = "waiting" THEN "sent"
                                                             ELSE draw[x].st
                  /\ draw[x].st # "off" => draw'[x].card = draw[x].card
  <2>1. CASE x = c
    <3>1. draw'[x] = NoDraw /\ NoDraw.st = "off" /\ NoDraw \in Draws(mine, jobs)
      BY <1>1, <2>1 DEF Draws, NoDraw
    <3> QED BY <2>1, <3>1
  <2>2. CASE x # c /\ draw[x].st = "waiting"
    <3>1. draw[x] \in [st : {"building", "waiting", "sent"},
                       card : Cards(mine, jobs)]
      BY <1>2, <2>2 DEF DrawInv, Draws, NoDraw
    <3>2. draw'[x] = [draw[x] EXCEPT !.st = "sent"]
      BY <1>1, <2>2
    <3>3. /\ draw'[x] \in [st : {"building", "waiting", "sent"},
                            card : Cards(mine, jobs)]
          /\ draw'[x].st = "sent" /\ draw'[x].card = draw[x].card
      BY <3>1, <3>2
    <3>4. draw'[x] \in Draws(mine, jobs)
      BY <3>3 DEF Draws
    <3> QED BY <2>2, <3>3, <3>4
  <2>3. CASE x # c /\ draw[x].st # "waiting"
    <3>1. draw'[x] = draw[x] /\ draw[x] \in Draws(mine, jobs)
      BY <1>1, <1>2, <2>3 DEF DrawInv
    <3> QED BY <2>3, <3>1
  <2> QED BY <2>1, <2>2, <2>3
<1>6. draw' \in [Callers -> Draws(mine', jobs')]
  BY <1>1, <1>5
<1>7. \A x \in Callers : x # c => draw[x].st # "sent"
  BY <1>1, <1>2 DEF DrawInv
<1>8. \A x \in Callers : draw'[x].st \in Dropped => draw[x].st = "building" /\ x # c
  BY <1>5, <1>7 DEF Dropped
<1>9. \A x \in Callers : draw'[x].st = "sent" => draw[x].st = "waiting" /\ x # c
  BY <1>5, <1>7
<1>10. \A x \in Callers : draw'[x].st # "off" =>
         draw[x].st # "off" /\ x # c /\ draw'[x].card = draw[x].card
  BY <1>5
<1>11. DrawInv'
  <2>1. \A x, y \in Callers :
          /\ draw'[x].st \in Dropped /\ draw'[y].st \in Dropped => x = y
          /\ draw'[x].st = "sent" /\ draw'[y].st = "sent" => x = y
    BY <1>2, <1>8, <1>9 DEF DrawInv, Dropped
  <2>2. \A x \in Callers :
          draw'[x].st # "off" => (draw'[x].card.expired <=> x = "end")
    BY <1>2, <1>10 DEF DrawInv
  <2>3. phase # "over" => draw'["end"].st = "off" /\ ~message'.expired
    <3>1. SUFFICES ASSUME phase # "over"
                   PROVE  draw'["end"].st = "off" /\ ~message'.expired
      OBVIOUS
    <3>2. "end" \in Callers /\ draw["end"].st = "off" /\ ~message.expired
      BY <1>2, <3>1, CallersAre DEF DrawInv
    <3>3. ~draw[c].card.expired
      BY <1>1, <1>2, <3>2 DEF DrawInv
    <3> QED BY <1>1, <1>10, <3>2, <3>3
  <2>4. phase = "over" => \A x \in Callers : draw'[x].st \notin Dropped
    <3>1. ASSUME phase = "over", NEW x \in Callers, draw'[x].st \in Dropped
          PROVE  FALSE
      <4>1. draw[x].st = "building"
        BY <1>8, <3>1
      <4> QED BY <1>2, <3>1, <4>1 DEF DrawInv, Dropped
    <3> QED BY <3>1
  <2>5. message'.expired => \A x \in Callers : draw'[x].st = "off"
    <3>1. ASSUME message'.expired, NEW x \in Callers, draw'[x].st # "off"
          PROVE  FALSE
      <4>1. ~message.expired
        BY <1>1, <1>2 DEF DrawInv
      <4>2. message' = draw[c].card
        BY <1>1, <3>1, <4>1
      <4>3. c = "end"
        BY <1>1, <1>2, <3>1, <4>2 DEF DrawInv
      <4>4. phase = "over"
        BY <1>1, <1>2, <4>3 DEF DrawInv
      <4>5. x # c /\ draw[x].st # "off" /\ draw[x].st # "sent"
        BY <1>7, <1>10, <3>1
      <4>6. draw[x].st \in Dropped
        BY <1>2, <4>5 DEF DrawInv, Draws, NoDraw, Dropped
      <4> QED BY <1>2, <4>3, <4>4, <4>5, <4>6 DEF DrawInv
    <3> QED BY <3>1
  <2> QED BY <1>1, <1>6, <2>1, <2>2, <2>3, <2>4, <2>5 DEF DrawInv
<1>12. AgeInv'
  <2>1. SUFFICES ASSUME "backwards" \notin excuse
                 PROVE  AgeInv'
    BY <1>1 DEF AgeInv
  <2>2. /\ message.face.own <= session.own
        /\ draw[c].card.face.own <= session.own
    BY <1>1, <1>2, <2>1 DEF AgeInv
  <2>3. ASSUME NEW x \in Callers, draw'[x].st # "off"
        PROVE  /\ message'.face.own <= draw'[x].card.face.own
               /\ draw'[x].card.face.own <= session.own
    <3>1. draw[x].st # "off" /\ x # c /\ draw'[x].card = draw[x].card
      BY <1>10, <2>3
    <3>2. draw[x].st \in Dropped
      BY <1>2, <1>7, <3>1 DEF DrawInv, Draws, NoDraw, Dropped
    <3>3. /\ draw[c].card.face.own <= draw[x].card.face.own
          /\ message.face.own <= draw[x].card.face.own
          /\ draw[x].card.face.own <= session.own
      BY <1>1, <1>2, <2>1, <3>1, <3>2 DEF AgeInv
    <3> QED BY <1>1, <3>1, <3>3
  <2>4. \A x, y \in Callers :
          ~(draw'[x].st = "sent" /\ draw'[y].st \in Dropped)
    BY <1>2, <1>8, <1>9 DEF DrawInv, Dropped
  <2> QED BY <1>1, <2>2, <2>3, <2>4 DEF AgeInv
<1> QED BY <1>2, <1>4, <1>11, <1>12 DEF CardInv

-----------------------------------------------------------------------------
(* The queue.                                                              *)

\* What a run leaves alone, unless it asks or draws.
RunApart == UNCHANGED <<phase, mine, jobs, news, behind, click, message, used>>

LEMMA RunOverKeeps ==
  ASSUME QueueInv, UNCHANGED <<mine, behind>>, RunOver, labels' \in {{}, labels}
  PROVE  QueueInv'
BY DEF QueueInv, RunOver, Queues

LEMMA RunTurns ==
  ASSUME QueueInv, UNCHANGED <<mine, behind>>, labels' \in {{}, labels},
         queue' \in Queues, queue'.pc # "idle"
  PROVE  QueueInv'
BY DEF QueueInv

LEMMA QueueKinds ==
  /\ [pc |-> "draw"] \in Queues /\ [pc |-> "draw"].pc = "draw"
  /\ \A b \in BOOLEAN : /\ [pc |-> "reload", snaps |-> b] \in Queues
                         /\ [pc |-> "reload", snaps |-> b].pc = "reload"
  /\ \A n \in Nat : /\ [pc |-> "snap", snap |-> n] \in Queues
                    /\ [pc |-> "snap", snap |-> n].pc = "snap"
BY DEF Queues

LEMMA RunBeginsStep ==
  ASSUME CardInv, RunBegins
  PROVE  CardInv'
<1>1. /\ labels' = {} /\ RunApart /\ UNCHANGED <<session, excuse>>
  BY DEF RunBegins, RunApart, around, cardGhosts
<1>2. CountInv /\ QueueInv /\ ReloadInv /\ DrawInv /\ AgeInv /\ ClicksInv'
  BY <1>1, CardStays DEF CardInv, RunApart
<1>3. CASE RunOver /\ UNCHANGED <<ownJob, reload, draw>>
  <2>1. QueueInv'
    BY <1>1, <1>2, <1>3, RunOverKeeps DEF RunApart
  <2>2. used' \in Nat /\ ownJob' \in Nat /\ news' \subseteq Nat
    BY <1>1, <1>2, <1>3 DEF CountInv, RunApart
  <2> QED BY <1>1, <1>2, <1>3, <2>1, <2>2, CardStays DEF CardInv, RunApart
<1>4. CASE /\ queue' = [pc |-> "reload",
                        snaps |-> ownJob # 0 \/ "open" \in labels]
           /\ ownJob' = 0 /\ Ask("queue", Reading) /\ UNCHANGED draw
  <2>1. QueueInv'
    <3>1. (ownJob # 0 \/ "open" \in labels) \in BOOLEAN
      OBVIOUS
    <3>2. queue' \in Queues /\ queue'.pc = "reload"
      BY <1>4, <3>1, QueueKinds
    <3> QED BY <1>1, <1>2, <3>2, RunTurns DEF RunApart
  <2>2. used' \in Nat /\ ownJob' \in Nat /\ news' \subseteq Nat
    BY <1>1, <1>2, <1>4 DEF CountInv, RunApart
  <2>3. ReloadInv'
    BY <1>1, <1>2, <1>4, Begun, CallersAre DEF RunApart
  <2> QED BY <1>1, <1>2, <1>4, <2>1, <2>2, <2>3, CardStays DEF CardInv, RunApart
<1>5. CASE /\ queue' = [pc |-> "draw"] /\ Redraw("queue", session)
           /\ UNCHANGED <<ownJob, reload>>
  <2>1. QueueInv'
    BY <1>1, <1>2, <1>5, RunTurns, QueueKinds DEF RunApart
  <2>2. used' \in Nat /\ ownJob' \in Nat /\ news' \subseteq Nat
    BY <1>1, <1>2, <1>5 DEF CountInv, RunApart
  <2>3. CountInv' /\ ReloadInv'
    BY <1>1, <1>5, <2>2, CardStays DEF RunApart
  <2>4. Redraw("queue", session')
    BY <1>1, <1>5
  <2>5. DrawInv' /\ AgeInv'
    BY <1>1, <1>2, <2>3, <2>4, Redrawn, CallersAre DEF RunApart
  <2> QED BY <1>2, <2>1, <2>3, <2>5 DEF CardInv
<1> QED BY <1>3, <1>4, <1>5 DEF RunBegins

LEMMA RunReloadedStep ==
  ASSUME CardInv, RunReloaded
  PROVE  CardInv'
<1>1. /\ labels' = labels /\ RunApart /\ UNCHANGED <<session, ownJob, reload, excuse>>
  BY DEF RunReloaded, RunApart, around, cardGhosts
<1>2. /\ CountInv /\ QueueInv /\ DrawInv /\ AgeInv /\ ClicksInv' /\ ReloadInv'
      /\ CountInv'
  <2>1. used' \in Nat /\ ownJob' \in Nat /\ news' \subseteq Nat
    BY <1>1 DEF CardInv, CountInv, RunApart
  <2> QED BY <1>1, <2>1, CardStays DEF CardInv, RunApart
<1>3. CASE RunOver /\ UNCHANGED draw
  <2>1. QueueInv'
    BY <1>1, <1>2, <1>3, RunOverKeeps DEF RunApart
  <2> QED BY <1>1, <1>2, <1>3, <2>1, CardStays DEF CardInv, RunApart
<1>4. CASE queue' = [pc |-> "snap", snap |-> jobs] /\ UNCHANGED draw
  <2>1. QueueInv'
    <3>1. queue' \in Queues /\ queue'.pc = "snap"
      BY <1>2, <1>4, QueueKinds DEF CountInv
    <3> QED BY <1>1, <1>2, <3>1, RunTurns DEF RunApart
  <2> QED BY <1>1, <1>2, <1>4, <2>1, CardStays DEF CardInv, RunApart
<1>5. CASE queue' = [pc |-> "draw"] /\ Redraw("queue", session)
  <2>1. QueueInv'
    BY <1>1, <1>2, <1>5, RunTurns, QueueKinds DEF RunApart
  <2>2. Redraw("queue", session')
    BY <1>1, <1>5
  <2>3. DrawInv' /\ AgeInv'
    BY <1>1, <1>2, <2>2, Redrawn, CallersAre DEF RunApart
  <2> QED BY <1>2, <2>1, <2>3 DEF CardInv
<1> QED BY <1>3, <1>4, <1>5 DEF RunReloaded

LEMMA RunPreviewedStep ==
  ASSUME CardInv, RunPreviewed
  PROVE  CardInv'
<1>1. /\ queue.pc = "snap" /\ queue' = [pc |-> "draw"] /\ Redraw("queue", session')
      /\ RunApart /\ UNCHANGED <<labels, ownJob, reload>>
  BY DEF RunPreviewed, RunApart, around
<1>2. PICK v \in queue.snap..jobs :
        session' = [session EXCEPT !.snap = v] /\ SnapsOld(v)
  BY DEF RunPreviewed
<1>3. CountInv /\ QueueInv /\ ReloadInv /\ DrawInv /\ AgeInv /\ ClicksInv'
  BY <1>1, CardStays DEF CardInv, RunApart
<1>4. v \in 0..jobs
  <2>1. queue.snap \in Nat
    BY <1>1, <1>3 DEF QueueInv, Queues
  <2> QED BY <1>2, <1>3, <2>1, Counts
<1>5. session' \in Sessions(mine', jobs') /\ session'.own = session.own
  BY <1>1, <1>2, <1>3, <1>4, SessionMoves DEF RunApart
<1>6. CountInv'
  BY <1>1, <1>3, <1>5 DEF CountInv, RunApart
<1>7. QueueInv'
  BY <1>1, <1>3, RunTurns, QueueKinds DEF RunApart
<1>8. ReloadInv'
  BY <1>1, <1>3, <1>5 DEF ReloadInv, RunApart
<1>9. "backwards" \in excuse => "backwards" \in excuse'
  BY <1>2 DEF SnapsOld
<1>10. DrawInv' /\ AgeInv'
  BY <1>1, <1>3, <1>5, <1>6, <1>9, Redrawn, CallersAre DEF RunApart
<1> QED BY <1>3, <1>6, <1>7, <1>8, <1>10 DEF CardInv

LEMMA RunEndSteps ==
  ASSUME CardInv, RunFails \/ RunDrawn \/ DrainEnds
  PROVE  CardInv'
<1>1. /\ RunApart /\ UNCHANGED <<session, ownJob, draw, excuse>> /\ labels' = labels
      /\ reload' = reload \/ reload' = [reload EXCEPT !["queue"] = NoRead]
  BY DEF RunFails, RunDrawn, DrainEnds, RunApart, around, cardGhosts
<1>2. CountInv' /\ ClicksInv' /\ DrawInv' /\ AgeInv' /\ QueueInv /\ ReloadInv
  <2>1. used' \in Nat /\ ownJob' \in Nat /\ news' \subseteq Nat
    BY <1>1 DEF CardInv, CountInv, RunApart
  <2> QED BY <1>1, <2>1, CardStays DEF CardInv, RunApart
<1>3. QueueInv'
  <2>1. CASE RunOver
    BY <1>1, <1>2, <2>1, RunOverKeeps DEF RunApart
  <2>2. CASE queue' = Finalized
    <3>1. queue' \in Queues /\ (labels # {} => queue'.pc # "idle")
      BY <2>2 DEF Finalized, Queues
    <3> QED BY <1>1, <1>2, <3>1 DEF QueueInv, RunApart
  <2> QED BY <2>1, <2>2 DEF RunFails, RunDrawn, DrainEnds
<1>4. ReloadInv'
  BY <1>1, <1>2, Dismissed, CallersAre DEF RunApart
<1> QED BY <1>2, <1>3, <1>4 DEF CardInv

-----------------------------------------------------------------------------
(* Applies, the opening and the end of the card.                           *)

LEMMA CountTypes ==
  ASSUME CountInv
  PROVE  /\ mine \in Nat /\ jobs \in Nat /\ used \in Nat /\ ownJob \in Nat
         /\ news \subseteq Nat
         /\ mine + 1 \in Nat /\ jobs + 1 \in Nat /\ used + 1 \in Nat
         /\ mine <= mine + 1 /\ jobs <= jobs + 1 /\ mine <= mine /\ jobs <= jobs
BY DEF CountInv

LEMMA ViewerApplyStep ==
  ASSUME CardInv, ViewerApply
  PROVE  CardInv'
<1>1. /\ used' = used + 1 /\ mine' = mine + 1
      /\ \/ jobs' = jobs + 1 /\ news' = {jobs + 1}
         \/ jobs' = jobs /\ news' = {0}
      /\ UNCHANGED <<phase, session, ownJob, labels, queue, behind, click,
                     reload, draw, message, excuse>>
  BY DEF ViewerApply, Use, Applying, refresher, cardGhosts
<1>2. /\ mine' \in Nat /\ jobs' \in Nat /\ used' \in Nat /\ news' \subseteq Nat
      /\ ownJob' \in Nat /\ mine <= mine' /\ jobs <= jobs'
  BY <1>1, CountTypes DEF CardInv
<1> QED BY <1>1, <1>2, CardKept DEF CardInv

LEMMA PublishedStep ==
  ASSUME CardInv, NEW j \in news, Published(j)
  PROVE  CardInv'
<1>1. /\ news' = news \ {j}
      /\ UNCHANGED <<phase, mine, jobs, session, behind, click, reload, draw,
                     message, used>>
      /\ \/ UNCHANGED <<ownJob, labels, queue, excuse>>
         \/ /\ ownJob' = IF j # 0 THEN j ELSE ownJob
            /\ Requested("local-sync-apply")
            /\ "backwards" \in excuse => "backwards" \in excuse'
  BY DEF Published, refresher, cardGhosts, Tells
<1>2. used' \in Nat /\ ownJob' \in Nat /\ news' \subseteq Nat
  BY <1>1, CountTypes DEF CardInv
<1>3. QueueInv'
  <2>1. CASE Requested("local-sync-apply")
    BY <1>1, <2>1, RequestedKeeps DEF CardInv, QueueInv, Labels
  <2>2. CASE UNCHANGED <<labels, queue>>
    BY <1>1, <2>2, CardStays
  <2> QED BY <1>1, <2>1, <2>2
<1> QED BY <1>1, <1>2, <1>3, CardStays DEF CardInv

\* Only labels and the queue are touched, and what is not in the invariant.
LEMMA RequestsOnly ==
  ASSUME CardInv, NEW l \in Labels, Requested(l), behind' \in Behinds(mine'),
         phase' = phase \/ (phase = "reply" /\ phase' = "live"),
         UNCHANGED <<mine, jobs, news, session, ownJob, click, draw, message,
                     used>>,
         "backwards" \in excuse => "backwards" \in excuse',
         reload' = reload \/ \E c \in Callers :
                               reload' = [reload EXCEPT ![c] = NoRead]
  PROVE  CardInv'
<1>1. CountInv'
  BY DEF CardInv, CountInv
<1>2. QueueInv'
  BY RequestedKeeps DEF CardInv
<1>3. ClicksInv' /\ AgeInv'
  BY CardStays
<1>4. ReloadInv'
  BY Dismissed, CallersAre DEF CardInv
<1>5. DrawInv'
  BY DEF CardInv, DrawInv
<1> QED BY <1>1, <1>2, <1>3, <1>4, <1>5 DEF CardInv

LEMMA BehindKinds ==
  ASSUME NEW n \in Nat
  PROVE  /\ \A s \in {"busy", "more", "late", "done"} : [pc |-> s] \in Behinds(n)
         /\ \A v \in 0..n, b \in BOOLEAN :
              [pc |-> "back", own |-> v, more |-> b] \in Behinds(n)
         /\ \A b \in BOOLEAN : [pc |-> "reload", more |-> b] \in Behinds(n)
<1>1. \A s \in {"busy", "more", "late", "done"} : [pc |-> s] \in Behinds(n)
  BY DEF Behinds
<1>2. \A v \in 0..n, b \in BOOLEAN :
        [pc |-> "back", own |-> v, more |-> b] \in Behinds(n)
  BY DEF Behinds
<1>3. \A b \in BOOLEAN : [pc |-> "reload", more |-> b] \in Behinds(n)
  BY DEF Behinds
<1> QED BY <1>1, <1>2, <1>3

LEMMA OpensStep ==
  ASSUME CardInv, Opens
  PROVE  CardInv'
<1>1. /\ phase = "reply" /\ phase' = "live" /\ Requested("open")
      /\ excuse' = excuse \cap {"backwards"}
      /\ UNCHANGED <<mine, jobs, news, session, ownJob, behind, click, reload,
                     draw, message, used>>
  BY DEF Opens, Tells, around
<1>2. "open" \in Labels /\ behind' \in Behinds(mine')
  BY <1>1 DEF Labels, CardInv, QueueInv
<1> QED BY <1>1, <1>2, RequestsOnly

LEMMA RefreshedStep ==
  ASSUME CardInv, Refreshed
  PROVE  CardInv'
<1>1. /\ \/ mine' = mine /\ behind' = [pc |-> "back", own |-> 0, more |-> FALSE]
         \/ /\ mine' = mine + 1
            /\ \E m \in BOOLEAN :
                 behind' = [pc |-> "back", own |-> mine + 1, more |-> m]
      /\ UNCHANGED <<phase, jobs, news, session, ownJob, labels, queue, click,
                     reload, draw, message, used, excuse>>
  BY DEF Refreshed, refresher, cardGhosts
<1>2. /\ mine' \in Nat /\ jobs' \in Nat /\ used' \in Nat /\ news' \subseteq Nat
      /\ ownJob' \in Nat /\ mine <= mine' /\ jobs <= jobs' /\ mine \in Nat
  BY <1>1, CountTypes DEF CardInv
<1>3. behind' \in Behinds(mine')
  <2>1. 0 \in 0..mine'
    BY <1>2
  <2>2. mine' = mine + 1 => mine + 1 \in 0..mine'
    BY <1>2
  <2> QED BY <1>1, <1>2, <2>1, <2>2, BehindKinds
<1>4. QueueInv'
  BY <1>1, <1>3 DEF CardInv, QueueInv
<1> QED BY <1>1, <1>2, <1>4, CardKept DEF CardInv

LEMMA RefreshReturnsStep ==
  ASSUME CardInv, RefreshReturns
  PROVE  CardInv'
<1>1. /\ behind.pc = "back"
      /\ behind' = [pc |-> "reload", more |-> behind.more]
      /\ "backwards" \in excuse => "backwards" \in excuse'
      /\ Ask("open", Given(behind.own)) \/ Ask("open", Reading)
      /\ UNCHANGED <<phase, mine, jobs, news, session, ownJob, labels, queue,
                     click, draw, message, used>>
  BY DEF RefreshReturns, around, refresher, GivesOld
<1>2. CountInv /\ ReloadInv /\ behind \in Behinds(mine) /\ mine \in Nat
  BY DEF CardInv, QueueInv, CountInv
<1>3. behind.own \in 0..mine /\ behind.more \in BOOLEAN
  BY <1>1, <1>2 DEF Behinds
<1>4. QueueInv'
  BY <1>1, <1>2, <1>3, BehindKinds DEF CardInv, QueueInv
<1>5. ReloadInv'
  BY <1>1, <1>2, <1>3, Begun, CallersAre
<1>6. used' \in Nat /\ ownJob' \in Nat /\ news' \subseteq Nat
  BY <1>1, <1>2, CountTypes
<1> QED BY <1>1, <1>4, <1>5, <1>6, CardStays DEF CardInv

LEMMA BehindShows ==
  ASSUME CardInv, RefreshLoaded \/ LateShown
  PROVE  CardInv'
<1>1. mine \in Nat
  BY DEF CardInv, CountInv
<1>2. CASE RefreshLoaded
  <2>1. /\ behind' = [pc |-> IF behind.more /\ reload["open"].st = "off"
                               THEN "more" ELSE "done"]
        /\ reload' = [reload EXCEPT !["open"] = NoRead]
        /\ Requested("refresh")
        /\ UNCHANGED <<phase, mine, jobs, news, session, ownJob, click, draw,
                       message, used, excuse>>
    BY <1>2 DEF RefreshLoaded, around, cardGhosts
  <2>2. behind' \in Behinds(mine') /\ "refresh" \in Labels
    BY <1>1, <2>1, BehindKinds DEF Labels
  <2> QED BY <2>1, <2>2, RequestsOnly, CallersAre
<1>3. CASE LateShown
  <2>1. /\ behind' = [pc |-> "done"] /\ Requested("sync-completed")
        /\ "backwards" \in excuse => "backwards" \in excuse'
        /\ UNCHANGED <<phase, mine, jobs, news, session, ownJob, click, reload,
                       draw, message, used>>
    BY <1>3 DEF LateShown, around, Tells, cardGhosts
  <2>2. behind' \in Behinds(mine') /\ "sync-completed" \in Labels
    BY <1>1, <2>1, BehindKinds DEF Labels
  <2> QED BY <2>1, <2>2, RequestsOnly
<1> QED BY <1>2, <1>3

LEMMA LateSavedStep ==
  ASSUME CardInv, LateSaved
  PROVE  CardInv'
<1>1. /\ behind' = [pc |-> "late"] /\ mine' = mine + 1
      /\ UNCHANGED <<phase, jobs, news, session, ownJob, labels, queue, click,
                     reload, draw, message, used, excuse>>
  BY DEF LateSaved, refresher, cardGhosts
<1>2. /\ mine' \in Nat /\ jobs' \in Nat /\ used' \in Nat /\ news' \subseteq Nat
      /\ ownJob' \in Nat /\ mine <= mine' /\ jobs <= jobs'
  BY <1>1, CountTypes DEF CardInv
<1>3. QueueInv'
  BY <1>1, <1>2, BehindKinds DEF CardInv, QueueInv
<1> QED BY <1>1, <1>2, <1>3, CardKept DEF CardInv

\* The expired card replaces whatever has not been sent.
LEMMA SessionEndsStep ==
  ASSUME CardInv, SessionEnds
  PROVE  CardInv'
<1>1. PICK card : card = [face |-> Face(session), expired |-> TRUE]
  OBVIOUS
<1>2. PICK d : d = Write([st |-> "due", card |-> card])
  OBVIOUS
<1>3. /\ phase = "live" /\ phase' = "over"
      /\ draw' = [x \in Callers |-> IF x = "end" THEN d
                     ELSE IF draw[x].st \in Dropped THEN NoDraw ELSE draw[x]]
      /\ UNCHANGED <<mine, jobs, news, session, ownJob, labels, queue, behind,
                     click, reload, message, used, excuse>>
  BY <1>1, <1>2
     DEF SessionEnds, Replaced, around, refresher, cardGhosts
<1>4. /\ CountInv /\ DrawInv /\ AgeInv
      /\ QueueInv' /\ ClicksInv' /\ ReloadInv'
  BY <1>3, CardStays DEF CardInv
<1>5. CountInv'
  BY <1>3, <1>4 DEF CountInv
<1>6. card \in Cards(mine, jobs) /\ card.expired /\ card.face.own = session.own
  BY <1>1, <1>4 DEF CountInv, Face, Cards, Faces, Sessions
<1>7. /\ d.st = (IF Idle THEN "sent" ELSE "waiting") /\ d.card = card
      /\ d \in Draws(mine, jobs)
  <2>1. d = [st |-> IF Idle THEN "sent" ELSE "waiting", card |-> card]
    BY <1>2 DEF Write
  <2> QED BY <1>6, <2>1 DEF Draws
<1>8. NoDraw.st = "off" /\ NoDraw \in Draws(mine, jobs)
  BY DEF NoDraw, Draws
<1>9. "end" \in Callers /\ draw'["end"] = d
  BY <1>3, CallersAre
<1>10. ASSUME NEW x \in Callers, x # "end"
       PROVE  \/ draw'[x].st = "off" /\ draw'[x] \in Draws(mine, jobs)
              \/ /\ draw'[x] = draw[x] /\ draw'[x].st = "sent"
                 /\ draw'[x] \in Draws(mine, jobs)
  <2>1. CASE draw[x].st \in Dropped
    <3>1. draw'[x] = NoDraw
      BY <1>3, <1>10, <2>1
    <3> QED BY <1>8, <3>1
  <2>2. CASE draw[x].st \notin Dropped
    <3>1. draw'[x] = draw[x] /\ draw[x] \in Draws(mine, jobs)
      BY <1>3, <1>4, <1>10, <2>2 DEF DrawInv
    <3>2. draw[x].st \in {"off", "building", "waiting", "sent"}
      BY <3>1 DEF Draws, NoDraw
    <3> QED BY <2>2, <3>1, <3>2 DEF Dropped
  <2> QED BY <2>1, <2>2
<1>11. draw' \in [Callers -> Draws(mine', jobs')]
  <2>1. \A x \in Callers : draw'[x] \in Draws(mine, jobs)
    BY <1>7, <1>9, <1>10
  <2> QED BY <1>3, <2>1
<1>12. d.st = "sent" => \A x \in Callers : draw[x].st # "sent"
  BY <1>7 DEF Idle
<1>13. ~message.expired /\ \A x \in Callers : draw[x].st # "off" => ~draw[x].card.expired
  BY <1>3, <1>4 DEF DrawInv
<1>14. DrawInv'
  <2>1. \A x, y \in Callers :
          /\ draw'[x].st \in Dropped /\ draw'[y].st \in Dropped => x = y
          /\ draw'[x].st = "sent" /\ draw'[y].st = "sent" => x = y
    BY <1>4, <1>9, <1>10, <1>12 DEF DrawInv, Dropped
  <2>2. ASSUME NEW x \in Callers, draw'[x].st # "off"
        PROVE  draw'[x].card.expired <=> x = "end"
    <3>1. CASE x = "end"
      BY <1>6, <1>7, <1>9, <3>1
    <3>2. CASE x # "end"
      <4>1. draw'[x] = draw[x] /\ draw[x].st = "sent"
        BY <1>10, <2>2, <3>2
      <4> QED BY <1>13, <3>2, <4>1
    <3> QED BY <3>1, <3>2
  <2>3. ASSUME NEW x \in Callers, draw'[x].st \in Dropped
        PROVE  x = "end" /\ draw'[x].st = "waiting"
    BY <1>7, <1>9, <1>10, <2>3 DEF Dropped
  <2> QED BY <1>3, <1>11, <1>13, <2>1, <2>2, <2>3 DEF DrawInv
<1>15. AgeInv'
  <2>1. SUFFICES ASSUME "backwards" \notin excuse
                 PROVE  AgeInv'
    BY <1>3 DEF AgeInv
  <2>2. session.own \in Nat /\ message.face.own <= session.own
    BY <1>4, <2>1, Counts DEF AgeInv
  <2>3. session.own <= session.own
    BY <2>2
  <2>4. draw'["end"].card.face.own = session.own
    <3>1. draw'["end"].card = card
      BY <1>7, <1>9
    <3> QED BY <1>6, <3>1
  <2>5. ASSUME NEW x \in Callers, draw'[x].st # "off"
        PROVE  /\ message.face.own <= draw'[x].card.face.own
               /\ draw'[x].card.face.own <= session.own
    <3>1. CASE x = "end"
      BY <2>2, <2>3, <2>4, <3>1
    <3>2. CASE x # "end"
      <4>1. draw'[x] = draw[x] /\ draw[x].st # "off"
        BY <1>10, <2>5, <3>2
      <4> QED BY <1>4, <2>1, <4>1 DEF AgeInv
    <3> QED BY <3>1, <3>2
  <2>6. ASSUME NEW x \in Callers, NEW y \in Callers, draw'[x].st = "sent",
               draw'[y].st \in Dropped
        PROVE  draw'[x].card.face.own <= draw'[y].card.face.own
    <3>1. y = "end"
      BY <1>10, <2>6 DEF Dropped
    <3>2. draw'[x].card.face.own <= session.own
      BY <2>5, <2>6
    <3> QED BY <2>4, <3>1, <3>2
  <2> QED BY <1>3, <2>2, <2>5, <2>6 DEF AgeInv
<1> QED BY <1>4, <1>5, <1>14, <1>15 DEF CardInv

-----------------------------------------------------------------------------
(* Clicks on the card.                                                     *)

Turns == {"defer", "fresh", "saved", "reload", "preview"}

\* A click at work takes its next turn.
Turned(c, to, p) ==
  /\ click' = [click EXCEPT ![c] = to]
  /\ to.pc = p /\ to.kind = click[c].kind

LEMMA ClickTurns ==
  ASSUME ClicksInv, NEW c \in Clicks, click[c] \in BusyClicks, NEW p \in Turns,
         Goto(c, p)
  PROVE  \E to \in BusyClicks : Turned(c, to, p)
<1>1. PICK to : to = [click[c] EXCEPT !.pc = p]
  OBVIOUS
<1>2. to \in BusyClicks /\ to.pc = p /\ to.kind = click[c].kind
  BY <1>1 DEF BusyClicks, Turns
<1>3. click' = [click EXCEPT ![c] = to]
  BY <1>1 DEF Goto
<1> QED BY <1>2, <1>3 DEF Turned

LEMMA ClickWaits ==
  ASSUME ClicksInv, NEW c \in Clicks, click[c] \in BusyClicks, NEW p \in Turns,
         NEW d \in Clicks, click' = [click EXCEPT ![c].pc = p, ![c].of = d]
  PROVE  \E to \in BusyClicks : Turned(c, to, p)
<1>1. PICK to : to = [click[c] EXCEPT !.pc = p, !.of = d]
  OBVIOUS
<1>2. to \in BusyClicks /\ to.pc = p /\ to.kind = click[c].kind
  BY <1>1 DEF BusyClicks, Turns
<1>3. click' = [click EXCEPT ![c] = to]
  BY <1>1 DEF ClicksInv
<1> QED BY <1>2, <1>3 DEF Turned

LEMMA ClickReads ==
  ASSUME ClicksInv, NEW c \in Clicks, click[c] \in BusyClicks, NEW p \in Turns,
         NEW n \in Nat, click' = [click EXCEPT ![c].pc = p, ![c].rev = n]
  PROVE  \E to \in BusyClicks : Turned(c, to, p) /\ to.rev = n
<1>1. PICK to : to = [click[c] EXCEPT !.pc = p, !.rev = n]
  OBVIOUS
<1>2. to \in BusyClicks /\ to.pc = p /\ to.kind = click[c].kind /\ to.rev = n
  BY <1>1 DEF BusyClicks, Turns
<1>3. click' = [click EXCEPT ![c] = to]
  BY <1>1 DEF ClicksInv
<1> QED BY <1>2, <1>3 DEF Turned

\* What a step of a click leaves alone.
ClickApart == UNCHANGED <<phase, ownJob, labels, queue, behind, message>>

\* A click that writes nothing and shows nothing.
LEMMA ClickTurned ==
  ASSUME CardInv, NEW c \in Clicks, NEW to \in CardClicks,
         click' = [click EXCEPT ![c] = to],
         ~(to.pc = "saved" /\ to.kind = "save"),
         ClickApart, UNCHANGED <<mine, jobs, news>>
  PROVE  /\ ClicksInv' /\ QueueInv'
         /\ used' \in Nat /\ UNCHANGED session => CountInv'
         /\ UNCHANGED <<session, reload>> => ReloadInv'
         /\ UNCHANGED draw => DrawInv'
         /\ UNCHANGED <<session, draw>>
           /\ ("backwards" \in excuse => "backwards" \in excuse') => AgeInv'
<1>1. /\ mine \in Nat /\ mine' \in Nat /\ mine <= mine' /\ ownJob' \in Nat
      /\ news' \subseteq Nat
  BY CountTypes DEF CardInv, ClickApart
<1>2. ClicksInv'
  BY <1>1, ClickMoves DEF CardInv
<1> QED BY <1>1, <1>2, CardStays DEF ClickApart

LEMMA ClickAsksStep ==
  ASSUME CardInv, NEW c \in Clicks, ClickAsks(c)
  PROVE  CardInv'
<1>1. /\ click[c].pc = "defer" /\ ClickApart
      /\ UNCHANGED <<mine, jobs, news, session, draw, used, excuse>>
      /\ Goto(c, "fresh")
         \/ \E d \in Clicks : click' = [click EXCEPT ![c].pc = "fresh", ![c].of = d]
      /\ reload' = reload \/ Ask(c, Reading)
  BY DEF ClickAsks, ClickApart, around, refresher, cardGhosts
<1>2. click[c] \in BusyClicks /\ "fresh" \in Turns
  BY <1>1, ClickBusy DEF CardInv, Turns
<1>3. PICK to \in BusyClicks : Turned(c, to, "fresh")
  BY <1>1, <1>2, ClickTurns, ClickWaits DEF CardInv
<1>4. to \in CardClicks /\ used' \in Nat
  BY <1>1, CountTypes DEF CardClicks, CardInv
<1>5. ClicksInv' /\ QueueInv' /\ CountInv' /\ DrawInv' /\ AgeInv'
  BY <1>1, <1>3, <1>4, ClickTurned DEF Turned
<1>6. ReloadInv'
  <2>1. CASE reload' = reload
    BY <1>1, <2>1, CardStays
  <2>2. CASE Ask(c, Reading)
    BY <1>1, <2>2, Begun, CallersAre DEF CardInv
  <2> QED BY <1>1, <2>1, <2>2
<1> QED BY <1>5, <1>6 DEF CardInv

LEMMA ClickedStep ==
  ASSUME CardInv, NEW k \in Kinds, Clicked(k)
  PROVE  CardInv'
<1>1. PICK c : c = CHOOSE d \in Clicks : click[d] = NoClick
  OBVIOUS
<1>2. PICK to : to = [pc |-> "defer", kind |-> k, of |-> c, latest |-> FALSE,
                      rev |-> message.face.snap]
  OBVIOUS
<1>3. /\ c \in Clicks /\ used' = used + 1 /\ ClickApart
      /\ click' = [click EXCEPT ![c] = to]
      /\ UNCHANGED <<mine, jobs, news, session, reload, draw, excuse>>
  <2>1. c \in Clicks
    BY <1>1 DEF Clicked
  <2> QED BY <1>1, <1>2, <2>1
          DEF Clicked, Use, ClickApart, around, refresher, cardGhosts
<1>4. message.face.snap \in Nat
  BY DEF CardInv, CountInv, Cards, Faces
<1>5. to \in CardClicks /\ to.pc = "defer"
  BY <1>2, <1>3, <1>4 DEF CardClicks, BusyClicks
<1>6. used' \in Nat
  BY <1>3, CountTypes DEF CardInv
<1> QED BY <1>3, <1>5, <1>6, ClickTurned DEF CardInv

\* A click that draws the card and writes nothing.
LEMMA ClickDraws ==
  ASSUME CardInv, NEW c \in Clicks, Redraw(c, session'), ClickApart,
         UNCHANGED <<mine, jobs>>, CountInv', session'.own = session.own,
         "backwards" \in excuse => "backwards" \in excuse'
  PROVE  DrawInv' /\ AgeInv'
BY Redrawn, CallersAre DEF CardInv, ClickApart

\* A view that is picked takes the ticket of those picked before.
LEMMA PickedKeeps ==
  ASSUME CardInv, UNCHANGED mine, NEW c \in Clicks, NEW to \in CardClicks,
         to.pc # "saved", Picked(c, to)
  PROVE  ClicksInv'
<1>1. click \in [Clicks -> CardClicks] /\ mine \in Nat
  BY DEF CardInv, ClicksInv, CountInv
<1>2. ASSUME NEW x \in Clicks
      PROVE  /\ click'[x] \in CardClicks
             /\ click'[x].pc = "saved" /\ click'[x].kind = "save" =>
                  click'[x].rev <= mine
  <2>1. CASE x = c
    BY <1>1, <1>2, <2>1 DEF Picked
  <2>2. CASE x # c /\ click[x] \in {NoClick, Handled}
    <3>1. click'[x] = click[x] /\ click[x] \in CardClicks
      BY <1>1, <2>2 DEF Picked
    <3> QED BY <3>1 DEF CardInv, ClicksInv
  <2>3. CASE x # c /\ click[x] \notin {NoClick, Handled}
    <3>1. click[x] \in BusyClicks
      BY <1>1, <2>3 DEF CardClicks
    <3>2. PICK one : one = [click[x] EXCEPT !.latest = FALSE]
      OBVIOUS
    <3>3. click'[x] = one
      BY <2>3, <3>2 DEF Picked
    <3>4. /\ one \in BusyClicks /\ one.pc = click[x].pc
          /\ one.kind = click[x].kind /\ one.rev = click[x].rev
      BY <3>1, <3>2 DEF BusyClicks
    <3> QED BY <3>3, <3>4 DEF CardInv, ClicksInv, CardClicks
  <2> QED BY <2>1, <2>2, <2>3
<1>3. click' \in [Clicks -> CardClicks]
  BY <1>2 DEF Picked
<1> QED BY <1>2, <1>3 DEF ClicksInv

LEMMA ClickShowsStep ==
  ASSUME CardInv, NEW c \in Clicks, ClickShows(c)
  PROVE  CardInv'
<1>1. /\ click[c].pc = "fresh" /\ ClickApart
      /\ UNCHANGED <<mine, jobs, news, reload, used, excuse>>
  BY DEF ClickShows, ClickApart, around, refresher, cardGhosts
<1>2. CountInv /\ used' \in Nat /\ ownJob' \in Nat /\ news' \subseteq Nat
  BY <1>1, CountTypes DEF CardInv, ClickApart
<1>3. QueueInv'
  BY <1>1, CardStays DEF ClickApart
<1>4. CASE Over(c) /\ Redraw(c, session) /\ UNCHANGED session
  <2>1. ClicksInv' /\ CountInv' /\ ReloadInv'
    BY <1>1, <1>2, <1>4, HandledClick, ClickTurned DEF Over
  <2>2. Redraw(c, session')
    BY <1>4
  <2>3. DrawInv' /\ AgeInv'
    BY <1>1, <1>4, <2>1, <2>2, ClickDraws
  <2> QED BY <1>3, <2>1, <2>3 DEF CardInv
<1>5. CASE /\ Picked(c, Handled) /\ session' = [session EXCEPT !.view = "raid"]
           /\ Redraw(c, session')
  <2>1. ClicksInv'
    BY <1>1, <1>5, HandledClick, PickedKeeps
  <2>2. session' \in Sessions(mine', jobs') /\ session'.own = session.own
    BY <1>1, <1>2, <1>5, SessionMoves
  <2>3. CountInv'
    BY <1>1, <1>2, <2>2 DEF CountInv, ClickApart
  <2>4. ReloadInv'
    BY <1>1, <2>2 DEF CardInv, ReloadInv
  <2>5. DrawInv' /\ AgeInv'
    BY <1>1, <1>5, <2>2, <2>3, ClickDraws
  <2> QED BY <1>3, <2>1, <2>3, <2>4, <2>5 DEF CardInv
<1>6. CASE /\ Picked(c, [click[c] EXCEPT !.pc = "preview", !.latest = TRUE,
                                         !.rev = jobs])
           /\ UNCHANGED <<session, draw>>
  <2>1. PICK to : to = [click[c] EXCEPT !.pc = "preview", !.latest = TRUE,
                                        !.rev = jobs]
    OBVIOUS
  <2>2. to \in CardClicks /\ to.pc = "preview"
    <3>1. click[c] \in BusyClicks /\ jobs \in Nat
      BY <1>1, <1>2, ClickBusy, CountTypes DEF CardInv
    <3> QED BY <2>1, <3>1 DEF CardClicks, BusyClicks
  <2>3. ClicksInv'
    BY <1>1, <1>6, <2>1, <2>2, PickedKeeps
  <2>4. CountInv' /\ ReloadInv' /\ DrawInv' /\ AgeInv'
    BY <1>1, <1>2, <1>6, CardStays DEF ClickApart
  <2> QED BY <1>3, <2>3, <2>4 DEF CardInv
<1> QED BY <1>4, <1>5, <1>6 DEF ClickShows

\* A save is through, and its click holds the revision it made.
LEMMA ClickSavesStep ==
  ASSUME CardInv, NEW c \in Clicks, ClickSaves(c)
  PROVE  CardInv'
<1>1. /\ click[c].pc = "defer" /\ ClickApart
      /\ UNCHANGED <<jobs, news, session, reload, excuse>>
  BY DEF ClickSaves, ClickApart, refresher, cardGhosts
<1>2. CountInv /\ ClicksInv /\ click[c] \in BusyClicks
  BY <1>1, ClickBusy DEF CardInv
<1>3. CASE /\ used' = used /\ mine' = mine + 1 /\ UNCHANGED draw
           /\ click' = [click EXCEPT ![c].pc = "saved", ![c].rev = mine + 1]
  <2>1. /\ mine' \in Nat /\ jobs' \in Nat /\ used' \in Nat /\ news' \subseteq Nat
        /\ ownJob' \in Nat /\ mine \in Nat /\ mine <= mine' /\ jobs <= jobs'
    BY <1>1, <1>2, <1>3, CountTypes DEF ClickApart
  <2>2. PICK to \in BusyClicks : Turned(c, to, "saved") /\ to.rev = mine + 1
    BY <1>2, <1>3, <2>1, ClickReads DEF Turns
  <2>3. to \in CardClicks /\ to.rev <= mine'
    BY <1>3, <2>1, <2>2 DEF CardClicks
  <2>4. ClicksInv'
    BY <1>2, <2>1, <2>2, <2>3, ClickMoves DEF Turned
  <2> QED BY <1>1, <1>3, <2>1, <2>4, CardKept DEF CardInv, ClickApart
<1>4. CASE /\ used' = used + 1 /\ Over(c) /\ Redraw(c, session) /\ UNCHANGED mine
  <2>1. used' \in Nat
    BY <1>2, <1>4, CountTypes
  <2>2. ClicksInv' /\ QueueInv' /\ CountInv' /\ ReloadInv'
    BY <1>1, <1>4, <2>1, HandledClick, ClickTurned DEF Over
  <2>3. Redraw(c, session')
    BY <1>1, <1>4
  <2>4. DrawInv' /\ AgeInv'
    BY <1>1, <1>4, <2>2, <2>3, ClickDraws
  <2> QED BY <2>2, <2>4 DEF CardInv
<1> QED BY <1>3, <1>4 DEF ClickSaves, CallWorks, CallFails, Use

LEMMA ClickSavedStep ==
  ASSUME CardInv, NEW c \in Clicks, ClickSaved(c)
  PROVE  CardInv'
<1>1. /\ click[c].pc = "saved" /\ click[c].kind = "save" /\ Goto(c, "reload")
      /\ ClickApart /\ UNCHANGED <<mine, jobs, news, session, draw, used>>
      /\ "backwards" \in excuse => "backwards" \in excuse'
      /\ Ask(c, Given(click[c].rev)) \/ Ask(c, Reading)
  BY DEF ClickSaved, ClickApart, around, refresher, GivesOld
<1>2. CountInv /\ ClicksInv /\ ReloadInv /\ click[c] \in BusyClicks
  BY <1>1, ClickBusy DEF CardInv
<1>3. PICK to \in BusyClicks : Turned(c, to, "reload")
  BY <1>1, <1>2, ClickTurns DEF Turns
<1>4. to \in CardClicks /\ used' \in Nat
  BY <1>1, <1>2, CountTypes DEF CardClicks
<1>5. ClicksInv' /\ QueueInv' /\ CountInv' /\ DrawInv' /\ AgeInv'
  BY <1>1, <1>3, <1>4, ClickTurned DEF Turned
<1>6. click[c].rev \in 0..mine
  <2>1. click[c].rev \in Nat /\ mine \in Nat
    BY <1>2, CountTypes DEF BusyClicks
  <2>2. click[c].rev <= mine
    BY <1>1, <1>2 DEF ClicksInv
  <2> QED BY <2>1, <2>2
<1>7. ReloadInv'
  BY <1>1, <1>2, <1>6, Begun, CallersAre
<1> QED BY <1>5, <1>7 DEF CardInv

LEMMA ClickAppliesStep ==
  ASSUME CardInv, NEW c \in Clicks, ClickApplies(c)
  PROVE  CardInv'
<1>1. /\ click[c].pc = "defer" /\ click[c].kind = "apply" /\ ClickApart
      /\ UNCHANGED <<session, reload, draw, excuse>>
      /\ mine' = mine + 1 \/ mine' = mine
      /\ \/ jobs' = jobs + 1 /\ news' = {jobs + 1}
         \/ jobs' = jobs /\ news' = news
      /\ used' = used + 1 \/ used' = used
      /\ \E p \in {"saved", "preview"} :
           click' = [click EXCEPT ![c].pc = p, ![c].rev = jobs']
  BY DEF ClickApplies, ClickApart, refresher, cardGhosts, Applying, Use
<1>2. CountInv /\ ClicksInv /\ click[c] \in BusyClicks
  BY <1>1, ClickBusy DEF CardInv
<1>3. /\ mine' \in Nat /\ jobs' \in Nat /\ used' \in Nat /\ news' \subseteq Nat
      /\ ownJob' \in Nat /\ mine \in Nat /\ mine <= mine' /\ jobs <= jobs'
  BY <1>1, <1>2, CountTypes DEF ClickApart
<1>4. PICK p \in Turns : click' = [click EXCEPT ![c].pc = p, ![c].rev = jobs']
  BY <1>1 DEF Turns
<1>5. PICK to \in BusyClicks : Turned(c, to, p) /\ to.rev = jobs'
  BY <1>2, <1>3, <1>4, ClickReads
<1>6. to \in CardClicks /\ to.kind # "save"
  BY <1>1, <1>5 DEF CardClicks, Turned
<1>7. ClicksInv'
  BY <1>2, <1>3, <1>5, <1>6, ClickMoves DEF Turned
<1> QED BY <1>1, <1>3, <1>7, CardKept DEF CardInv, ClickApart

LEMMA ClickReloadsStep ==
  ASSUME CardInv, NEW c \in Clicks, ClickReloads(c)
  PROVE  CardInv'
<1>1. /\ click[c].pc \in {"saved", "defer"} /\ Goto(c, "reload")
      /\ Ask(c, Reading) /\ ClickApart
      /\ UNCHANGED <<mine, jobs, news, session, draw, used, excuse>>
  BY DEF ClickReloads, ClickApart, around, refresher, cardGhosts
<1>2. CountInv /\ ClicksInv /\ ReloadInv /\ click[c] \in BusyClicks
  BY <1>1, ClickBusy DEF CardInv
<1>3. PICK to \in BusyClicks : Turned(c, to, "reload")
  BY <1>1, <1>2, ClickTurns DEF Turns
<1>4. to \in CardClicks /\ used' \in Nat
  BY <1>1, <1>2, CountTypes DEF CardClicks
<1>5. ClicksInv' /\ QueueInv' /\ CountInv' /\ DrawInv' /\ AgeInv'
  BY <1>1, <1>3, <1>4, ClickTurned DEF Turned
<1>6. ReloadInv'
  BY <1>1, <1>2, Begun, CallersAre
<1> QED BY <1>5, <1>6 DEF CardInv

LEMMA ClickReloadedStep ==
  ASSUME CardInv, NEW c \in Clicks, ClickReloaded(c)
  PROVE  CardInv'
<1>1. /\ click[c].pc = "reload" /\ reload' = [reload EXCEPT ![c] = NoRead]
      /\ ClickApart
      /\ UNCHANGED <<mine, jobs, news, session, used, excuse>>
  BY DEF ClickReloaded, ClickApart, around, refresher, cardGhosts
<1>2. CountInv /\ ClicksInv /\ ReloadInv /\ click[c] \in BusyClicks
  BY <1>1, ClickBusy DEF CardInv
<1>3. used' \in Nat /\ jobs \in Nat
  BY <1>1, <1>2, CountTypes
<1>4. ReloadInv'
  BY <1>1, <1>2, Dismissed, CallersAre
<1>5. CASE /\ click' = [click EXCEPT ![c].pc = "preview", ![c].rev = jobs]
           /\ UNCHANGED draw
  <2>1. PICK to \in BusyClicks : Turned(c, to, "preview")
    BY <1>2, <1>3, <1>5, ClickReads DEF Turns
  <2>2. to \in CardClicks
    BY <2>1 DEF CardClicks
  <2>3. ClicksInv' /\ QueueInv' /\ CountInv' /\ DrawInv' /\ AgeInv'
    BY <1>1, <1>3, <1>5, <2>1, <2>2, ClickTurned DEF Turned
  <2> QED BY <1>4, <2>3 DEF CardInv
<1>6. CASE Over(c) /\ (UNCHANGED draw \/ Redraw(c, session))
  <2>1. /\ ClicksInv' /\ QueueInv' /\ CountInv'
        /\ UNCHANGED draw => DrawInv' /\ AgeInv'
    BY <1>1, <1>3, <1>6, HandledClick, ClickTurned DEF Over
  <2>2. CASE Redraw(c, session)
    <3>1. Redraw(c, session')
      BY <1>1, <2>2
    <3>2. DrawInv' /\ AgeInv'
      BY <1>1, <2>1, <3>1, ClickDraws
    <3> QED BY <1>4, <2>1, <3>2 DEF CardInv
  <2> QED BY <1>4, <1>6, <2>1, <2>2 DEF CardInv
<1> QED BY <1>5, <1>6 DEF ClickReloaded

LEMMA ClickPreviewedStep ==
  ASSUME CardInv, NEW c \in Clicks, ClickPreviewed(c)
  PROVE  CardInv'
<1>1. /\ click[c].pc = "preview" /\ Over(c) /\ ClickApart
      /\ UNCHANGED <<mine, jobs, news, reload, used>>
  BY DEF ClickPreviewed, ClickApart, around, refresher
<1>2. CountInv /\ ClicksInv /\ ReloadInv /\ click[c] \in BusyClicks
  BY <1>1, ClickBusy DEF CardInv
<1>3. used' \in Nat /\ jobs \in Nat /\ ownJob' \in Nat /\ news' \subseteq Nat
  BY <1>1, <1>2, CountTypes DEF ClickApart
<1>4. ClicksInv' /\ QueueInv'
  BY <1>1, HandledClick, ClickTurned DEF Over
<1>5. CASE StillPicked(c)
  <2>1. PICK v \in click[c].rev..jobs :
          /\ session' = [session EXCEPT !.snap = v,
                           !.view = IF click[c].kind = "sync" THEN "sync" ELSE @]
          /\ SnapsOld(v) /\ Redraw(c, session')
    BY <1>5 DEF ClickPreviewed
  <2>2. v \in 0..jobs
    <3>1. click[c].rev \in Nat
      BY <1>2 DEF BusyClicks
    <3> QED BY <1>3, <3>1
  <2>3. session' \in Sessions(mine', jobs') /\ session'.own = session.own
    <3>1. session \in Sessions(mine, jobs)
      BY <1>2 DEF CountInv
    <3>2. PICK w \in {"raid", "sync"} :
            w = IF click[c].kind = "sync" THEN "sync" ELSE session.view
      BY <3>1 DEF Sessions
    <3>3. session' = [session EXCEPT !.snap = v, !.view = w]
      BY <2>1, <3>2
    <3> QED BY <1>1, <1>2, <2>2, <3>3, SessionMoves
  <2>4. CountInv'
    BY <1>1, <1>2, <1>3, <2>3 DEF CountInv, ClickApart
  <2>5. ReloadInv'
    BY <1>1, <1>2, <2>3 DEF ReloadInv
  <2>6. "backwards" \in excuse => "backwards" \in excuse'
    BY <2>1 DEF SnapsOld
  <2>7. DrawInv' /\ AgeInv'
    BY <1>1, <2>1, <2>3, <2>4, <2>6, ClickDraws
  <2> QED BY <1>4, <2>4, <2>5, <2>7 DEF CardInv
<1>6. CASE UNCHANGED <<session, draw, excuse>>
  <2>1. CountInv' /\ ReloadInv' /\ DrawInv' /\ AgeInv'
    BY <1>1, <1>3, <1>6, CardStays DEF ClickApart
  <2> QED BY <1>4, <2>1 DEF CardInv
<1> QED BY <1>5, <1>6 DEF ClickPreviewed

-----------------------------------------------------------------------------
(* Every step of the card.                                                 *)

LEMMA CardStep ==
  ASSUME CardInv, CardNext
  PROVE  CardInv'
<1>1. CASE Opens \/ SessionEnds \/ ViewerApply \/ \E j \in news : Published(j)
  BY <1>1, OpensStep, SessionEndsStep, ViewerApplyStep, PublishedStep
<1>2. CASE RunStep
  BY <1>2, RunBeginsStep, RunReloadedStep, RunPreviewedStep, RunEndSteps
     DEF RunStep
<1>3. CASE BehindStep
  BY <1>3, RefreshedStep, RefreshReturnsStep, BehindShows, LateSavedStep
     DEF BehindStep
<1>4. ASSUME NEW c \in Callers, AwaitStep(c)
      PROVE  CardInv'
  BY <1>4, LoadedStep, UnreadStep, BuiltStep, EditedStep DEF AwaitStep
<1>5. ASSUME NEW k \in Kinds, Clicked(k)
      PROVE  CardInv'
  BY <1>5, ClickedStep
<1>6. ASSUME NEW c \in Clicks, CardClickStep(c)
      PROVE  CardInv'
  BY <1>6, ClickAsksStep, ClickShowsStep, ClickSavesStep, ClickSavedStep,
     ClickAppliesStep, ClickReloadsStep, ClickReloadedStep, ClickPreviewedStep
     DEF CardClickStep
<1> QED BY <1>1, <1>2, <1>3, <1>4, <1>5, <1>6 DEF CardNext

LEMMA CardStutters ==
  ASSUME CardInv, UNCHANGED cardVars
  PROVE  CardInv'
<1>1. UNCHANGED <<phase, mine, jobs, news, session, ownJob, labels, queue,
                  behind, click, reload, draw, message, used, excuse>>
  BY DEF cardVars
<1>2. used' \in Nat /\ ownJob' \in Nat /\ news' \subseteq Nat
  BY <1>1, CountTypes DEF CardInv
<1> QED BY <1>1, <1>2, CardStays DEF CardInv

LEMMA CardBegins ==
  ASSUME CardInit \/ CardAt("off", "raid", "done")
  PROVE  CardInv
<1>1. PICK p \in {"off", "reply"}, view \in {"raid", "sync"},
           pc \in {"busy", "done"} : CardAt(p, view, pc)
  BY DEF CardInit
<1>2. /\ phase = p /\ mine = 0 /\ jobs = 0 /\ news = {} /\ ownJob = 0
      /\ session = [own |-> 0, view |-> view, snap |-> 0, seed |-> TRUE]
      /\ labels = {} /\ queue = NoQueue /\ behind = [pc |-> pc]
      /\ click = [c \in Clicks |-> NoClick]
      /\ reload = [c \in Callers |-> NoRead]
      /\ draw = [c \in Callers |-> NoDraw]
      /\ message = Live(session) /\ used \in Nat /\ excuse = {}
  BY <1>1 DEF CardAt
<1>3. /\ message \in Cards(0, 0) /\ ~message.expired
      /\ message.face.own = 0 /\ session.own = 0
      /\ session \in Sessions(0, 0)
  BY <1>1, <1>2 DEF Live, Face, Cards, Faces, Sessions
<1>4. CountInv
  BY <1>1, <1>2, <1>3 DEF CountInv
<1>5. QueueInv
  BY <1>1, <1>2, BehindKinds DEF QueueInv, NoQueue, Queues
<1>6. ClicksInv
  BY <1>2 DEF ClicksInv, CardClicks, NoClick
<1>7. ReloadInv
  <2>1. NoRead \in Reloads(mine) /\ NoRead.st = "off"
    BY DEF NoRead, Reloads
  <2> QED BY <1>2, <2>1 DEF ReloadInv
<1>8. DrawInv /\ AgeInv
  <2>1. NoDraw \in Draws(mine, jobs) /\ NoDraw.st = "off"
    BY DEF NoDraw, Draws
  <2> QED BY <1>1, <1>2, <1>3, <2>1, CallersAre DEF DrawInv, AgeInv, Dropped
<1> QED BY <1>4, <1>5, <1>6, <1>7, <1>8 DEF CardInv

\* A set with no two members.
LEMMA OneAtMost ==
  ASSUME NEW S, \A x, y \in S : x = y
  PROVE  Cardinality(S) <= 1
<1>1. CASE S = {}
  BY <1>1, FS_EmptySet
<1>2. CASE S # {}
  <2>1. PICK x \in S : S = {x}
    BY <1>2
  <2> QED BY <2>1, FS_Singleton
<1> QED BY <1>1, <1>2

\* The types of the card that its runs check.
LEMMA CardTypes ==
  ASSUME CardInv
  PROVE  CardTypeOK
<1>1. /\ {mine, jobs, ownJob, used} \subseteq Nat
      /\ phase \in {"off", "reply", "live", "over"}
      /\ session.view \in {"raid", "sync"} /\ session.own \in 0..mine
      /\ session.snap \in 0..jobs
  BY DEF CardInv, CountInv, Sessions
<1>2. labels \subseteq Labels /\ (labels # {} => queue.pc # "idle")
  BY DEF CardInv, QueueInv
<1>3. ASSUME NEW st \in {"waiting", "sent"}
      PROVE  Cardinality({c \in Callers : draw[c].st = st}) <= 1
  <2>1. \A c, d \in {x \in Callers : draw[x].st = st} : c = d
    BY <1>3 DEF CardInv, DrawInv, Dropped
  <2> QED BY <2>1, OneAtMost
<1>4. Cardinality({c \in Callers : reload[c].st # "off" /\ reload[c].latest}) <= 1
  <2>1. \A c, d \in {x \in Callers : reload[x].st # "off" /\ reload[x].latest} :
          c = d
    BY DEF CardInv, ReloadInv
  <2> QED BY <2>1, OneAtMost
<1> QED BY <1>1, <1>2, <1>3, <1>4 DEF CardTypeOK

\* Only an edit that came through changes the message: nothing is in flight
\* behind the expired card, and the payload that was sent is no older.
LEMMA MessageMoves ==
  ASSUME CardInv, CardNext, message' # message
  PROVE  /\ ~message.expired
         /\ message'.face.own >= message.face.own \/ "backwards" \in excuse
<1>1. CASE \E c \in Callers : Edited(c)
  <2>1. PICK c \in Callers : draw[c].st = "sent" /\ message' = draw[c].card
    BY <1>1 DEF Edited
  <2>2. ~message.expired
    BY <2>1 DEF CardInv, DrawInv
  <2>3. ASSUME "backwards" \notin excuse
        PROVE  message'.face.own >= message.face.own
    <3>1. message.face.own <= draw[c].card.face.own
      BY <2>1, <2>3 DEF CardInv, AgeInv
    <3>2. message.face.own \in Nat
      BY Counts DEF CardInv
    <3>3. draw[c].card.face.own \in Nat
      <4>1. draw[c].card \in Cards(mine, jobs) /\ mine \in Nat
        BY <2>1 DEF CardInv, CountInv, DrawInv, Draws, NoDraw
      <4> QED BY <4>1 DEF Cards, Faces
    <3> QED BY <2>1, <3>1, <3>2, <3>3
  <2> QED BY <2>2, <2>3
<1>2. CASE ~\E c \in Callers : Edited(c)
  <2>1. ~(Opens \/ SessionEnds \/ ViewerApply \/ \E j \in news : Published(j))
    BY DEF Opens, SessionEnds, ViewerApply, Published
  <2>2. ~(RunStep \/ BehindStep)
    BY DEF RunStep, RunBegins, RunReloaded, RunPreviewed, RunFails, RunDrawn,
           DrainEnds, BehindStep, Refreshed, RefreshReturns, RefreshLoaded,
           LateSaved, LateShown
  <2>3. ~\E c \in Callers : AwaitStep(c)
    BY <1>2 DEF AwaitStep, Loaded, Unread, Built
  <2>4. ~(\E k \in Kinds : Clicked(k)) /\ ~(\E c \in Clicks : CardClickStep(c))
    BY DEF Clicked, CardClickStep, ClickAsks, ClickShows, ClickSaves,
           ClickSaved, ClickApplies, ClickReloads, ClickReloaded,
           ClickPreviewed
  <2> QED BY <2>1, <2>2, <2>3, <2>4 DEF CardNext
<1> QED BY <1>1, <1>2

-----------------------------------------------------------------------------
(* What holds of both views.                                               *)

\* Whatever the scans, reloads, clicks and applies do and in whatever order
\* they come back, page and card keep their invariant.
THEOREM ViewsInvariant == ViewsSpec => []IInv
<1>1. ViewsInit => IInv
  BY PageInit, CardBegins DEF ViewsInit, IInv
<1>2. IInv /\ [ViewsNext]_viewVars => IInv'
  <2>1. SUFFICES ASSUME IInv, [ViewsNext]_viewVars
                 PROVE  IInv'
    OBVIOUS
  <2>2. CASE Next /\ UNCHANGED cardVars
    BY <2>1, <2>2, PageStep, CardStutters DEF IInv
  <2>3. CASE CardNext /\ UNCHANGED vars
    BY <2>1, <2>3, CardStep, PageStutters DEF IInv
  <2>4. CASE UNCHANGED viewVars
    <3>1. UNCHANGED vars /\ UNCHANGED cardVars
      BY <2>4 DEF viewVars
    <3> QED BY <2>1, <3>1, PageStutters, CardStutters DEF IInv
  <2> QED BY <2>1, <2>2, <2>3, <2>4 DEF ViewsNext
<1> QED BY <1>1, <1>2, PTL DEF ViewsSpec

\* The variables have their types: a request is asked for what the page can
\* hold, one payload of the card waits, one edit is under way and one reload
\* is the latest at most (latest-only-queue.js, redraw.js, session-state.js).
THEOREM ViewsTyped == ViewsSpec => []TypeOK
<1>1. IInv => TypeOK
  BY PageTypes, CardTypes DEF IInv, TypeOK
<1> QED BY <1>1, ViewsInvariant, PTL

\* A click on Sync posts every clear the file shows and the roster lacks,
\* whatever was read, retried or displaced since the page showed it.
THEOREM ClicksSendAll == ViewsSpec => ClickSendsAll
<1>1. IInv /\ [ViewsNext]_viewVars =>
        [send.pc # "create" /\ send'.pc = "create" /\ send'.f # NoFile
           => Clears(send'.at) \ roster \subseteq deltas]_vars
  <2>1. SUFFICES ASSUME IInv, [ViewsNext]_viewVars, ~UNCHANGED vars,
                        send.pc # "create", send'.pc = "create",
                        send'.f # NoFile
                 PROVE  Clears(send'.at) \ roster \subseteq deltas
    OBVIOUS
  <2>2. Next
    BY <2>1 DEF ViewsNext, viewVars
  <2> QED BY <2>1, <2>2, HandsOver DEF IInv
<1> QED BY <1>1, ViewsInvariant, PTL DEF ViewsSpec, ClickSendsAll

\* The page never hands over a new preview while a job of its file is
\* unsettled, in whatever order the answers on that job come.
THEOREM JobsKept == ViewsSpec => JobKept
<1>1. IInv /\ [ViewsNext]_viewVars =>
        [send.pc # "create" /\ send'.pc = "create" => ~unsettled]_vars
  <2>1. SUFFICES ASSUME IInv, [ViewsNext]_viewVars, ~UNCHANGED vars,
                        send.pc # "create", send'.pc = "create"
                 PROVE  ~unsettled
    OBVIOUS
  <2>2. Next
    BY <2>1 DEF ViewsNext, viewVars
  <2> QED BY <2>1, <2>2, HandsOver DEF IInv
<1> QED BY <1>1, ViewsInvariant, PTL DEF ViewsSpec, JobKept

\* The preview of a selected file never goes back to an older read of it.
THEOREM PageInOrder == ViewsSpec => RenderedInOrder
<1>1. IInv /\ [ViewsNext]_viewVars =>
        [rendered'.f = rendered.f /\ handle # NoFile
           => rendered'.r >= rendered.r]_vars
  <2>1. SUFFICES ASSUME IInv, [ViewsNext]_viewVars, ~UNCHANGED vars,
                        rendered'.f = rendered.f, handle # NoFile
                 PROVE  rendered'.r >= rendered.r
    OBVIOUS
  <2>2. Next
    BY <2>1 DEF ViewsNext, viewVars
  <2> QED BY <2>1, <2>2, ShowsNewer DEF IInv
<1> QED BY <1>1, ViewsInvariant, PTL DEF ViewsSpec, RenderedInOrder

\* The card never shows an older roster than before and nothing after it has
\* expired, unless a save brought its own, older document.
THEOREM CardInOrder == ViewsSpec => MessageInOrder
<1>1. IInv /\ [ViewsNext]_viewVars =>
        [/\ message.expired => message' = message
         /\ \/ message'.face.own >= message.face.own
            \/ "backwards" \in excuse]_message
  <2>1. SUFFICES ASSUME IInv, [ViewsNext]_viewVars, message' # message
                 PROVE  /\ message.expired => message' = message
                        /\ \/ message'.face.own >= message.face.own
                           \/ "backwards" \in excuse
    OBVIOUS
  <2>2. CardNext
    BY <2>1 DEF ViewsNext, viewVars, cardVars
  <2> QED BY <2>1, <2>2, MessageMoves DEF IInv
<1> QED BY <1>1, ViewsInvariant, PTL DEF ViewsSpec, MessageInOrder
=============================================================================
