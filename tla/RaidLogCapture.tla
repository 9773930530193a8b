--------------------------- MODULE RaidLogCapture ---------------------------
(***************************************************************************)
(* /raid-log images: captureRaidLog of services/raid-log/capture.js with   *)
(* its render queue (render-queue.js), its image cache (image-cache.js,    *)
(* cache/memory-cache.js) and the warm browser page, on top of the request *)
(* limiter, which a page navigation shares with the sync requests of       *)
(* bible/client.js.                                                        *)
(*                                                                         *)
(* An image is represented by the version of the upstream log that its     *)
(* page had loaded.  The awaits of capturePage are grouped into attempt,   *)
(* prepare, navigate and shoot; the deadline may fire between any two.     *)
(***************************************************************************)
EXTENDS BibleLimiter

CONSTANTS
  Calls,       \* calls of captureRaidLog; a call's navigation is a request
  Keys,        \* cache keys: one view of one log
  Logs,        \* upstream logs
  LogOf,       \* [Keys -> Logs]: the log of a view
  NoCall,      \* no call
  MaxRender,   \* maxPending of createRenderQueue
  TimeoutMs,   \* timeoutMs: the budget of one call
  Workloads,   \* bound: who takes part, [asks : [some calls -> what they
               \* ask for], others : requests of other features, from :
               \* the clock they start at, cached : views cached before]
  MaxVersion,  \* bound: how often an upstream log changes
  LastCall     \* bound: no call begins later

ASSUME CallsAssumption == Calls \subseteq Reqs /\ NoCall \notin Calls \cup Logs
ASSUME KeysAssumption == Keys # {} /\ LogOf \in [Keys -> Logs]
ASSUME WorkloadAssumption ==
  \A w \in Workloads :
    /\ DOMAIN w.asks \subseteq Calls
    /\ w.asks \in [DOMAIN w.asks -> [key : Keys, refresh : BOOLEAN]]
    /\ w.others \subseteq Reqs \ Calls
    /\ w.from \in 0..Horizon
    /\ w.cached \subseteq Keys
ASSUME BudgetAssumption ==
  /\ MaxRender \in Nat
  /\ TimeoutMs \in Nat \ {0}
  /\ {MaxVersion, LastCall} \subseteq Nat

VARIABLES
  rendering,  \* `active` of the render queue
  pending,    \* `pending` of the render queue: calls, oldest first
  cache,      \* [Keys -> version], 0: no entry
  captures,   \* pendingCaptures: [Keys -> Calls \cup {NoCall}]
  warm,       \* the warm browser page: the log and version it has loaded
  call,       \* [Calls -> CallState]
  site,       \* [Logs -> version]: the log as lostark.bible serves it
  floors      \* ghost, [Calls -> SUBSET Calls]: refreshes of the same log
              \* that had been accepted when the call began

captureVars == <<rendering, pending, cache, captures, warm, call, site,
                 floors>>
vars == <<clock, limiterVars, captureVars>>

NoPage == [log |-> NoCall, version |-> 0]
Page == [log : Logs \cup {NoCall}, version : Nat]

Steps == {"idle", "shared", "queued", "picked", "attempt", "prepare",
          "navigate", "shoot", "ending", "settled", "done"}

\* `page` is the browser page the call holds, `seen` (ghost) the version of
\* the log when a refresh was accepted, `opened` (ghost) that a refresh has
\* begun to load the page.
CallState ==
  [pc : Steps, key : Keys, refresh : BOOLEAN, deadline : Nat,
   owner : Calls \cup {NoCall}, ok : BOOLEAN, version : Nat, page : Page,
   expired : BOOLEAN, retried : BOOLEAN, seen : Nat, opened : BOOLEAN]

NewCall(key, refresh, step) ==
  [pc |-> step, key |-> key, refresh |-> refresh, deadline |-> 0,
   owner |-> NoCall, ok |-> FALSE, version |-> 0, page |-> NoPage,
   expired |-> FALSE, retried |-> FALSE, seen |-> 0, opened |-> FALSE]

\* The page of the last cached view of a log may still be warm.
WarmPages(w) ==
  {NoPage} \cup {[log |-> LogOf[k], version |-> 1] : k \in w.cached}

\* A call or request that takes no part has nothing left to do.
Init ==
  /\ active = 0 /\ queue = <<>> /\ blockedUntil = 0
  /\ rendering = FALSE /\ pending = <<>>
  /\ captures = [k \in Keys |-> NoCall]
  /\ site = [l \in Logs |-> 1]
  /\ floors = [c \in Calls |-> {}]
  /\ \E w \in Workloads :
       /\ clock = w.from
       /\ cache = [k \in Keys |-> IF k \in w.cached THEN 1 ELSE 0]
       /\ warm \in WarmPages(w)
       /\ req = [r \in Reqs |-> IF r \in Calls \cup w.others
                                  THEN Fresh ELSE [Fresh EXCEPT !.st = "done"]]
       /\ call = [c \in Calls |->
            IF c \in DOMAIN w.asks
              THEN NewCall(w.asks[c].key, w.asks[c].refresh, "idle")
              ELSE NewCall(CHOOSE k \in Keys : TRUE, FALSE, "done")]

-----------------------------------------------------------------------------
(* Helpers.                                                                *)

CallLog(c) == LogOf[call[c].key]
Late(c) == clock >= call[c].deadline

Goto(c, step) == call' = [call EXCEPT ![c].pc = step]
Fail(c) == call' = [call EXCEPT ![c].pc = "ending", ![c].page = NoPage]
Succeed(c, version) ==
  call' = [call EXCEPT ![c].pc = "ending", ![c].ok = TRUE,
             ![c].version = version, ![c].page = NoPage]

\* fromCache: no image while a refresh of the same log is still pending.  The
\* read that finds an expired or evicted entry leaves none behind.
RefreshPending(c) ==
  \E k \in Keys : /\ LogOf[k] = CallLog(c)
                  /\ captures[k] # NoCall
                  /\ call[captures[k]].refresh
ReadsCache(c) == ~call[c].refresh /\ ~RefreshPending(c)

Hit(c) == ReadsCache(c) /\ cache[call[c].key] > 0
Miss(c) == cache' = IF ReadsCache(c) THEN [cache EXCEPT ![call[c].key] = 0]
                                     ELSE cache

\* A pending capture another caller of the same view may wait for.
Shareable(c) ==
  LET other == captures[call[c].key]
  IN other # NoCall /\ (call[c].refresh => call[other].refresh)

\* onAccepted: a refresh cuts new callers off from older captures of its log.
Accepted(c) ==
  [k \in Keys |->
     IF k = call[c].key THEN c
     ELSE IF call[c].refresh /\ LogOf[k] = CallLog(c) THEN NoCall
     ELSE captures[k]]

\* dispatch of the render queue, with cs the calls as they are by then.
RenderNext(cs, q, busy) ==
  IF busy \/ q = <<>>
    THEN rendering' = busy /\ pending' = q /\ call' = cs
    ELSE /\ rendering' = TRUE
         /\ pending' = Tail(q)
         /\ call' = [cs EXCEPT ![Head(q)].pc = "picked"]

\* Refreshes of the call's log accepted so far.
AcceptedRefreshes(c) ==
  {r \in Calls : call[r].refresh /\ call[r].seen > 0
                 /\ CallLog(r) = CallLog(c)}

-----------------------------------------------------------------------------
(* captureRaidLog.                                                         *)

\* The synchronous part of a call: a cached image, a shared capture, a full
\* queue, or a place in the render queue.
Begin(c) ==
  /\ call[c].pc = "idle"
  /\ clock <= LastCall
  /\ floors' = [floors EXCEPT ![c] = AcceptedRefreshes(c)]
  /\ \/ /\ Hit(c)
        /\ call' = [call EXCEPT ![c].pc = "done", ![c].ok = TRUE,
                      ![c].version = cache[call[c].key]]
        /\ UNCHANGED <<rendering, pending, captures, cache>>
     \/ /\ Miss(c) /\ Shareable(c)
        /\ call' = [call EXCEPT ![c].pc = "shared",
                      ![c].owner = captures[call[c].key]]
        /\ UNCHANGED <<rendering, pending, captures>>
     \/ /\ Miss(c) /\ ~Shareable(c)
        /\ rendering /\ Len(pending) >= MaxRender
        /\ Goto(c, "done")
        /\ UNCHANGED <<rendering, pending, captures>>
     \/ /\ Miss(c) /\ ~Shareable(c)
        /\ ~rendering \/ Len(pending) < MaxRender
        /\ captures' = Accepted(c)
        /\ RenderNext([call EXCEPT ![c].pc = "queued",
                         ![c].deadline = clock + TimeoutMs,
                         ![c].seen = IF call[c].refresh
                                       THEN site[CallLog(c)] ELSE 0],
                      Append(pending, c), rendering)
  /\ UNCHANGED <<clock, limiterVars, warm, site>>

\* The callers that wait for another call's capture get its outcome.
SharedDone(c) ==
  /\ call[c].pc = "shared"
  /\ LET other == call[call[c].owner]
     IN /\ other.pc \in {"settled", "done"}
        /\ call' = [call EXCEPT ![c].pc = "done", ![c].ok = other.ok,
                      ![c].version = other.version, ![c].owner = NoCall]
  /\ UNCHANGED <<clock, limiterVars, rendering, pending, cache, captures,
                 warm, site, floors>>

\* The timer of a waiting render job.
RenderTimeout(c) ==
  /\ call[c].pc = "queued" /\ Late(c)
  /\ pending' = Removed(pending, c)
  /\ Goto(c, "settled")
  /\ UNCHANGED <<clock, limiterVars, rendering, cache, captures, warm, site,
                 floors>>

\* capturePage takes the warm page.
TakePage(c) ==
  /\ call' = [call EXCEPT ![c].pc = "prepare", ![c].page = warm]
  /\ warm' = NoPage

\* Mutated form: it drops only the view it was asked for.
InvalidatedOwnKey(c) == [cache EXCEPT ![call[c].key] = 0]

\* A refresh that runs drops every cached view of its log.
Invalidated(c) ==
  [k \in Keys |-> IF LogOf[k] = CallLog(c) THEN 0 ELSE cache[k]]

\* The microtask that runs a picked job, up to the first await of capturePage.
RunJob(c) ==
  /\ call[c].pc = "picked"
  /\ \/ /\ Late(c)
        /\ Fail(c)
        /\ UNCHANGED <<cache, warm>>
     \/ /\ ~Late(c) /\ Hit(c)
        /\ Succeed(c, cache[call[c].key])
        /\ UNCHANGED <<cache, warm>>
     \/ /\ ~Late(c)
        /\ IF call[c].refresh THEN cache' = Invalidated(c) ELSE Miss(c)
        /\ TakePage(c)
  /\ UNCHANGED <<clock, limiterVars, rendering, pending, captures, site,
                 floors>>

\* The second attempt after a browser crash, within the same budget.
Attempt(c) ==
  /\ call[c].pc = "attempt"
  /\ IF Late(c) THEN Fail(c) /\ UNCHANGED warm ELSE TakePage(c)
  /\ UNCHANGED <<clock, limiterVars, rendering, pending, cache, captures,
                 site, floors>>

\* A page that crashed, sat idle too long or is asked back by memory pressure
\* is dropped; then the page is loaded through the limiter, unless it shows
\* the log already.
Prepare(c) ==
  /\ call[c].pc = "prepare"
  /\ \/ /\ call[c].expired \/ Late(c)
        /\ Fail(c)
     \/ /\ ~call[c].expired /\ ~Late(c)
        /\ \E page \in {call[c].page, NoPage} :
             IF call[c].refresh \/ page.log # CallLog(c)
               THEN call' = [call EXCEPT ![c].pc = "navigate",
                               ![c].page = NoPage]
               ELSE call' = [call EXCEPT ![c].pc = "shoot",
                               ![c].page = page]
  /\ UNCHANGED <<clock, limiterVars, rendering, pending, cache, captures, warm,
                 site, floors>>

\* A crash of the browser: the job tries once more within its budget.
Crash(c) ==
  IF call[c].retried \/ call[c].expired
    THEN Fail(c)
    ELSE call' = [call EXCEPT ![c].pc = "attempt", ![c].retried = TRUE,
                    ![c].page = NoPage]

\* The limiter takes the navigation, with the call's abort signal.
Navigate(c) ==
  /\ call[c].pc = "navigate"
  /\ Run(c)
  /\ UNCHANGED captureVars

\* page.goto: what the page shows from here on is the log as served now.
Load(c) ==
  /\ Start(c)
  /\ call' = IF req'[c].st = "running"
               THEN [call EXCEPT ![c].opened = call[c].refresh,
                       ![c].page = [log |-> CallLog(c),
                                    version |-> site[CallLog(c)]]]
               ELSE call
  /\ UNCHANGED <<rendering, pending, cache, captures, warm, site, floors>>

\* The await of bibleLimiter.run returns; the next one makes a new request.
Loaded(c) ==
  /\ call[c].pc = "navigate" /\ req[c].st = "done"
  /\ IF req[c].out = "ok" /\ ~call[c].expired
       THEN Goto(c, "shoot")
       ELSE Fail(c) \/ (req[c].out = "failed" /\ Crash(c))
  /\ Renew(c)
  /\ UNCHANGED <<rendering, pending, cache, captures,
                 warm, site, floors>>

\* Tabs, assets and the screenshot.  A success caches the image and keeps the
\* page for the next call.
Shoot(c) ==
  /\ call[c].pc = "shoot"
  /\ \/ /\ ~call[c].expired /\ ~Late(c)
        /\ Succeed(c, call[c].page.version)
        /\ cache' = [cache EXCEPT ![call[c].key] = call[c].page.version]
        /\ warm' = call[c].page
     \/ /\ Fail(c) \/ Crash(c)
        /\ UNCHANGED <<cache, warm>>
  /\ UNCHANGED <<clock, limiterVars, rendering, pending, captures, site,
                 floors>>

\* Mutated form: the deadline closes the browser but aborts nothing.
ExpireNoAbort(c) ==
  /\ call[c].pc \in {"prepare", "navigate", "shoot"}
  /\ Late(c) /\ ~call[c].expired
  /\ call' = [call EXCEPT ![c].expired = TRUE]
  /\ UNCHANGED <<clock, limiterVars>>
  /\ UNCHANGED <<rendering, pending, cache, captures, warm, site, floors>>

\* The deadline timer of capturePage: the signal fires, the browser closes.
Expire(c) ==
  /\ call[c].pc \in {"prepare", "navigate", "shoot"}
  /\ Late(c) /\ ~call[c].expired
  /\ call' = [call EXCEPT ![c].expired = TRUE]
  /\ IF call[c].pc = "navigate" /\ req[c].st \notin {"settling", "done"}
       THEN Abort(c) ELSE UNCHANGED <<clock, limiterVars>>
  /\ UNCHANGED <<rendering, pending, cache, captures, warm, site, floors>>

\* Mutated form: a failed render keeps the browser slot.
EndOnSuccess(c) ==
  /\ call[c].pc = "ending"
  /\ IF call[c].ok
       THEN RenderNext([call EXCEPT ![c].pc = "settled"], pending, FALSE)
       ELSE Goto(c, "settled") /\ UNCHANGED <<rendering, pending>>
  /\ UNCHANGED <<clock, limiterVars, cache, captures, warm, site, floors>>

\* The finally of the render queue: the next job is picked.
End(c) ==
  /\ call[c].pc = "ending"
  /\ RenderNext([call EXCEPT ![c].pc = "settled", ![c].expired = FALSE,
                    ![c].retried = FALSE], pending, FALSE)
  /\ UNCHANGED <<clock, limiterVars, cache, captures, warm, site, floors>>

\* The finally of captureRaidLog: the call leaves pendingCaptures if it is
\* still the one registered there.
Clear(c) ==
  /\ call[c].pc = "settled"
  /\ Goto(c, "done")
  /\ captures' = [k \in Keys |-> IF captures[k] = c THEN NoCall
                                                    ELSE captures[k]]
  /\ UNCHANGED <<clock, limiterVars, rendering, pending, cache, warm, site,
                 floors>>

-----------------------------------------------------------------------------
(* The surroundings.                                                       *)

\* lostark.bible serves a new version of the log.
Publish(l) ==
  /\ site[l] < MaxVersion
  /\ site' = [site EXCEPT ![l] = @ + 1]
  /\ UNCHANGED <<clock, limiterVars, rendering, pending, cache, captures,
                 warm, call, floors>>

\* The other users of the limiter: sync, profile and catalog requests.
OtherRequest(r) ==
  /\ r \in Reqs \ Calls
  /\ \/ clock <= LastCall /\ Run(r)
     \/ Start(r)
     \/ req[r].st \in {"queued", "starting"} /\ Abort(r)
  /\ UNCHANGED captureVars

\* What the limiter does with any request once it has been dispatched.
LimiterCallback(r) ==
  /\ Answer(r) \/ Throttled(r) \/ Settle(r) \/ QueueTimeout(r)
  /\ UNCHANGED captureVars

CallStep(c) ==
  \/ SharedDone(c) \/ RenderTimeout(c) \/ RunJob(c) \/ Attempt(c)
  \/ Prepare(c) \/ Navigate(c) \/ Load(c) \/ Loaded(c) \/ Shoot(c)
  \/ Expire(c) \/ End(c) \/ Clear(c)

Time == Tick /\ UNCHANGED captureVars

Next ==
  \/ Time
  \/ \E c \in Calls : Begin(c) \/ CallStep(c)
  \/ \E r \in Reqs : OtherRequest(r) \/ LimiterCallback(r)
  \/ \E l \in Logs : Publish(l)

\* Timers, microtasks and finally blocks run; a navigation ends at the latest
\* when its browser is closed.  Nothing makes lostark.bible answer the other
\* requests: they may hang for good.
Fairness ==
  /\ WF_vars(Time)
  /\ WF_vars(\E c \in Calls : CallStep(c))
  /\ WF_vars(\E r \in Reqs : (Settle(r) \/ QueueTimeout(r))
                             /\ UNCHANGED captureVars)
  /\ WF_vars(\E c \in Calls : req[c].aborted /\ Answer(c)
                              /\ UNCHANGED captureVars)

Spec == Init /\ [][Next]_vars
FairSpec == Spec /\ Fairness

-----------------------------------------------------------------------------
(* Properties.                                                             *)

TypeOK ==
  /\ LimiterTypeOK
  /\ rendering \in BOOLEAN
  /\ pending \in Seq(Calls)
  /\ cache \in [Keys -> Nat]
  /\ captures \in [Keys -> Calls \cup {NoCall}]
  /\ warm \in Page
  /\ call \in [Calls -> CallState]
  /\ site \in [Logs -> Nat]
  /\ floors \in [Calls -> SUBSET Calls]

Rendering(c) == call[c].pc \in {"picked", "attempt", "prepare", "navigate",
                                "shoot", "ending"}

\* One browser at a time and no lost render slot: whatever way a job ends,
\* the slot is either held by exactly one running job or free with nobody
\* waiting for it, and a call waits exactly while it is in the queue.
RenderSlotSound ==
  /\ rendering <=> \E c \in Calls : Rendering(c)
  /\ \A c, d \in Calls : Rendering(c) /\ Rendering(d) => c = d
  /\ pending # <<>> => rendering
  /\ \A c \in Calls : call[c].pc = "queued" <=> \E i \in DOMAIN pending :
                                                  pending[i] = c

\* No slot of either queue is lost or spent twice: one browser runs at a time,
\* and requests and renders alike hand their slot on whatever way they end.
NoSlotLost == SlotsAccounted /\ RenderSlotSound

\* A refresh that reports success shows the log as it was when the refresh was
\* accepted, or later, and separates new callers from older images: no call
\* that begins later is given an image loaded before it, over any interleaving
\* of shared captures, queued renders, the cache and the warm page, unless that
\* refresh's budget ran out before it could load the page.
NoImageOlderThanRefresh ==
  \A c \in Calls : call[c].ok =>
    /\ call[c].seen > 0 => call[c].version >= call[c].seen
    /\ call[c].pc = "done" =>
         \A r \in floors[c] :
           \/ call[c].version >= call[r].seen
           \/ ~call[r].opened /\ Late(r)

\* Whatever hangs on the other side, nobody waits for ever: a caller of
\* /raid-log gets an image or an error, since waits for a shared capture, a
\* render slot, a limiter slot and the page all end with the call's budget,
\* and a request leaves the limiter's queue although the requests ahead of it
\* may never be answered.
NobodyWaitsForever ==
  <>[](/\ \A c \in Calls : call[c].pc \in {"idle", "done"}
       /\ \A r \in Reqs : req[r].st # "queued")
=============================================================================
