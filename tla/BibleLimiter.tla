---------------------------- MODULE BibleLimiter ----------------------------
(***************************************************************************)
(* The one limiter every lostark.bible request of a bot process goes       *)
(* through: services/auto-manage/bible/rate-limit.js (BibleRequestLimiter) *)
(* as commands.js creates it and bible/client.js and raid-log/capture.js   *)
(* use it.                                                                 *)
(*                                                                         *)
(* A request waits in a bounded queue while every slot is taken, leaves it *)
(* by a dispatch, its own timer, its caller's abort signal or an opened    *)
(* circuit, and starts in a microtask after its dispatch.  One step stands *)
(* for one stretch of code without a promise boundary; microtasks are not  *)
(* given priority over timers, so a step may be later than in a real run.  *)
(* Time is counted in units of `clock`.                                    *)
(***************************************************************************)
EXTENDS Integers, Sequences, FiniteSets

CONSTANTS
  Reqs,            \* requests handed to run(), one value per call
  MaxSlots,        \* `max`: requests in flight at once
  MaxPending,      \* requests that may wait for a slot
  QueueWait,       \* maxQueueWaitMs
  RetryAfters,     \* Retry-After values an answer 429 may carry, 0: none
  DefaultBackoff,  \* backoff of a 429 that carries none
  MaxBackoff,      \* MAX_BIBLE_RATE_LIMIT_BACKOFF_MS
  Horizon          \* bound: the clock stops here

ASSUME SlotsAssumption == MaxSlots \in Nat \ {0} /\ IsFiniteSet(Reqs)
ASSUME QueueAssumption == MaxPending \in Nat /\ QueueWait \in Nat \ {0}
ASSUME BackoffAssumption ==
  /\ RetryAfters \subseteq Nat
  /\ DefaultBackoff \in Nat \ {0}
  /\ MaxBackoff \in Nat \ {0}
ASSUME ClockAssumption == Horizon \in Nat

VARIABLES
  clock,         \* nowMs()
  active,        \* this.active
  queue,         \* this.queue
  blockedUntil,  \* this.blockedUntil
  req            \* [Reqs -> Request]: one call of run() and its promise

limiterVars == <<active, queue, blockedUntil, req>>

None == -1  \* a deadline that was never set

Stages == {"idle", "queued", "starting", "running", "settling", "done"}
\* "refused" stands for every error of the limiter and the signal: backoff,
\* queue full, queue timeout, abort.
Outcomes == {"none", "ok", "failed", "refused"}
Request == [st : Stages, out : Outcomes, deadline : Nat \cup {None},
            aborted : BOOLEAN]

Fresh == [st |-> "idle", out |-> "none", deadline |-> None,
          aborted |-> FALSE]

LimiterInit ==
  /\ clock = 0
  /\ active = 0
  /\ queue = <<>>
  /\ blockedUntil = 0
  /\ req = [r \in Reqs |-> Fresh]

-----------------------------------------------------------------------------
(* Helpers.                                                                *)

Blocked == clock < blockedUntil

PastDeadline(x) == x.deadline # None /\ clock >= x.deadline

\* The promise of a request is settled, or will be once its slot is returned.
Rejected == [Fresh EXCEPT !.st = "done", !.out = "refused"]
Ended(out) == [Fresh EXCEPT !.st = "settling", !.out = out]

\* _rejectQueued: every waiting request fails with the backoff error.
RejectQueued(rq, q) ==
  [r \in Reqs |-> IF \E i \in DOMAIN q : q[i] = r
                    THEN Rejected ELSE rq[r]]

\* A waiting entry is in the queue once; it is spliced out at its place.
Removed(q, r) ==
  LET at == CHOOSE i \in DOMAIN q : q[i] = r
  IN SubSeq(q, 1, at - 1) \o SubSeq(q, at + 1, Len(q))

\* What a shifted request becomes: past its deadline it is rejected and no
\* slot is spent on it.
Shifted(x) ==
  IF PastDeadline(x) THEN Rejected ELSE [x EXCEPT !.st = "starting"]

\* The positions the loop of _dispatch shifts, with `used` slots taken: it
\* stops when the requests before a position have filled the slots.
Alive(q, rq, n) == {i \in 1..n : ~PastDeadline(rq[q[i]])}
Taken(q, rq, used) ==
  {i \in 1..Len(q) : used + Cardinality(Alive(q, rq, i - 1)) < MaxSlots}

\* _dispatch on queue q with `used` slots taken.
Dispatch(q, rq, used) ==
  IF Blocked
    THEN /\ queue' = <<>>
         /\ req' = RejectQueued(rq, q)
         /\ active' = used
    ELSE LET taken == Taken(q, rq, used)
             n == Cardinality(taken)
         IN /\ queue' = SubSeq(q, n + 1, Len(q))
            /\ req' = [r \in Reqs |-> IF \E i \in taken : q[i] = r
                                        THEN Shifted(rq[r]) ELSE rq[r]]
            /\ active' = used + Cardinality(Alive(q, rq, n))

-----------------------------------------------------------------------------
(* The calls and callbacks.                                                *)

\* run(): refused at once, or queued and dispatched in the same breath.  The
\* timer is armed only when every slot is taken.
Full == active >= MaxSlots /\ Len(queue) >= MaxPending

Run(r) ==
  /\ req[r].st = "idle"
  /\ UNCHANGED <<clock, blockedUntil>>
  /\ IF req[r].aborted \/ Blocked \/ Full
       THEN /\ req' = [req EXCEPT ![r] = Rejected]
            /\ UNCHANGED <<active, queue>>
       ELSE Dispatch(Append(queue, r),
              [req EXCEPT ![r].st = "queued",
                 ![r].deadline = IF active >= MaxSlots
                                   THEN clock + QueueWait ELSE None],
              active)

\* Mutated form: the microtask trusts the check made at the dispatch.
StartUnchecked(r) ==
  /\ req[r].st = "starting"
  /\ req' = [req EXCEPT ![r].st = "running"]
  /\ UNCHANGED <<clock, active, queue, blockedUntil>>

\* Mutated form: a start that is called off never reaches the finally.
StartLeaks(r) ==
  /\ req[r].st = "starting"
  /\ req' = [req EXCEPT ![r] =
       IF @.aborted \/ PastDeadline(@) THEN Rejected
       ELSE [@ EXCEPT !.st = "running"]]
  /\ UNCHANGED <<clock, active, queue, blockedUntil>>

\* Mutated form: a start that is called off returns its slot at once, and the
\* finally returns it again.
StartReturnsTwice(r) ==
  /\ req[r].st = "starting"
  /\ LET off == req[r].aborted \/ PastDeadline(req[r])
     IN /\ req' = [req EXCEPT ![r] = IF off THEN Ended("refused")
                                     ELSE [@ EXCEPT !.st = "running"]]
        /\ active' = IF off THEN active - 1 ELSE active
  /\ UNCHANGED <<clock, queue, blockedUntil>>

\* The microtask after a dispatch: the signal and the deadline once more.
Start(r) ==
  /\ req[r].st = "starting"
  /\ req' = [req EXCEPT ![r] =
       IF @.aborted \/ PastDeadline(@) THEN Ended("refused")
       ELSE [@ EXCEPT !.st = "running"]]
  /\ UNCHANGED <<clock, active, queue, blockedUntil>>

\* The request ends without a 429; a fired signal ends it with its reason.
Answer(r) ==
  /\ req[r].st = "running"
  /\ \E out \in IF req[r].aborted THEN {"refused"} ELSE {"ok", "failed"} :
       req' = [req EXCEPT ![r] = Ended(out)]
  /\ UNCHANGED <<clock, active, queue, blockedUntil>>

\* The backoff of a 429, capped.
Backoff(retryAfter) ==
  LET asked == IF retryAfter > 0 THEN retryAfter ELSE DefaultBackoff
  IN IF asked < MaxBackoff THEN asked ELSE MaxBackoff

\* _openCircuit: every waiting request is rejected, a longer backoff stays.
OpenCircuit(rq, retryAfter) ==
  LET until == clock + Backoff(retryAfter)
  IN /\ blockedUntil' = IF until > blockedUntil THEN until ELSE blockedUntil
     /\ queue' = <<>>
     /\ req' = RejectQueued(rq, queue)

\* The request is answered 429: the catch of _dispatch opens the circuit.
Throttled(r) ==
  /\ req[r].st = "running"
  /\ \E retryAfter \in RetryAfters :
       OpenCircuit([req EXCEPT ![r] = Ended("refused")], retryAfter)
  /\ UNCHANGED <<clock, active>>

\* Mutated form: a failed request's slot is returned but not handed on.
SettleNoDispatch(r) ==
  /\ req[r].st = "settling"
  /\ req' = [req EXCEPT ![r].st = "done"]
  /\ active' = active - 1
  /\ UNCHANGED <<clock, queue, blockedUntil>>

\* The finally of _dispatch: the slot is returned and handed on.
Settle(r) ==
  /\ req[r].st = "settling"
  /\ Dispatch(queue, [req EXCEPT ![r].st = "done"], active - 1)
  /\ UNCHANGED <<clock, blockedUntil>>

\* The timer of a waiting request: it leaves the queue.
QueueTimeout(r) ==
  /\ req[r].st = "queued"
  /\ PastDeadline(req[r])
  /\ queue' = Removed(queue, r)
  /\ req' = [req EXCEPT ![r] = Rejected]
  /\ UNCHANGED <<clock, active, blockedUntil>>

\* The caller's signal fires: a waiting request leaves the queue, any other
\* one sees it at its next check.
Abort(r) ==
  /\ req[r].st \in {"idle", "queued", "starting", "running"}
  /\ ~req[r].aborted
  /\ LET fired == [req EXCEPT ![r].aborted = TRUE]
     IN IF req[r].st = "queued"
          THEN /\ queue' = Removed(queue, r)
               /\ req' = [req EXCEPT ![r] = Rejected]
          ELSE /\ req' = fired
               /\ UNCHANGED queue
  /\ UNCHANGED <<clock, active, blockedUntil>>

Tick ==
  /\ clock < Horizon
  /\ clock' = clock + 1
  /\ UNCHANGED limiterVars

LimiterStep(r) ==
  \/ Run(r) \/ Start(r) \/ Answer(r) \/ Throttled(r)
  \/ Settle(r) \/ QueueTimeout(r) \/ Abort(r)

\* A caller that is done with a request may make another one.
Renew(r) ==
  /\ req[r].st = "done"
  /\ req' = [req EXCEPT ![r] = Fresh]
  /\ UNCHANGED <<clock, active, queue, blockedUntil>>

LimiterNext == Tick \/ \E r \in Reqs : LimiterStep(r) \/ Renew(r)

LimiterSpec == LimiterInit /\ [][LimiterNext]_<<clock, limiterVars>>

-----------------------------------------------------------------------------
(* Properties.                                                             *)

LimiterTypeOK ==
  /\ clock \in Nat
  /\ active \in Nat
  /\ queue \in Seq(Reqs)
  /\ blockedUntil \in Nat
  /\ req \in [Reqs -> Request]

InFlight == {r \in Reqs : req[r].st \in {"starting", "running", "settling"}}

\* No slot is lost or spent twice: whatever way a request ended (answer, 429,
\* throw before the request, late deadline, abort), the counter is exactly
\* the number of requests that still have to pass the finally of _dispatch,
\* and never more than the limit.
SlotsAccounted == active = Cardinality(InFlight) /\ active <= MaxSlots

\* No lost wake-up and no leak of the queue: a request waits only while every
\* slot is taken by a request that will hand its slot on and no backoff runs
\* (one that stayed queued across a 429 would be sent into the same throttle
\* the moment a slot is returned); the requests that wait are the entries of
\* the queue, once each, within its bound.
NoLostWakeup ==
  /\ queue # <<>> => active = MaxSlots /\ ~Blocked
  /\ Len(queue) <= MaxPending
  /\ \A r \in Reqs : req[r].st = "queued" <=> \E i \in DOMAIN queue :
                                                queue[i] = r
  /\ \A i, j \in DOMAIN queue : queue[i] = queue[j] => i = j

\* A request that waited past its deadline is never sent, in whichever of the
\* timer, the dispatch and the start microtask notices first.
NeverSentLate ==
  [][\A r \in Reqs : req[r].st # "running" /\ req'[r].st = "running"
       => ~PastDeadline(req[r])]_<<clock, limiterVars>>
=============================================================================
