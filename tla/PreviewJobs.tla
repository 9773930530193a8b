---------------------------- MODULE PreviewJobs ----------------------------
(***************************************************************************)
(* Local Sync preview jobs: bot/services/local-sync/core/preview-jobs.js   *)
(* (the documents and their guarded updates) and apply-preview-job.js (the *)
(* applyPreviewJob call that claims one job and carries it to an outcome). *)
(*                                                                         *)
(* A worker is one applyPreviewJob call; it runs in a process and takes    *)
(* one step per await.  A creator is one createPreviewJob call.  Every     *)
(* Mongo operation is one atomic step, every Mongo call may throw, and a   *)
(* call that threw had no effect.  Time is discrete and shared.            *)
(*                                                                         *)
(* A "clear" is one bucket of the job's deltas: a character, a raid, a     *)
(* mode and its gates.  party is the set of clears that also carry a party *)
(* delta, one target per clear.  All wired callers pass the batch writer,  *)
(* so the owner's clears are saved by one save or by none.                 *)
(***************************************************************************)
EXTENDS Integers, FiniteSets

CONSTANTS
  Jobs,      \* job ids, one per document ever created
  Users,     \* Discord users
  Workers,   \* applyPreviewJob calls
  Creators,  \* createPreviewJob calls
  Procs,     \* bot processes (a deploy overlap runs two)
  Clears,    \* cleared raid buckets
  Tokens,    \* Local Reader link tokens
  NoToken,   \* no stored token
  NoJob,     \* a worker or creator that is idle
  Owner,     \* [Jobs -> Users] owner of a job
  Scope,     \* [Jobs -> {"full", "solo"}] companion scope of a job
  Deltas,    \* [Jobs -> SUBSET Clears] the stored deltas
  Party,     \* [Jobs -> SUBSET Clears] those with a party delta
  Home,      \* [Workers \cup Creators -> Procs]
  Lease,     \* PREVIEW_APPLY_LEASE_MS in ticks
  Ttl,       \* PREVIEW_JOB_TTL_MS in ticks
  Switches,  \* bound: the sync modes a user may switch to
  LastCall,  \* bound: no call starts after this tick
  Horizon    \* bound: the clock stops here

ASSUME PreviewJobsAssumption ==
  /\ Owner \in [Jobs -> Users]
  /\ Scope \in [Jobs -> {"full", "solo"}]
  /\ Deltas \in [Jobs -> SUBSET Clears]
  /\ Party \in [Jobs -> SUBSET Clears]
  /\ \A j \in Jobs : Party[j] \subseteq Deltas[j]
  /\ \A j \in Jobs : Scope[j] = "solo" => Party[j] = {}
  /\ Home \in [Workers \cup Creators -> Procs]
  /\ Workers \cap Creators = {}
  /\ NoToken \notin Tokens
  /\ NoJob \notin Jobs \cup Workers
  /\ Lease \in Nat \ {0}
  /\ Ttl \in Nat
  /\ Lease < Ttl
  /\ Switches \subseteq {"off", "bible", "local"}
  /\ LastCall \in Nat
  /\ Horizon \in Nat

VARIABLES
  now,         \* the clock
  status,      \* job document: status, or "unborn" / "deleted"
  applyingAt,  \* job document: start of the apply lease, NoTime outside it
  expiresAt,   \* job document: TTL index field
  auth,        \* job document: partyAuthorized
  party,       \* job document: partyDeltas
  result,      \* job document: result.applied
  jtoken,      \* job document: tokenFingerprint
  mode,        \* user document: the sync mode that is on
  token,       \* user document: lastLocalSyncToken
  short,       \* tokens whose stored expiry was shrunk after a write
  minted,      \* tokens handed out so far (a nonce makes each one new)
  progress,    \* user document: clears recorded on the owner's roster
  partyDone,   \* clears recorded on party members' rosters, per owner
  slot,        \* per process: users holding the auto-manage sync slot
  pc, cur, lease, sum, snapAuth, snapParty, snapToken, \* workers
  tries, owns,                                       \* workers
  cpc, cjob, cnow,                                           \* creators
  published,   \* history: jobs whose owner refresh event went out
  interrupted, \* history: jobs claimed from a lease that ran out
  spared,      \* history: jobs a supersede left alone, being applied
  wrote,       \* history: clears this job wrote on its owner's roster
  late,        \* history: those of them written after the authorization
  offered      \* history: party clears that reached the party writer

docVars    == <<status, applyingAt, expiresAt, auth, party, result>>
userVars   == <<mode, token, short, minted>>
rosterVars == <<progress, partyDone>>
snapVars   == <<snapAuth, snapParty, snapToken, tries>>
callData   == <<cur, lease, sum, snapVars, owns>>
callVars   == <<pc, callData>>
createVars == <<cpc, cjob, cnow, jtoken>>
history    == <<published, interrupted, spared, wrote, late, offered>>
others     == <<userVars, rosterVars, slot, createVars, history>>
vars == <<now, docVars, userVars, rosterVars, slot, callVars, createVars,
          history>>

NoTime   == -1
Terminal == {"applied", "cancelled", "superseded", "failed"}
Statuses == {"unborn", "pending", "applying", "deleted"} \cup Terminal
Modes    == {"off", "bible", "local"}

\* Program counters of an apply call.  In Held the call acts under its lease.
Held  == {"load", "refuse", "slot", "lookup", "busy", "write", "fail",
          "release", "authorize", "propagate", "record", "finish", "reread",
          "recover"}
Steps == Held \cup {"idle", "publish", "unwind"}

\* Entries of result.applied: own clears and clears written for the party.
Own(S)     == S \X {"own"}
Mates(S)   == S \X {"party"}
Entries    == Own(Clears) \cup Mates(Clears)
OwnPart(r) == {c \in Clears : <<c, "own">> \in r}

TypeOK ==
  /\ now \in Nat
  /\ status \in [Jobs -> Statuses]
  /\ applyingAt \in [Jobs -> Nat \cup {NoTime}]
  /\ expiresAt \in [Jobs -> Nat]
  /\ auth \in [Jobs -> BOOLEAN]
  /\ party \in [Jobs -> SUBSET Clears]
  /\ result \in [Jobs -> SUBSET Entries]
  /\ jtoken \in [Jobs -> Tokens \cup {NoToken}]
  /\ mode \in [Users -> Modes]
  /\ token \in [Users -> Tokens \cup {NoToken}]
  /\ short \subseteq Tokens
  /\ minted \subseteq Tokens
  /\ progress \in [Users -> SUBSET Clears]
  /\ partyDone \in [Users -> SUBSET Clears]
  /\ slot \in [Procs -> SUBSET Users]
  /\ pc \in [Workers -> Steps]
  /\ cur \in [Workers -> Jobs \cup {NoJob}]
  /\ lease \in [Workers -> Nat]
  /\ sum \in [Workers -> SUBSET Entries]
  /\ snapAuth \in [Workers -> BOOLEAN]
  /\ snapParty \in [Workers -> SUBSET Clears]
  /\ snapToken \in [Workers -> Tokens \cup {NoToken}]
  /\ tries \in [Workers -> BOOLEAN]
  /\ owns \in [Workers -> BOOLEAN]
  /\ cpc \in [Creators -> {"idle", "queued", "inserting"}]
  /\ cjob \in [Creators -> Jobs \cup {NoJob}]
  /\ cnow \in [Creators -> Nat]
  /\ published \subseteq Jobs
  /\ interrupted \subseteq Jobs
  /\ spared \subseteq Jobs
  /\ wrote \in [Jobs -> SUBSET Clears]
  /\ late \in [Jobs -> SUBSET Clears]
  /\ offered \in [Jobs -> SUBSET Clears]

Init ==
  /\ now = 0
  /\ status = [j \in Jobs |-> "unborn"]
  /\ applyingAt = [j \in Jobs |-> NoTime]
  /\ expiresAt = [j \in Jobs |-> 0]
  /\ auth = [j \in Jobs |-> FALSE]
  /\ party = Party
  /\ result = [j \in Jobs |-> {}]
  /\ jtoken = [j \in Jobs |-> NoToken]
  /\ mode \in [Users -> Modes]
  /\ token = [u \in Users |-> NoToken]
  /\ short = {}
  /\ minted = {}
  /\ progress = [u \in Users |-> {}]
  /\ partyDone = [u \in Users |-> {}]
  /\ slot = [p \in Procs |-> {}]
  /\ pc = [w \in Workers |-> "idle"]
  /\ cur = [w \in Workers |-> NoJob]
  /\ lease = [w \in Workers |-> 0]
  /\ sum = [w \in Workers |-> {}]
  /\ snapAuth = [w \in Workers |-> FALSE]
  /\ snapParty = [w \in Workers |-> {}]
  /\ snapToken = [w \in Workers |-> NoToken]
  /\ tries = [w \in Workers |-> FALSE]
  /\ owns = [w \in Workers |-> FALSE]
  /\ cpc = [k \in Creators |-> "idle"]
  /\ cjob = [k \in Creators |-> NoJob]
  /\ cnow = [k \in Creators |-> 0]
  /\ published = {}
  /\ interrupted = {}
  /\ spared = {}
  /\ wrote = [j \in Jobs |-> {}]
  /\ late = [j \in Jobs |-> {}]
  /\ offered = [j \in Jobs |-> {}]

-----------------------------------------------------------------------------
(***************************************************************************)
(* The document and its filters.                                           *)
(***************************************************************************)

LeaseActive(j, t) == status[j] = "applying" /\ applyingAt[j] + Lease > t

\* Mutated forms: the lease is not looked at; a stale lease never ends.
ReclaimableAlways(j, t) == status[j] \in {"pending", "applying"}
ReclaimablePending(j, t) == status[j] = "pending"

\* reclaimableStatusFilter: pending, or an apply whose lease ran out.
Reclaimable(j, t) ==
  \/ status[j] = "pending"
  \/ status[j] = "applying" /\ applyingAt[j] + Lease <= t

Claimable(j) == Reclaimable(j, now) /\ expiresAt[j] > now

\* Mutated form: the filter forgets which claim the lease belongs to.
OwnsAnyLease(w) == status[cur[w]] = "applying"

\* applyingOwnerFilter: the job is still under the lease this call started.
Owns(w) == status[cur[w]] = "applying" /\ applyingAt[cur[w]] = lease[w]

\* isCompanionScopeEnabledForUser
ScopeEnabled(j) ==
  mode[Owner[j]] = IF Scope[j] = "full" THEN "local" ELSE "bible"

-----------------------------------------------------------------------------
(***************************************************************************)
(* createPreviewJob: the in-process lock, the supersede, the insert.       *)
(***************************************************************************)

\* POST /preview-job passed its gate (current token, scope on) and calls
\* createPreviewJob, which reads the clock and queues on the user's lock.
CreateCall(k, j) ==
  /\ cpc[k] = "idle" /\ now <= LastCall
  /\ status[j] = "unborn" /\ \A i \in Creators : cjob[i] # j
  /\ ScopeEnabled(j) /\ token[Owner[j]] # NoToken
  /\ cpc' = [cpc EXCEPT ![k] = "queued"]
  /\ cjob' = [cjob EXCEPT ![k] = j]
  /\ cnow' = [cnow EXCEPT ![k] = now]
  /\ jtoken' = [jtoken EXCEPT ![j] = token[Owner[j]]]
  /\ UNCHANGED <<now, docVars, userVars, rosterVars, slot, callVars, history>>

\* Mutated form: creates are not serialized.
LockIgnored(k) == TRUE

\* runPreviewCreateExclusive: one create per user inside one process.
LockFree(k) ==
  \A i \in Creators : (Home[i] = Home[k] /\ cpc[i] = "inserting")
                        => Owner[cjob[i]] # Owner[cjob[k]]

\* updateMany: every reclaimable job of the owner becomes superseded.
CreateSupersede(k) ==
  /\ cpc[k] = "queued" /\ LockFree(k)
  /\ LET own  == {j \in Jobs : Owner[j] = Owner[cjob[k]]}
         gone == {j \in own : Reclaimable(j, cnow[k])}
     IN /\ status' = [j \in Jobs |-> IF j \in gone THEN "superseded"
                                                   ELSE status[j]]
        /\ applyingAt' = [j \in Jobs |-> IF j \in gone THEN NoTime
                                                       ELSE applyingAt[j]]
        /\ spared' = spared \cup {j \in own \ gone : status[j] = "applying"}
  /\ cpc' = [cpc EXCEPT ![k] = "inserting"]
  /\ UNCHANGED <<now, expiresAt, auth, party, result, userVars, rosterVars,
                 slot, callVars, cjob, cnow, jtoken, published, interrupted,
                 wrote, late, offered>>

CreateInsert(k) ==
  /\ cpc[k] = "inserting"
  /\ status' = [status EXCEPT ![cjob[k]] = "pending"]
  /\ expiresAt' = [expiresAt EXCEPT ![cjob[k]] = cnow[k] + Ttl]
  /\ cpc' = [cpc EXCEPT ![k] = "idle"]
  /\ cjob' = [cjob EXCEPT ![k] = NoJob]
  /\ cnow' = [cnow EXCEPT ![k] = 0]
  /\ UNCHANGED <<now, applyingAt, auth, party, result, userVars, rosterVars,
                 slot, callVars, jtoken, history>>

\* Either database call of the create threw; the lock is released.
CreateThrow(k) ==
  /\ cpc[k] \in {"queued", "inserting"}
  /\ cpc[k] = "queued" => LockFree(k)
  /\ cpc' = [cpc EXCEPT ![k] = "idle"]
  /\ cjob' = [cjob EXCEPT ![k] = NoJob]
  /\ cnow' = [cnow EXCEPT ![k] = 0]
  /\ UNCHANGED <<now, docVars, userVars, rosterVars, slot, callVars, jtoken,
                 history>>

-----------------------------------------------------------------------------
(***************************************************************************)
(* Cancel, and Mongo's TTL index (the monitor deletes at its own pace).    *)
(***************************************************************************)

Cancel(j) ==
  /\ now <= LastCall /\ Claimable(j)
  /\ status' = [status EXCEPT ![j] = "cancelled"]
  /\ applyingAt' = [applyingAt EXCEPT ![j] = NoTime]
  /\ UNCHANGED <<now, expiresAt, auth, party, result, callVars, others>>

Expire(j) ==
  /\ status[j] \notin {"unborn", "deleted"} /\ expiresAt[j] <= now
  /\ status' = [status EXCEPT ![j] = "deleted"]
  /\ applyingAt' = [applyingAt EXCEPT ![j] = NoTime]
  /\ UNCHANGED <<now, expiresAt, auth, party, result, callVars, others>>

-----------------------------------------------------------------------------
(***************************************************************************)
(* applyPreviewJob, one step per await.                                    *)
(***************************************************************************)

Goto(w, from, to) == pc[w] = from /\ pc' = [pc EXCEPT ![w] = to]

\* Mutated form: a status outside the schema's list.
LeaveUnlisted(w, st, res) ==
  /\ Owns(w)
  /\ status' = [status EXCEPT ![cur[w]] =
                  IF st = "applied" THEN "done" ELSE st]
  /\ applyingAt' = [applyingAt EXCEPT ![cur[w]] = NoTime]
  /\ result' = [result EXCEPT ![cur[w]] = res]

\* The guarded update the call made: new status, its lease dropped, and the
\* stored result.  It matches nothing when the lease is no longer this call's.
Leave(w, st, res) ==
  LET j == cur[w]
  IN IF Owns(w)
       THEN /\ status' = [status EXCEPT ![j] = st]
            /\ applyingAt' = [applyingAt EXCEPT ![j] = NoTime]
            /\ result' = [result EXCEPT ![j] = res]
       ELSE UNCHANGED <<status, applyingAt, result>>

\* Mutated form: the claim leaves the TTL field alone.
ExpiryKept(j) == expiresAt[j]

\* A claim keeps the TTL index away from a job that is being applied.
ClaimExpiry(j) == now + Ttl

\* claimPreviewJob; claimApplyContext keeps the claimed document.
Claim(w, j) ==
  /\ Goto(w, "idle", "load") /\ now <= LastCall /\ Claimable(j)
  /\ status' = [status EXCEPT ![j] = "applying"]
  /\ applyingAt' = [applyingAt EXCEPT ![j] = now]
  /\ expiresAt' = [expiresAt EXCEPT ![j] = ClaimExpiry(j)]
  /\ interrupted' = IF status[j] = "applying" THEN interrupted \cup {j}
                                              ELSE interrupted
  /\ cur' = [cur EXCEPT ![w] = j]
  /\ lease' = [lease EXCEPT ![w] = now]
  /\ sum' = [sum EXCEPT ![w] = result[j]]
  /\ snapAuth' = [snapAuth EXCEPT ![w] = auth[j]]
  /\ snapParty' = [snapParty EXCEPT ![w] = party[j]]
  /\ UNCHANGED <<now, auth, party, result, userVars, rosterVars, slot,
                 snapToken, tries, owns, createVars, published, spared, wrote,
                 late, offered>>

\* loadApplyUser, then the scope check on that snapshot.
LoadUser(w) ==
  /\ Goto(w, "load", IF ScopeEnabled(cur[w]) THEN "slot" ELSE "refuse")
  /\ snapToken' = [snapToken EXCEPT ![w] = token[Owner[cur[w]]]]
  /\ tries' = [tries EXCEPT ![w] =
                   ~(Deltas[cur[w]] \subseteq progress[Owner[cur[w]]])]
  /\ UNCHANGED <<now, docVars, cur, lease, sum, snapAuth, snapParty, owns,
                 others>>

\* rejectDisabledCompanionScope: failed, and the stored result is cleared.
Refuse(w) ==
  /\ Goto(w, "refuse", "unwind")
  /\ Leave(w, "failed", {})
  /\ UNCHANGED <<now, expiresAt, auth, party, callData, others>>

\* Mutated form: the slot is taken without looking.
SlotNeverTaken(w) == FALSE

\* The auto-manage sync slot of this user is taken in this process.
SlotTaken(w) == Owner[cur[w]] \in slot[Home[w]]

\* acquireAutoManageSyncSlot reserves the slot in memory before its await;
\* from here on the slot is this call's to give back.
TakeSlot(w) ==
  /\ Goto(w, "slot", IF SlotTaken(w) THEN "busy" ELSE "lookup")
  /\ slot' = [slot EXCEPT ![Home[w]] = @ \cup {Owner[cur[w]]}]
  /\ owns' = [owns EXCEPT ![w] = ~SlotTaken(w)]
  /\ UNCHANGED <<now, docVars, userVars, rosterVars, cur, lease, sum,
                 snapVars, createVars, history>>

\* The awaited user lookup came back; acquireApplySlot ignores the cooldown.
SlotGranted(w) ==
  /\ Goto(w, "lookup", "write")
  /\ UNCHANGED <<now, docVars, callData, others>>

\* The slot is taken: back to pending, the stored result stays.
Busy(w) ==
  /\ Goto(w, "busy", "unwind")
  /\ Leave(w, "pending", result[cur[w]])
  /\ UNCHANGED <<now, expiresAt, auth, party, callData, others>>

\* Mutated form: the result of an earlier attempt is dropped.
MergedFresh(w, W) == Own(W)

\* mergeEarlierAttempt: the writes of earlier attempts, then these.
Merged(w, W) == sum[w] \cup Own(W)

\* eligiblePartyDeltas, or the deltas an earlier attempt was authorized for.
ToPropagate(w, applied) ==
  IF snapAuth[w] THEN snapParty[w] ELSE snapParty[w] \cap OwnPart(applied)

\* applyLocalSyncDeltas on the owner's roster, the merge with the earlier
\* attempt, and the choice of the next stage.  W is what the save wrote; a
\* clear of todo outside W was refused for good (item level, missing
\* character).  Nothing is tried when the loaded roster had every clear.
Write(w) ==
  LET j    == cur[w]
      u    == Owner[j]
      todo == Deltas[j] \ progress[u]
      Save(W, to) ==
        /\ pc' = [pc EXCEPT ![w] = to]
        /\ progress' = [progress EXCEPT ![u] = @ \cup W]
        /\ sum' = [sum EXCEPT ![w] = Merged(w, W)]
        /\ wrote' = [wrote EXCEPT ![j] = @ \cup W]
        /\ late' = [late EXCEPT ![j] = IF snapAuth[w] THEN @ \cup W ELSE @]
  IN /\ pc[w] = "write"
     /\ \/ tries[w] /\ ~ScopeEnabled(j) /\ Save({}, "fail")
        \/ tries[w] /\ Save({}, "release")
        \/ \E W \in SUBSET todo :
             /\ IF tries[w] THEN ScopeEnabled(j) ELSE W = {}
             /\ Save(W, IF ToPropagate(w, Merged(w, W)) = {}
                          THEN "record"
                          ELSE IF snapAuth[w] THEN "propagate"
                                              ELSE "authorize")
     /\ UNCHANGED <<now, docVars, userVars, partyDone, slot, cur, lease,
                    snapVars, owns, createVars, published, interrupted, spared,
                    offered>>

\* resolveRejectedSummary: the scope was switched off before the write.
Fail(w) ==
  /\ Goto(w, "fail", "unwind")
  /\ Leave(w, "failed", sum[w])
  /\ UNCHANGED <<now, expiresAt, auth, party, callData, others>>

\* resolveRejectedSummary: a write error, the result kept for the retry.
Release(w) ==
  /\ Goto(w, "release", "unwind")
  /\ Leave(w, "pending", sum[w])
  /\ UNCHANGED <<now, expiresAt, auth, party, callData, others>>

\* authorizePreviewParty, which throws when the lease was lost.
Authorize(w) ==
  LET j == cur[w]
      D == ToPropagate(w, sum[w])
  IN /\ Goto(w, "authorize", IF Owns(w) THEN "propagate" ELSE "recover")
     /\ IF Owns(w)
          THEN /\ auth' = [auth EXCEPT ![j] = TRUE]
               /\ party' = [party EXCEPT ![j] = D]
               /\ snapAuth' = [snapAuth EXCEPT ![w] = TRUE]
               /\ snapParty' = [snapParty EXCEPT ![w] = D]
          ELSE UNCHANGED <<auth, party, snapAuth, snapParty>>
     /\ UNCHANGED <<now, status, applyingAt, expiresAt, result, cur, lease,
                    sum, snapToken, tries, owns, others>>

\* propagatePartyDeltas: the targets are saved owner by owner.  W was
\* written, E failed, the rest had progress already or was refused.
Propagate(w) ==
  LET j == cur[w]
      u == Owner[j]
      D == snapParty[w]
  IN /\ pc[w] = "propagate"
     /\ \E W \in SUBSET (D \ partyDone[u]) :
        \E E \in SUBSET (D \ (partyDone[u] \cup W)) :
       /\ pc' = [pc EXCEPT ![w] = IF E = {} THEN "record" ELSE "release"]
       /\ partyDone' = [partyDone EXCEPT ![u] = @ \cup W]
       /\ sum' = [sum EXCEPT ![w] = @ \cup Mates(W)]
       /\ offered' = [offered EXCEPT ![j] = @ \cup (D \ E)]
       /\ UNCHANGED <<now, docVars, userVars, progress, slot, cur, lease,
                      snapVars, owns, createVars, published, interrupted,
                      spared, wrote, late>>

\* Mutated form: whatever token is stored now is shrunk.
MayShrinkCurrent(w) ==
  /\ sum[w] # {}
  /\ snapToken[w] # NoToken /\ token[Owner[cur[w]]] = snapToken[w]

\* shrinkSourceTokenAfterWrite: the token loaded by this call made the job.
MayShrink(w) ==
  /\ sum[w] # {}
  /\ snapToken[w] # NoToken /\ snapToken[w] = jtoken[cur[w]]
  /\ token[Owner[cur[w]]] = snapToken[w]

\* The best-effort stamps before the finish; a web apply never shrinks.
Record(w) ==
  /\ Goto(w, "record", "finish")
  /\ \/ UNCHANGED short
     \/ MayShrink(w) /\ short' = short \cup {snapToken[w]}
  /\ UNCHANGED <<now, docVars, mode, token, minted, rosterVars, slot,
                 callData, createVars, history>>

\* finishPreviewJob
Finish(w) ==
  /\ Goto(w, "finish", IF Owns(w) THEN "publish" ELSE "reread")
  /\ Leave(w, "applied", sum[w])
  /\ UNCHANGED <<now, expiresAt, auth, party, callData, others>>

\* Mutated form: the refresh event goes out whatever the job became.
RereadBlind(w) ==
  /\ Goto(w, "reread", "publish")
  /\ UNCHANGED <<now, docVars, callData, others>>

\* finishAppliedPreview found the lease lost and reads the job again.
Reread(w) ==
  /\ Goto(w, "reread", IF status[cur[w]] = "applied" THEN "publish"
                                                     ELSE "unwind")
  /\ UNCHANGED <<now, docVars, callData, others>>

\* announceOwnerApplied
Publish(w) ==
  /\ Goto(w, "publish", "unwind")
  /\ published' = published \cup {cur[w]}
  /\ UNCHANGED <<now, docVars, userVars, rosterVars, slot, callData,
                 createVars, interrupted, spared, wrote, late, offered>>

\* A database call of the try block threw.
Throw(w) ==
  /\ pc[w] \in {"load", "refuse", "busy", "fail", "release",
                "authorize", "propagate", "finish", "reread"}
  /\ pc' = [pc EXCEPT ![w] = "recover"]
  /\ UNCHANGED <<now, docVars, callData, others>>

\* recoverFailedPreviewApply: a release, whose own failure is swallowed.
\* Before the write sum is the stored result, so storing it changes nothing.
Recover(w) ==
  /\ Goto(w, "recover", "unwind")
  /\ \/ Leave(w, "pending", sum[w])
     \/ UNCHANGED <<status, applyingAt, result>>
  /\ UNCHANGED <<now, expiresAt, auth, party, callData, others>>

\* Mutated forms: any call of the user frees the slot; no call does.
SlotAfterAnyone(w) == [slot EXCEPT ![Home[w]] = @ \ {Owner[cur[w]]}]
SlotAfterNobody(w) == slot

\* releaseApplySlotBestEffort
SlotAfter(w) ==
  IF owns[w] THEN [slot EXCEPT ![Home[w]] = @ \ {Owner[cur[w]]}] ELSE slot

\* The catch of acquireAutoManageSyncSlot: the lookup threw, the reservation
\* is taken back there, and applyPreviewJob never learns of it.
LookupThrow(w) ==
  /\ Goto(w, "lookup", "recover")
  /\ slot' = [slot EXCEPT ![Home[w]] = @ \ {Owner[cur[w]]}]
  /\ owns' = [owns EXCEPT ![w] = FALSE]
  /\ UNCHANGED <<now, docVars, userVars, rosterVars, cur, lease, sum,
                 snapVars, createVars, history>>

\* The finally block: the slot is returned if this call took it.
Unwind(w) ==
  /\ Goto(w, "unwind", "idle")
  /\ slot' = SlotAfter(w)
  /\ cur' = [cur EXCEPT ![w] = NoJob]
  /\ lease' = [lease EXCEPT ![w] = 0]
  /\ sum' = [sum EXCEPT ![w] = {}]
  /\ snapAuth' = [snapAuth EXCEPT ![w] = FALSE]
  /\ snapParty' = [snapParty EXCEPT ![w] = {}]
  /\ snapToken' = [snapToken EXCEPT ![w] = NoToken]
  /\ tries' = [tries EXCEPT ![w] = FALSE]
  /\ owns' = [owns EXCEPT ![w] = FALSE]
  /\ UNCHANGED <<now, docVars, userVars, rosterVars, createVars, history>>

-----------------------------------------------------------------------------
(***************************************************************************)
(* The rest of the program, and the environment.                           *)
(***************************************************************************)

\* setLocalSyncEnabled / setBibleAutoSyncEnabled; switching a mode off, or
\* over by force, drops the stored token.
SetMode(u, m) ==
  /\ now <= LastCall /\ m # mode[u]
  /\ mode' = [mode EXCEPT ![u] = m]
  /\ token' = [token EXCEPT ![u] = IF mode[u] = "off" THEN @ ELSE NoToken]
  /\ UNCHANGED <<now, docVars, short, minted, rosterVars, slot, callVars,
                 createVars, history>>

\* rotateLocalSyncToken
Rotate(u, t) ==
  /\ now <= LastCall /\ mode[u] # "off" /\ t \notin minted
  /\ token' = [token EXCEPT ![u] = t]
  /\ minted' = minted \cup {t}
  /\ UNCHANGED <<now, docVars, mode, short, rosterVars, slot, callVars,
                 createVars, history>>

\* A process dies: its calls, its locks and its slots are gone.
Crash(p) ==
  /\ LET dead == {w \in Workers : Home[w] = p /\ pc[w] # "idle"}
         gone == {k \in Creators : Home[k] = p /\ cpc[k] # "idle"}
     IN /\ dead \cup gone # {}
        /\ pc' = [w \in Workers |-> IF w \in dead THEN "idle" ELSE pc[w]]
        /\ cur' = [w \in Workers |-> IF w \in dead THEN NoJob ELSE cur[w]]
        /\ lease' = [w \in Workers |-> IF w \in dead THEN 0 ELSE lease[w]]
        /\ sum' = [w \in Workers |-> IF w \in dead THEN {} ELSE sum[w]]
        /\ snapAuth' = [w \in Workers |->
                          IF w \in dead THEN FALSE ELSE snapAuth[w]]
        /\ snapParty' = [w \in Workers |->
                           IF w \in dead THEN {} ELSE snapParty[w]]
        /\ snapToken' = [w \in Workers |->
                           IF w \in dead THEN NoToken ELSE snapToken[w]]
        /\ tries' = [w \in Workers |->
                         IF w \in dead THEN FALSE ELSE tries[w]]
        /\ owns' = [w \in Workers |-> IF w \in dead THEN FALSE ELSE owns[w]]
        /\ cpc' = [k \in Creators |-> IF k \in gone THEN "idle" ELSE cpc[k]]
        /\ cjob' = [k \in Creators |-> IF k \in gone THEN NoJob ELSE cjob[k]]
        /\ cnow' = [k \in Creators |-> IF k \in gone THEN 0 ELSE cnow[k]]
  /\ slot' = [slot EXCEPT ![p] = {}]
  /\ UNCHANGED <<now, docVars, userVars, rosterVars, jtoken, history>>

Tick ==
  /\ now < Horizon
  /\ now' = now + 1
  /\ UNCHANGED <<docVars, callVars, others>>

\* One await of an apply call that returns.
Advance(w) ==
  \/ LoadUser(w) \/ Refuse(w) \/ TakeSlot(w) \/ SlotGranted(w) \/ Busy(w)
  \/ Write(w) \/ Fail(w) \/ Release(w) \/ Authorize(w) \/ Propagate(w)
  \/ Record(w) \/ Finish(w) \/ Reread(w) \/ Publish(w) \/ Recover(w)
  \/ Unwind(w)

Creating(k) ==
  \/ \E j \in Jobs : CreateCall(k, j)
  \/ CreateSupersede(k) \/ CreateInsert(k) \/ CreateThrow(k)

Next ==
  \/ \E k \in Creators : Creating(k)
  \/ \E w \in Workers, j \in Jobs : Claim(w, j)
  \/ \E w \in Workers : Advance(w) \/ Throw(w) \/ LookupThrow(w)
  \/ \E j \in Jobs : Cancel(j) \/ Expire(j)
  \/ \E u \in Users, m \in Switches : SetMode(u, m)
  \/ \E u \in Users, t \in Tokens : Rotate(u, t)
  \/ \E p \in Procs : Crash(p)
  \/ Tick

Spec == Init /\ [][Next]_vars

-----------------------------------------------------------------------------
(***************************************************************************)
(* Properties.                                                             *)
(***************************************************************************)

\* A call that may still change its job holds the lease of that job, or its
\* lease time has passed; w holds job j.
Holds(w, j) == pc[w] \in Held /\ cur[w] = j /\ Owns(w)

\* Two apply calls never own one job together, however late a call that lost
\* its lease wakes up: applyingAt tells the calls apart although it is only a
\* timestamp.
OneLeaseHolder ==
  \A j \in Jobs : \A v, w \in Workers : Holds(v, j) /\ Holds(w, j) => v = w

\* A claim moves the TTL index past the end of the lease, so an interrupted
\* apply can be claimed again before Mongo deletes the job (README: interrupted
\* applies recover automatically).
LeaseEndsBeforeExpiry ==
  \A j \in Jobs : status[j] = "applying"
    => applyingAt[j] + Lease < expiresAt[j]

\* The owner refresh event, which carries the job id, goes out for an applied
\* job and for no other outcome (announceOwnerApplied).
EventOnlyWhenApplied ==
  \A j \in published : status[j] \in {"applied", "deleted"}

\* Inside one process, two apply calls of one user never write at the same
\* time, whichever of their jobs was claimed twice.
Writing(w) == owns[w] /\ pc[w] # "idle"
OneWriterPerUser ==
  \A v, w \in Workers :
    /\ Writing(v) /\ Writing(w)
    /\ Home[v] = Home[w] /\ Owner[cur[v]] = Owner[cur[w]]
    => v = w

\* The slot is held exactly while some call of the process owns it: no
\* outcome, thrown error or crash leaves a user locked out.
SlotMatchesOwner ==
  \A p \in Procs : slot[p] =
    {Owner[cur[w]] : w \in {x \in Workers : Home[x] = p /\ owns[x]}}

\* Newer scans supersede older pending previews (README), with the exception
\* this states: what a scan may leave pending besides itself is a job that was
\* being applied at that moment and was released later.
\* The create lock lives in one process, so this is checked for one process.
OneOpenPreview ==
  \A i, j \in Jobs :
    /\ status[i] = "pending" /\ status[j] = "pending"
    /\ Owner[i] = Owner[j] /\ i # j
    => i \in spared \/ j \in spared

\* While a lease runs, nobody but the call that owns it changes the job: no
\* second claim, cancel, newer preview or TTL deletion.
LeaseProtects ==
  [][\A j \in Jobs :
       /\ LeaseActive(j, now)
       /\ <<status[j], applyingAt[j], expiresAt[j], auth[j], party[j],
            result[j]>>'
          # <<status[j], applyingAt[j], expiresAt[j], auth[j], party[j],
              result[j]>>
       => \E w \in Workers : Holds(w, j) /\ pc'[w] # pc[w]]_vars

\* A settled job stays as it settled until Mongo deletes it: no late finish,
\* release or cancel reopens or relabels it.
SettledStays ==
  [][\A j \in Jobs : status[j] \in Terminal
       => status'[j] \in {status[j], "deleted"}]_vars

\* Once an uninterrupted job is applied, every clear it wrote on the owner's
\* roster before the party deltas were authorized reached the party writer,
\* whatever failed and was retried in between (mergeEarlierAttempt).
PartyClearsKept ==
  \A j \in Jobs :
    status[j] = "applied" /\ j \notin interrupted
    => (wrote[j] \ late[j]) \cap Party[j] \subseteq offered[j]

\* The same for an apply that was interrupted and claimed again.
PartyClearsKeptOnRecovery ==
  \A j \in Jobs : status[j] = "applied"
    => (wrote[j] \ late[j]) \cap Party[j] \subseteq offered[j]

\* The same for every clear the sync wrote, also those a retry wrote after
\* the party deltas had been authorized.
EveryWriteReachesParty ==
  \A j \in Jobs :
    status[j] = "applied" /\ j \notin interrupted
    => wrote[j] \cap Party[j] \subseteq offered[j]

\* Only the link whose scan was written gets its stored life shortened,
\* never one rotated in while the job waited or was applied.
OnlySpentTokensShrink ==
  \A t \in short : \E j \in Jobs : jtoken[j] = t /\ wrote[j] # {}

-----------------------------------------------------------------------------
(***************************************************************************)
(* Progress.  The event loop resumes every call, the clock runs and Mongo's *)
(* TTL monitor deletes.  Users, crashes and errors are not fair.            *)
(***************************************************************************)

Fairness ==
  /\ WF_vars(Tick)
  /\ \A j \in Jobs : WF_vars(Expire(j))
  /\ \A w \in Workers : WF_vars(Advance(w))
  /\ \A k \in Creators : WF_vars(CreateSupersede(k))
  /\ \A k \in Creators : WF_vars(CreateInsert(k))

FairSpec == Spec /\ Fairness

\* A job under a running lease settles, or can be claimed again once the
\* lease is over and before Mongo deletes it: interrupted applies recover.
InterruptedApplyRecovers ==
  \A j \in Jobs :
    LeaseActive(j, now) ~> Claimable(j) \/ status[j] \in Terminal

\* The per-user slot always comes back.
SlotComesBack ==
  \A p \in Procs, u \in Users : u \in slot[p] ~> u \notin slot[p]

-----------------------------------------------------------------------------
(***************************************************************************)
(* The abstract lifecycle this implements.                                 *)
(***************************************************************************)

StageOf ==
  [unborn |-> "none", pending |-> "open", applying |-> "open",
   applied |-> "applied", failed |-> "failed", cancelled |-> "withdrawn",
   superseded |-> "withdrawn", deleted |-> "gone"]

HolderOf(j) ==
  IF \E w \in Workers : Holds(w, j) THEN CHOOSE w \in Workers : Holds(w, j)
                                    ELSE NoJob

Lifecycle == INSTANCE PreviewLifecycle
  WITH Calls <- Workers, None <- NoJob,
       stage <- [j \in Jobs |-> StageOf[status[j]]],
       holder <- [j \in Jobs |-> HolderOf(j)],
       told <- published

\* Every step of the jobs and their apply calls is a step of the abstract
\* lifecycle or leaves it unchanged: one holder, which alone settles the job,
\* once.
ImplementsLifecycle == Lifecycle!Spec
=============================================================================
