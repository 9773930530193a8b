------------------------- MODULE PreviewJobs_proofs -------------------------
(***************************************************************************)
(* The safety properties of PreviewJobs, for every number of jobs, calls,  *)
(* processes, clears and tokens, every lease and every clock bound.        *)
(***************************************************************************)
EXTENDS PreviewJobs, TLAPS

\* A call that is running works on a job.  It owns no slot before the slot step
\* and after the unwind, and owns the one it reserved while the lookup runs.
CallsInv ==
  \A w \in Workers :
    /\ pc[w] # "idle" => cur[w] \in Jobs
    /\ pc[w] \in {"idle", "load", "refuse", "slot"} => ~owns[w]
    /\ pc[w] = "lookup" => owns[w]

\* A lease starts in the past and ends before the TTL field.  A call under its
\* lease either owns the job or woke up after its lease time.  A create read
\* the clock in the past.
LeaseInv ==
  /\ \A j \in Jobs : status[j] = "applying"
       => /\ applyingAt[j] \in Nat /\ applyingAt[j] <= now
          /\ expiresAt[j] = applyingAt[j] + Ttl
  /\ \A w \in Workers : pc[w] \in Held
       => lease[w] <= now /\ (Owns(w) \/ lease[w] + Lease <= now)
  /\ \A k \in Creators : cnow[k] <= now

\* A running create works on a job of its own, which has no document yet.
CreateInv ==
  \A k \in Creators : cpc[k] # "idle"
    => /\ cjob[k] \in Jobs /\ status[cjob[k]] = "unborn"
       /\ \A i \in Creators : cjob[i] = cjob[k] => i = k

\* A call about to publish knows that its job is applied.
TellInv ==
  /\ EventOnlyWhenApplied
  /\ \A w \in Workers : pc[w] = "publish"
       => status[cur[w]] \in {"applied", "deleted"}

\* The slots are the users of the calls that own one, each for one call.
SlotInv ==
  /\ SlotMatchesOwner
  /\ \A v, w \in Workers :
       /\ owns[v] /\ owns[w]
       /\ Home[v] = Home[w] /\ Owner[cur[v]] = Owner[cur[w]]
       => v = w

IInv ==
  /\ TypeOK /\ CallsInv /\ LeaseInv /\ OneLeaseHolder
  /\ CreateInv /\ TellInv /\ SlotInv

USE PreviewJobsAssumption
USE DEF vars, docVars, userVars, rosterVars, snapVars, callData, callVars,
        createVars, history, others

-----------------------------------------------------------------------------
(***************************************************************************)
(* Types.                                                                  *)
(***************************************************************************)

\* Adding members to one value of a set-valued function.
LEMMA AddTo ==
  ASSUME NEW S, NEW T, NEW f \in [S -> SUBSET T], NEW x, NEW A \in SUBSET T
  PROVE  [f EXCEPT ![x] = @ \cup A] \in [S -> SUBSET T]
  OBVIOUS

\* The initial state has the types, and no call has a job.
LEMMA TypeInit == Init => TypeOK /\ CallsInv
  BY DEF Init, TypeOK, CallsInv, Statuses, Steps, Held, Entries, Own, Mates,
         Modes, Terminal

\* A guarded update keeps the document's types.
LEMMA LeaveTypes ==
  ASSUME TypeOK, NEW w \in Workers, NEW st \in Statuses,
         NEW res \in SUBSET Entries, Leave(w, st, res)
  PROVE  /\ status' \in [Jobs -> Statuses]
         /\ applyingAt' \in [Jobs -> Nat \cup {NoTime}]
         /\ result' \in [Jobs -> SUBSET Entries]
<1>1. CASE Owns(w)
  <2>1. status' = [status EXCEPT ![cur[w]] = st]
    BY <1>1 DEF Leave
  <2>2. applyingAt' = [applyingAt EXCEPT ![cur[w]] = NoTime]
    BY <1>1 DEF Leave
  <2>3. result' = [result EXCEPT ![cur[w]] = res]
    BY <1>1 DEF Leave
  <2> QED BY <2>1, <2>2, <2>3 DEF TypeOK
<1>2. CASE ~Owns(w)
  BY <1>2 DEF TypeOK, Leave
<1> QED BY <1>1, <1>2

\* Every step keeps the types, one case per action.
LEMMA TypeStep == TypeOK /\ CallsInv /\ [Next]_vars => TypeOK'
<1> SUFFICES ASSUME TypeOK, CallsInv, [Next]_vars PROVE TypeOK'
  OBVIOUS
<1> USE DEF TypeOK
<1>1. ASSUME NEW k \in Creators, NEW j \in Jobs, CreateCall(k, j)
      PROVE  TypeOK'
  BY <1>1 DEF CreateCall
<1>2. ASSUME NEW k \in Creators, CreateSupersede(k)
      PROVE  TypeOK'
  <2> DEFINE own  == {j \in Jobs : Owner[j] = Owner[cjob[k]]}
             gone == {j \in own : Reclaimable(j, cnow[k])}
  <2>a. /\ status' = [j \in Jobs |-> IF j \in gone THEN "superseded"
                                                   ELSE status[j]]
        /\ applyingAt' = [j \in Jobs |-> IF j \in gone THEN NoTime
                                                       ELSE applyingAt[j]]
        /\ spared' = spared \cup {j \in own \ gone : status[j] = "applying"}
    BY <1>2 DEF CreateSupersede
  <2> HIDE DEF gone
  <2>1. /\ status' \in [Jobs -> Statuses]
        /\ applyingAt' \in [Jobs -> Nat \cup {NoTime}]
        /\ spared' \subseteq Jobs
    BY <2>a DEF Statuses, Terminal
  <2> QED BY <1>2, <2>1 DEF CreateSupersede
<1>3. ASSUME NEW k \in Creators, CreateInsert(k)
      PROVE  TypeOK'
  <2>1. "pending" \in Statuses /\ cnow[k] + Ttl \in Nat
    BY DEF Statuses
  <2> QED BY <1>3, <2>1 DEF CreateInsert
<1>4. ASSUME NEW k \in Creators, CreateThrow(k)
      PROVE  TypeOK'
  BY <1>4 DEF CreateThrow
<1>5. ASSUME NEW w \in Workers, NEW j \in Jobs, Claim(w, j)
      PROVE  TypeOK'
  BY <1>5 DEF Claim, Goto, ClaimExpiry, Statuses, Steps, Held
<1>6. ASSUME NEW w \in Workers, LoadUser(w)
      PROVE  TypeOK'
  BY <1>6 DEF LoadUser, Goto, CallsInv, Steps, Held
<1>7. ASSUME NEW w \in Workers, Refuse(w) \/ Busy(w) \/ Fail(w) \/ Release(w)
      PROVE  TypeOK'
  <2>1. /\ status' \in [Jobs -> Statuses]
        /\ applyingAt' \in [Jobs -> Nat \cup {NoTime}]
        /\ result' \in [Jobs -> SUBSET Entries]
    BY <1>7, LeaveTypes 
      DEF Refuse, Busy, Fail, Release, Statuses, Terminal, Goto, CallsInv,
          Held
  <2> QED BY <1>7, <2>1 DEF Refuse, Busy, Fail, Release, Goto, Steps, Held
<1>8. ASSUME NEW w \in Workers, TakeSlot(w)
      PROVE  TypeOK'
  BY <1>8 DEF TakeSlot, Goto, CallsInv, SlotTaken, Steps, Held
<1>24. ASSUME NEW w \in Workers, SlotGranted(w)
       PROVE  TypeOK'
  BY <1>24 DEF SlotGranted, Goto, Steps, Held
<1>25. ASSUME NEW w \in Workers, LookupThrow(w)
       PROVE  TypeOK'
  BY <1>25 DEF LookupThrow, Goto, Steps, Held
<1>9. ASSUME NEW w \in Workers, Write(w)
      PROVE  TypeOK'
  <2>1. PICK W \in SUBSET Clears, to \in Steps :
          /\ pc' = [pc EXCEPT ![w] = to]
          /\ progress' = [progress EXCEPT ![Owner[cur[w]]] = @ \cup W]
          /\ sum' = [sum EXCEPT ![w] = Merged(w, W)]
          /\ wrote' = [wrote EXCEPT ![cur[w]] = @ \cup W]
          /\ late' = [late EXCEPT ![cur[w]] =
                          IF snapAuth[w] THEN @ \cup W ELSE @]
    BY <1>9 DEF Write, Steps, Held, CallsInv
  <2>2. cur[w] \in Jobs
    BY <1>9 DEF Write, CallsInv
  <2>3. Merged(w, W) \subseteq Entries
    BY DEF Merged, Entries, Own
  <2> QED BY <1>9, <2>1, <2>2, <2>3 DEF Write
<1>10. ASSUME NEW w \in Workers, Authorize(w)
       PROVE  TypeOK'
  <2>1. ToPropagate(w, sum[w]) \subseteq Clears
    BY DEF ToPropagate
  <2>2. {"propagate", "recover"} \subseteq Steps
    BY DEF Steps, Held
  <2>3. CASE Owns(w)
    <3>1. /\ pc' = [pc EXCEPT ![w] = "propagate"]
          /\ auth' = [auth EXCEPT ![cur[w]] = TRUE]
          /\ party' = [party EXCEPT ![cur[w]] = ToPropagate(w, sum[w])]
          /\ snapAuth' = [snapAuth EXCEPT ![w] = TRUE]
          /\ snapParty' = [snapParty EXCEPT ![w] = ToPropagate(w, sum[w])]
      BY <1>10, <2>3 DEF Authorize, Goto
    <3>2. UNCHANGED <<now, status, applyingAt, expiresAt, result, cur, lease,
                      sum, snapToken, tries, owns, others>>
      BY <1>10 DEF Authorize
    <3> QED BY <2>1, <2>2, <3>1, <3>2
  <2>4. CASE ~Owns(w)
    BY <1>10, <2>1, <2>2, <2>4 DEF Authorize, Goto
  <2> QED BY <2>3, <2>4
<1>11. ASSUME NEW w \in Workers, Propagate(w)
       PROVE  TypeOK'
  <2> DEFINE D == snapParty[w]
             done == partyDone[Owner[cur[w]]]
             Told(W, E) ==
               /\ pc' = [pc EXCEPT ![w] =
                             IF E = {} THEN "record" ELSE "release"]
               /\ partyDone' = [partyDone EXCEPT ![Owner[cur[w]]] = @ \cup W]
               /\ sum' = [sum EXCEPT ![w] = @ \cup Mates(W)]
               /\ offered' = [offered EXCEPT ![cur[w]] = @ \cup (D \ E)]
               /\ UNCHANGED <<now, docVars, userVars, progress, slot, cur,
                              lease, snapVars, owns, createVars, published,
                              interrupted, spared, wrote, late>>
  <2>1. PICK W \in SUBSET (D \ done) :
          \E E \in SUBSET (D \ (done \cup W)) : Told(W, E)
    BY <1>11, Zenon DEF Propagate
  <2>2. PICK E : Told(W, E)
    BY <2>1
  <2>3. /\ {"record", "release"} \subseteq Steps
        /\ W \subseteq Clears
        /\ D \ E \subseteq Clears
        /\ Mates(W) \subseteq Entries
    <3>1. D \subseteq Clears
      OBVIOUS
    <3>2. W \subseteq Clears /\ D \ E \subseteq Clears
      BY <2>1, <3>1
    <3>3. Mates(W) \subseteq Entries
      BY <3>2 DEF Mates, Entries
    <3>4. {"record", "release"} \subseteq Steps
      BY DEF Steps, Held
    <3> QED BY <3>2, <3>3, <3>4
  <2> HIDE DEF D
  <2>4. partyDone' \in [Users -> SUBSET Clears]
    BY <2>2, <2>3, AddTo
  <2>5. sum' \in [Workers -> SUBSET Entries]
    BY <2>2, <2>3, AddTo
  <2>6. offered' \in [Jobs -> SUBSET Clears]
    BY <2>2, <2>3, AddTo
  <2>7. pc' \in [Workers -> Steps]
    BY <2>2, <2>3
  <2> QED BY <2>2, <2>4, <2>5, <2>6, <2>7
<1>12. ASSUME NEW w \in Workers, Record(w)
       PROVE  TypeOK'
  BY <1>12 DEF Record, MayShrink, Goto, Steps, Held
<1>13. ASSUME NEW w \in Workers, Finish(w)
       PROVE  TypeOK'
  <2>1. /\ status' \in [Jobs -> Statuses]
        /\ applyingAt' \in [Jobs -> Nat \cup {NoTime}]
        /\ result' \in [Jobs -> SUBSET Entries]
    BY <1>13, LeaveTypes DEF Finish, Statuses, Terminal
  <2> QED BY <1>13, <2>1 DEF Finish, Goto, Steps, Held
<1>14. ASSUME NEW w \in Workers, Reread(w) \/ Publish(w) \/ Throw(w)
       PROVE  TypeOK'
  <2>1. {"publish", "unwind", "recover"} \subseteq Steps
    BY DEF Steps, Held
  <2>2. CASE Reread(w)
    BY <2>1, <2>2 DEF Reread, Goto
  <2>3. CASE Publish(w)
    BY <2>1, <2>3 DEF Publish, Goto, CallsInv
  <2>4. CASE Throw(w)
    BY <2>1, <2>4 DEF Throw
  <2> QED BY <1>14, <2>2, <2>3, <2>4
<1>15. ASSUME NEW w \in Workers, Recover(w)
       PROVE  TypeOK'
  <2>1. /\ status' \in [Jobs -> Statuses]
        /\ applyingAt' \in [Jobs -> Nat \cup {NoTime}]
        /\ result' \in [Jobs -> SUBSET Entries]
    BY <1>15, LeaveTypes DEF Recover, Statuses
  <2> QED BY <1>15, <2>1 DEF Recover, Goto, Steps, Held
<1>16. ASSUME NEW w \in Workers, Unwind(w)
       PROVE  TypeOK'
  <2>1. slot' \in [Procs -> SUBSET Users]
    BY <1>16 DEF Unwind, SlotAfter
  <2> QED BY <1>16, <2>1 DEF Unwind, Goto, Steps
<1>17. ASSUME NEW j \in Jobs, Cancel(j) \/ Expire(j)
       PROVE  TypeOK'
  <2>1. {"cancelled", "deleted"} \subseteq Statuses
    BY DEF Statuses, Terminal
  <2>2. CASE Cancel(j)
    BY <2>1, <2>2 DEF Cancel
  <2>3. CASE Expire(j)
    BY <2>1, <2>3 DEF Expire
  <2> QED BY <1>17, <2>2, <2>3
<1>18. ASSUME NEW u \in Users, NEW m \in Switches, SetMode(u, m)
       PROVE  TypeOK'
  BY <1>18 DEF SetMode, Modes
<1>19. ASSUME NEW u \in Users, NEW t \in Tokens, Rotate(u, t)
       PROVE  TypeOK'
  BY <1>19 DEF Rotate
<1>20. ASSUME NEW p \in Procs, Crash(p)
       PROVE  TypeOK'
  BY <1>20 DEF Crash, Steps
<1>21. CASE Tick
  BY <1>21 DEF Tick
<1>22. CASE UNCHANGED vars
  BY <1>22
<1> QED
  BY <1>1, <1>2, <1>3, <1>4, <1>5, <1>6, <1>7, <1>8, <1>9, <1>10, <1>11,
     <1>12, <1>13, <1>14, <1>15, <1>16, <1>17, <1>18, <1>19, <1>20, <1>21,
     <1>22, <1>24, <1>25 DEF Next, Creating, Advance

-----------------------------------------------------------------------------
(***************************************************************************)
(* The awaits of an apply call, by what they do to the job document.       *)
(***************************************************************************)

\* An await that leaves the leases alone.
Quiet(w) ==
  \/ LoadUser(w) \/ TakeSlot(w) \/ SlotGranted(w) \/ LookupThrow(w)
  \/ Write(w) \/ Authorize(w) \/ Propagate(w) \/ Record(w) \/ Reread(w)
  \/ Publish(w) \/ Throw(w)

\* An await that may give the lease up.
Leaving(w) ==
  Refuse(w) \/ Busy(w) \/ Fail(w) \/ Release(w) \/ Finish(w) \/ Recover(w)

\* A step of an apply call that is none of its guarded updates leaves the
\* status, the lease and the life of every job alone.
LEMMA QuietStep ==
  ASSUME TypeOK, NEW w \in Workers, Quiet(w)
  PROVE  /\ UNCHANGED <<now, status, applyingAt, expiresAt, cur, lease>>
         /\ UNCHANGED <<cpc, cjob, cnow>>
         /\ \A v \in Workers \ {w} : pc'[v] = pc[v]
         /\ pc[w] # "idle" /\ pc'[w] # "idle"
         /\ pc'[w] \in Held => pc[w] \in Held
         /\ pc'[w] = "publish" => status[cur[w]] = "applied"
<1> USE DEF Held
<1>t. pc \in [Workers -> Steps]
  BY DEF TypeOK
<1>1. CASE LoadUser(w)
  BY <1>1, <1>t DEF LoadUser, Goto
<1>2. CASE TakeSlot(w)
  BY <1>2, <1>t DEF TakeSlot, Goto
<1>3. CASE Write(w)
  BY <1>3, <1>t DEF Write
<1>4. CASE Authorize(w)
  BY <1>4, <1>t DEF Authorize, Goto
<1>5. CASE Propagate(w)
  BY <1>5, <1>t DEF Propagate
<1>6. CASE Record(w)
  BY <1>6, <1>t DEF Record, Goto
<1>7. CASE Reread(w)
  BY <1>7, <1>t DEF Reread, Goto
<1>8. CASE Publish(w)
  BY <1>8, <1>t DEF Publish, Goto
<1>9. CASE Throw(w)
  BY <1>9, <1>t DEF Throw
<1>10. CASE SlotGranted(w)
  BY <1>10, <1>t DEF SlotGranted, Goto
<1>11. CASE LookupThrow(w)
  BY <1>11, <1>t DEF LookupThrow, Goto
<1> QED
  BY <1>1, <1>2, <1>3, <1>4, <1>5, <1>6, <1>7, <1>8, <1>9, <1>10, <1>11
  DEF Quiet

\* The six guarded updates change at most the job of the call, and only
\* while the call owns it.
LEMMA LeavingStep ==
  ASSUME TypeOK, NEW w \in Workers, Leaving(w)
  PROVE  /\ UNCHANGED <<now, expiresAt, cur, lease, owns, slot, published>>
         /\ UNCHANGED <<cpc, cjob, cnow>>
         /\ \A v \in Workers \ {w} : pc'[v] = pc[v]
         /\ pc[w] \in Held \ {"load", "slot"} /\ pc'[w] # "idle"
         /\ pc'[w] \in Held => pc'[w] = "reread" /\ ~Owns(w)
         /\ UNCHANGED <<auth, party>>
         /\ \/ /\ UNCHANGED <<status, applyingAt, result>>
               /\ pc'[w] # "publish"
            \/ /\ Owns(w)
               /\ \E st \in {"pending", "failed", "applied"} :
                    /\ status' = [status EXCEPT ![cur[w]] = st]
                    /\ pc'[w] = "publish" => st = "applied"
               /\ applyingAt' = [applyingAt EXCEPT ![cur[w]] = NoTime]
               /\ \E res : result' = [result EXCEPT ![cur[w]] = res]
<1> USE DEF Held
<1>t. pc \in [Workers -> Steps]
  BY DEF TypeOK
<1>1. CASE Refuse(w)
  BY <1>1, <1>t DEF Refuse, Goto, Leave
<1>2. CASE Busy(w)
  BY <1>2, <1>t DEF Busy, Goto, Leave
<1>3. CASE Fail(w)
  BY <1>3, <1>t DEF Fail, Goto, Leave
<1>4. CASE Release(w)
  BY <1>4, <1>t DEF Release, Goto, Leave
<1>5. CASE Finish(w)
  BY <1>5, <1>t DEF Finish, Goto, Leave
<1>6. CASE Recover(w)
  BY <1>6, <1>t DEF Recover, Goto, Leave
<1> QED BY <1>1, <1>2, <1>3, <1>4, <1>5, <1>6 DEF Leaving

-----------------------------------------------------------------------------
(***************************************************************************)
(* The parts of the inductive invariant.                                   *)
(***************************************************************************)

\* A call past its claim has a job, and owns no slot before TakeSlot.
LEMMA CallsStep == TypeOK /\ CallsInv /\ [Next]_vars => CallsInv'
<1> SUFFICES ASSUME TypeOK, CallsInv, [Next]_vars PROVE CallsInv'
  OBVIOUS
<1>t. /\ pc \in [Workers -> Steps] /\ cur \in [Workers -> Jobs \cup {NoJob}]
      /\ owns \in [Workers -> BOOLEAN]
  BY DEF TypeOK
<1>1. CASE UNCHANGED callVars
  BY <1>1 DEF CallsInv
<1>2. ASSUME NEW w \in Workers, NEW j \in Jobs, Claim(w, j)
      PROVE  CallsInv'
  BY <1>2, <1>t DEF CallsInv, Claim, Goto
<1>3. ASSUME NEW w \in Workers, TakeSlot(w)
      PROVE  CallsInv'
  <2>1. /\ pc' = [pc EXCEPT ![w] = IF SlotTaken(w) THEN "busy" ELSE "lookup"]
        /\ owns' = [owns EXCEPT ![w] = ~SlotTaken(w)]
        /\ cur' = cur /\ pc[w] = "slot"
    BY <1>3 DEF TakeSlot, Goto
  <2> QED BY <2>1, <1>t DEF CallsInv
<1>4. ASSUME NEW w \in Workers, Quiet(w), ~TakeSlot(w)
      PROVE  CallsInv'
  <2>1. \/ UNCHANGED owns
        \/ pc'[w] = "recover" /\ owns' = [owns EXCEPT ![w] = FALSE]
    BY <1>4, <1>t DEF Quiet, LoadUser, SlotGranted, LookupThrow, Write,
                      Authorize, Propagate, Record, Reread, Publish, Throw,
                      Goto
  <2>2. /\ pc'[w] \in {"idle", "load", "refuse", "slot"} => pc[w] = "load"
        /\ pc'[w] # "lookup"
    BY <1>4, <1>t DEF Quiet, LoadUser, SlotGranted, LookupThrow, Write,
                      Authorize, Propagate, Record, Reread, Publish, Throw,
                      Goto
  <2> QED BY <1>4, <1>t, <2>1, <2>2, QuietStep DEF CallsInv
<1>5. ASSUME NEW w \in Workers, Leaving(w)
      PROVE  CallsInv'
  <2>1. pc'[w] \notin {"idle", "load", "refuse", "slot", "lookup"}
    BY <1>5, <1>t DEF Leaving, Refuse, Busy, Fail, Release, Finish, Recover,
                      Goto
  <2> QED BY <1>5, <2>1, LeavingStep DEF CallsInv, Held
<1>6. ASSUME NEW w \in Workers, Unwind(w)
      PROVE  CallsInv'
  BY <1>6, <1>t DEF CallsInv, Unwind, Goto
<1>7. ASSUME NEW p \in Procs, Crash(p)
      PROVE  CallsInv'
  BY <1>7, <1>t DEF CallsInv, Crash
<1> QED
  BY <1>1, <1>2, <1>3, <1>4, <1>5, <1>6, <1>7
  DEF Next, Creating, Advance, Quiet, Leaving, CreateCall, CreateSupersede,
      CreateInsert, CreateThrow, Cancel, Expire, SetMode, Rotate, Tick

\* The leases: time passes, a lease only goes to a reclaimable job, and only
\* the call that owns it, or the end of its time, takes it away.
LEMMA LeaseStep ==
  ASSUME TypeOK, CallsInv, LeaseInv, CreateInv, OneLeaseHolder, [Next]_vars
  PROVE  LeaseInv'
<1>t. /\ now \in Nat /\ pc \in [Workers -> Steps]
      /\ status \in [Jobs -> Statuses] /\ cnow \in [Creators -> Nat]
      /\ applyingAt \in [Jobs -> Nat \cup {NoTime}]
      /\ expiresAt \in [Jobs -> Nat] /\ lease \in [Workers -> Nat]
      /\ cur \in [Workers -> Jobs \cup {NoJob}]
  BY DEF TypeOK
<1> USE DEF LeaseInv, Owns, NoTime
<1>1. ASSUME NEW k \in Creators, NEW j \in Jobs, CreateCall(k, j)
      PROVE  LeaseInv'
  BY <1>1, <1>t DEF CreateCall
<1>2. ASSUME NEW k \in Creators, CreateSupersede(k)
      PROVE  LeaseInv'
  BY <1>2, <1>t DEF CreateSupersede, Reclaimable, CallsInv, Held
<1>3. ASSUME NEW k \in Creators, CreateInsert(k)
      PROVE  LeaseInv'
  BY <1>3, <1>t DEF CreateInsert, CreateInv, CallsInv, Held
<1>4. ASSUME NEW k \in Creators, CreateThrow(k)
      PROVE  LeaseInv'
  BY <1>4, <1>t DEF CreateThrow
<1>5. ASSUME NEW w \in Workers, NEW j \in Jobs, Claim(w, j)
      PROVE  LeaseInv'
  <2>1. /\ status' = [status EXCEPT ![j] = "applying"]
        /\ applyingAt' = [applyingAt EXCEPT ![j] = now]
        /\ expiresAt' = [expiresAt EXCEPT ![j] = now + Ttl]
        /\ cur' = [cur EXCEPT ![w] = j]
        /\ lease' = [lease EXCEPT ![w] = now]
        /\ pc' = [pc EXCEPT ![w] = "load"]
        /\ UNCHANGED <<now, cnow>>
    BY <1>5 DEF Claim, Goto, ClaimExpiry
  <2>2. status[j] = "applying" => applyingAt[j] + Lease <= now
    BY <1>5 DEF Claim, Claimable, Reclaimable
  <2>3. ASSUME NEW i \in Jobs, status'[i] = "applying"
        PROVE  /\ applyingAt'[i] \in Nat /\ applyingAt'[i] <= now'
               /\ expiresAt'[i] = applyingAt'[i] + Ttl
    BY <1>t, <2>1, <2>3
  <2>4. ASSUME NEW v \in Workers, pc'[v] \in Held
        PROVE  lease'[v] <= now' /\ (Owns(v)' \/ lease'[v] + Lease <= now')
    <3>1. CASE v = w
      BY <1>t, <2>1, <3>1
    <3>2. CASE v # w
      <4>1. pc[v] \in Held /\ lease'[v] = lease[v] /\ cur'[v] = cur[v]
        BY <1>t, <2>1, <2>4, <3>2
      <4>2. CASE lease[v] + Lease <= now
        BY <2>1, <4>1, <4>2
      <4>3. CASE Owns(v)
        BY <1>t, <2>1, <2>2, <4>1, <4>3 DEF CallsInv, Held
      <4> QED BY <4>1, <4>2, <4>3
    <3> QED BY <3>1, <3>2
  <2> QED BY <2>1, <2>3, <2>4
<1>6. ASSUME NEW w \in Workers, Quiet(w)
      PROVE  LeaseInv'
  BY <1>6, <1>t, QuietStep
<1>7. ASSUME NEW w \in Workers, Leaving(w)
      PROVE  LeaseInv'
  <2>1. CASE UNCHANGED <<status, applyingAt>>
    BY <1>7, <1>t, <2>1, LeavingStep
  <2>2. CASE Owns(w)
    <3>1. PICK st \in {"pending", "failed", "applied"} :
            \/ UNCHANGED <<status, applyingAt>>
            \/ /\ status' = [status EXCEPT ![cur[w]] = st]
               /\ applyingAt' = [applyingAt EXCEPT ![cur[w]] = NoTime]
      BY <1>7, LeavingStep
    <3>2. UNCHANGED <<now, expiresAt, cur, lease, cnow>> /\ cur[w] \in Jobs
      BY <1>7, LeavingStep DEF CallsInv, Held
    <3>3. \A j \in Jobs : status'[j] = "applying"
            => status[j] = "applying" /\ applyingAt'[j] = applyingAt[j]
      BY <1>t, <2>2, <3>1
    <3>4. ASSUME NEW v \in Workers, pc'[v] \in Held
          PROVE  Owns(v)' \/ lease[v] + Lease <= now
      <4>1. v # w /\ pc[v] \in Held
        BY <1>7, <2>2, <3>4, LeavingStep
      <4>2. cur[v] = cur[w] => ~Owns(v)
        BY <1>7, <2>2, <3>2, <4>1, LeavingStep DEF OneLeaseHolder, Holds
      <4>3. CASE Owns(v)
        <5>1. cur[v] \in Jobs /\ cur[v] # cur[w]
          BY <4>1, <4>2, <4>3 DEF CallsInv, Held
        <5> HIDE DEF Owns
        <5>2. /\ status'[cur[v]] = status[cur[v]]
              /\ applyingAt'[cur[v]] = applyingAt[cur[v]]
          BY <1>t, <3>1, <5>1
        <5> USE DEF Owns
        <5> QED BY <3>2, <4>3, <5>2
      <4> QED BY <4>1, <4>3
    <3>5. \A v \in Workers : pc'[v] \in Held => pc[v] \in Held
      BY <1>7, LeavingStep
    <3> QED BY <3>2, <3>3, <3>4, <3>5
  <2> QED BY <1>7, <2>1, <2>2, LeavingStep
<1>8. ASSUME NEW w \in Workers, Unwind(w)
      PROVE  LeaseInv'
  BY <1>8, <1>t DEF Unwind, Goto, Held
<1>9. ASSUME NEW j \in Jobs, Cancel(j)
      PROVE  LeaseInv'
  BY <1>9, <1>t DEF Cancel, Claimable, Reclaimable, CallsInv, Held
<1>10. ASSUME NEW j \in Jobs, Expire(j)
       PROVE  LeaseInv'
  BY <1>10, <1>t DEF Expire, CallsInv, Held
<1>11. ASSUME NEW p \in Procs, Crash(p)
       PROVE  LeaseInv'
  BY <1>11, <1>t DEF Crash, Held
<1>12. CASE Tick
  BY <1>12, <1>t DEF Tick
<1>13. CASE UNCHANGED <<now, docVars, callVars, createVars>>
  BY <1>13
<1> QED
  BY <1>1, <1>2, <1>3, <1>4, <1>5, <1>6, <1>7, <1>8, <1>9, <1>10, <1>11,
     <1>12, <1>13
  DEF Next, Creating, Advance, Quiet, Leaving, SetMode, Rotate

\* A claim made now cannot meet the timestamp of an older lease that still
\* owns the job: that lease would have been running.
LEMMA HolderStep ==
  ASSUME TypeOK, CallsInv, LeaseInv, CreateInv, OneLeaseHolder, [Next]_vars
  PROVE  OneLeaseHolder'
<1>t. /\ now \in Nat /\ pc \in [Workers -> Steps]
      /\ status \in [Jobs -> Statuses]
      /\ applyingAt \in [Jobs -> Nat \cup {NoTime}]
      /\ lease \in [Workers -> Nat]
      /\ cur \in [Workers -> Jobs \cup {NoJob}]
  BY DEF TypeOK
<1> USE DEF OneLeaseHolder, Holds, Owns
<1>1. ASSUME NEW k \in Creators, CreateSupersede(k)
      PROVE  OneLeaseHolder'
  BY <1>1, <1>t DEF CreateSupersede
<1>2. ASSUME NEW k \in Creators, CreateInsert(k)
      PROVE  OneLeaseHolder'
  <2>1. status' = [status EXCEPT ![cjob[k]] = "pending"]
        /\ UNCHANGED <<applyingAt, callVars>>
    BY <1>2 DEF CreateInsert
  <2>2. \A v \in Workers, j \in Jobs : Holds(v, j)' => Holds(v, j)
    BY <1>t, <2>1
  <2> HIDE DEF Holds
  <2> QED BY <2>2
<1>3. ASSUME NEW w \in Workers, NEW j \in Jobs, Claim(w, j)
      PROVE  OneLeaseHolder'
  <2>1. /\ status' = [status EXCEPT ![j] = "applying"]
        /\ applyingAt' = [applyingAt EXCEPT ![j] = now]
        /\ cur' = [cur EXCEPT ![w] = j]
        /\ lease' = [lease EXCEPT ![w] = now]
        /\ pc' = [pc EXCEPT ![w] = "load"]
    BY <1>3 DEF Claim, Goto
  <2>2. ASSUME NEW v \in Workers, v # w, Holds(v, j)'
        PROVE  FALSE
    <3>1. pc[v] \in Held /\ cur[v] = j /\ lease[v] = now
      BY <1>t, <2>1, <2>2
    <3>2. status[j] = "applying" /\ applyingAt[j] = now
      BY <1>t, <3>1 DEF LeaseInv
    <3> QED BY <1>3, <1>t, <3>2 DEF Claim, Claimable, Reclaimable
  <2>3. ASSUME NEW i \in Jobs, i # j, NEW v \in Workers, Holds(v, i)'
        PROVE  Holds(v, i)
    BY <1>t, <2>1, <2>3
  <2> HIDE DEF Holds
  <2>4. ASSUME NEW i \in Jobs, NEW v \in Workers, NEW x \in Workers,
               Holds(v, i)', Holds(x, i)'
        PROVE  v = x
    BY <2>2, <2>3, <2>4
  <2> QED BY <2>4
<1>4. ASSUME NEW w \in Workers, Quiet(w)
      PROVE  OneLeaseHolder'
  BY <1>4, <1>t, QuietStep
<1>5. ASSUME NEW w \in Workers, Leaving(w)
      PROVE  OneLeaseHolder'
  BY <1>5, <1>t, LeavingStep
<1>6. ASSUME NEW w \in Workers, Unwind(w)
      PROVE  OneLeaseHolder'
  BY <1>6, <1>t DEF Unwind, Goto, Held
<1>7. ASSUME NEW j \in Jobs, Cancel(j) \/ Expire(j)
      PROVE  OneLeaseHolder'
  BY <1>7, <1>t DEF Cancel, Expire
<1>8. ASSUME NEW p \in Procs, Crash(p)
      PROVE  OneLeaseHolder'
  BY <1>8, <1>t DEF Crash, Held
<1>9. CASE UNCHANGED <<docVars, callVars>>
  BY <1>9
<1> QED
  BY <1>1, <1>2, <1>3, <1>4, <1>5, <1>6, <1>7, <1>8, <1>9
  DEF Next, Creating, Advance, Quiet, Leaving, CreateCall, CreateThrow,
      SetMode, Rotate, Tick

\* A create that runs has an unborn document no other create will insert.
LEMMA CreateStep ==
  ASSUME TypeOK, CallsInv, CreateInv, [Next]_vars
  PROVE  CreateInv'
<1>t. /\ cpc \in [Creators -> {"idle", "queued", "inserting"}]
      /\ cjob \in [Creators -> Jobs \cup {NoJob}]
      /\ status \in [Jobs -> Statuses]
      /\ cur \in [Workers -> Jobs \cup {NoJob}]
  BY DEF TypeOK
<1> USE DEF CreateInv
<1>1. ASSUME NEW k \in Creators, NEW j \in Jobs, CreateCall(k, j)
      PROVE  CreateInv'
  BY <1>1, <1>t DEF CreateCall
<1>2. ASSUME NEW k \in Creators, CreateSupersede(k)
      PROVE  CreateInv'
  BY <1>2, <1>t DEF CreateSupersede, Reclaimable
<1>3. ASSUME NEW k \in Creators, CreateInsert(k) \/ CreateThrow(k)
      PROVE  CreateInv'
  BY <1>3, <1>t DEF CreateInsert, CreateThrow
<1>4. ASSUME NEW w \in Workers, NEW j \in Jobs, Claim(w, j)
      PROVE  CreateInv'
  BY <1>4, <1>t DEF Claim, Claimable, Reclaimable
<1>5. ASSUME NEW w \in Workers, Quiet(w)
      PROVE  CreateInv'
  BY <1>5, QuietStep
<1>6. ASSUME NEW w \in Workers, Leaving(w)
      PROVE  CreateInv'
  BY <1>6, <1>t, LeavingStep DEF Owns
<1>7. ASSUME NEW j \in Jobs, Cancel(j) \/ Expire(j)
      PROVE  CreateInv'
  BY <1>7, <1>t DEF Cancel, Expire, Claimable, Reclaimable
<1>8. ASSUME NEW p \in Procs, Crash(p)
      PROVE  CreateInv'
  BY <1>8, <1>t DEF Crash
<1>9. CASE UNCHANGED <<docVars, createVars>>
  BY <1>9
<1> QED
  BY <1>1, <1>2, <1>3, <1>4, <1>5, <1>6, <1>7, <1>8, <1>9
  DEF Next, Creating, Advance, Quiet, Leaving, Unwind, SetMode, Rotate, Tick

\* Nothing but a document that was being applied becomes applied, and an
\* applied document only disappears.
LEMMA SettledStep ==
  ASSUME TypeOK, CallsInv, CreateInv, [Next]_vars
  PROVE  \A j \in Jobs : status[j] \in Terminal \cup {"deleted"}
           => status'[j] \in {status[j], "deleted"}
<1> SUFFICES ASSUME NEW j \in Jobs, status[j] \in Terminal \cup {"deleted"}
             PROVE  status'[j] \in {status[j], "deleted"}
  OBVIOUS
<1>t. /\ status \in [Jobs -> Statuses]
      /\ cur \in [Workers -> Jobs \cup {NoJob}]
  BY DEF TypeOK
<1> USE DEF Terminal
<1>1. ASSUME NEW k \in Creators, CreateSupersede(k)
      PROVE  status'[j] = status[j]
  BY <1>1, <1>t DEF CreateSupersede, Reclaimable
<1>2. ASSUME NEW k \in Creators, CreateInsert(k)
      PROVE  status'[j] = status[j]
  BY <1>2, <1>t DEF CreateInsert, CreateInv
<1>3. ASSUME NEW w \in Workers, NEW i \in Jobs, Claim(w, i)
      PROVE  status'[j] = status[j]
  BY <1>3, <1>t DEF Claim, Claimable, Reclaimable
<1>4. ASSUME NEW w \in Workers, Quiet(w)
      PROVE  status'[j] = status[j]
  BY <1>4, QuietStep
<1>5. ASSUME NEW w \in Workers, Leaving(w)
      PROVE  status'[j] = status[j]
  BY <1>5, <1>t, LeavingStep DEF Owns
<1>6. ASSUME NEW i \in Jobs, Cancel(i) \/ Expire(i)
      PROVE  status'[j] \in {status[j], "deleted"}
  BY <1>6, <1>t DEF Cancel, Expire, Claimable, Reclaimable
<1>7. CASE UNCHANGED docVars
  BY <1>7
<1> QED
  BY <1>1, <1>2, <1>3, <1>4, <1>5, <1>6, <1>7
  DEF Next, Creating, Advance, Quiet, Leaving, CreateCall, CreateThrow,
      Unwind, SetMode, Rotate, Crash, Tick

\* The owner event stays with applied jobs: a call about to publish has an
\* applied job, and such a job only disappears.
LEMMA TellStep ==
  ASSUME TypeOK, CallsInv, CreateInv, TellInv, [Next]_vars
  PROVE  TellInv'
<1>t. /\ status \in [Jobs -> Statuses] /\ pc \in [Workers -> Steps]
      /\ cur \in [Workers -> Jobs \cup {NoJob}] /\ published \subseteq Jobs
  BY DEF TypeOK
<1>s. \A j \in Jobs : status[j] \in {"applied", "deleted"}
        => status'[j] \in {"applied", "deleted"}
  BY SettledStep DEF Terminal
<1> USE DEF TellInv, EventOnlyWhenApplied
<1>1. ASSUME NEW w \in Workers, Publish(w)
      PROVE  TellInv'
  BY <1>1, <1>t, <1>s DEF Publish, Goto, CallsInv
<1>2. ASSUME NEW w \in Workers, Quiet(w), ~Publish(w)
      PROVE  TellInv'
  <2>1. UNCHANGED published
    BY <1>2 DEF Quiet, LoadUser, TakeSlot, SlotGranted, LookupThrow, Write,
                Authorize, Propagate, Record, Reread, Throw
  <2> QED BY <1>2, <1>t, <1>s, <2>1, QuietStep
<1>3. ASSUME NEW w \in Workers, Leaving(w)
      PROVE  TellInv'
  <2>1. ASSUME NEW v \in Workers, pc'[v] = "publish"
        PROVE  status'[cur'[v]] \in {"applied", "deleted"}
    <3>1. CASE v = w
      BY <1>3, <1>t, <2>1, <3>1, LeavingStep DEF CallsInv, Held
    <3>2. CASE v # w
      <4>1. pc[v] = "publish" /\ cur'[v] = cur[v]
        BY <1>3, <2>1, <3>2, LeavingStep
      <4> QED BY <4>1, <1>s DEF CallsInv
    <3> QED BY <3>1, <3>2
  <2> QED BY <1>3, <1>t, <1>s, <2>1, LeavingStep
<1>4. ASSUME NEW w \in Workers, NEW j \in Jobs, Claim(w, j)
      PROVE  TellInv'
  BY <1>4, <1>t, <1>s DEF Claim, Goto, CallsInv
<1>5. ASSUME NEW w \in Workers, Unwind(w)
      PROVE  TellInv'
  BY <1>5, <1>t, <1>s DEF Unwind, Goto, CallsInv
<1>6. ASSUME NEW p \in Procs, Crash(p)
      PROVE  TellInv'
  BY <1>6, <1>t, <1>s DEF Crash, CallsInv
<1>7. CASE UNCHANGED <<callVars, published>>
  BY <1>7, <1>t, <1>s DEF CallsInv
<1> QED
  BY <1>1, <1>2, <1>3, <1>4, <1>5, <1>6, <1>7
  DEF Next, Creating, Advance, Quiet, Leaving, CreateCall, CreateSupersede,
      CreateInsert, CreateThrow, Cancel, Expire, SetMode, Rotate, Tick

\* Slots: only a call that found its user's slot free takes it, and only the
\* call that took it, or the death of its process, frees it.
LEMMA SlotStep ==
  ASSUME TypeOK, CallsInv, SlotInv, [Next]_vars
  PROVE  SlotInv'
<1>t. /\ slot \in [Procs -> SUBSET Users] /\ owns \in [Workers -> BOOLEAN]
      /\ pc \in [Workers -> Steps]
      /\ cur \in [Workers -> Jobs \cup {NoJob}]
  BY DEF TypeOK
<1> USE DEF SlotInv, SlotMatchesOwner
<1>1. ASSUME NEW w \in Workers, TakeSlot(w)
      PROVE  SlotInv'
  <2>1. /\ slot' = [slot EXCEPT ![Home[w]] = @ \cup {Owner[cur[w]]}]
        /\ owns' = [owns EXCEPT ![w] = Owner[cur[w]] \notin slot[Home[w]]]
        /\ cur' = cur /\ ~owns[w] /\ Home[w] \in Procs
    BY <1>1 DEF TakeSlot, SlotTaken, Goto, CallsInv
  <2>2. CASE Owner[cur[w]] \in slot[Home[w]]
    BY <1>t, <2>1, <2>2
  <2>3. CASE Owner[cur[w]] \notin slot[Home[w]]
    <3>1. owns' = [owns EXCEPT ![w] = TRUE]
      BY <2>1, <2>3
    <3>2. \A v \in Workers : owns[v] /\ Home[v] = Home[w]
            => Owner[cur[v]] # Owner[cur[w]]
      BY <2>1, <2>3
    <3>3. ASSUME NEW p \in Procs
          PROVE  slot'[p] = {Owner[cur'[v]] :
                               v \in {x \in Workers : Home[x] = p /\ owns'[x]}}
      <4>1. CASE p = Home[w]
        BY <1>t, <2>1, <3>1, <4>1
      <4>2. CASE p # Home[w]
        BY <1>t, <2>1, <3>1, <4>2
      <4> QED BY <4>1, <4>2
    <3>4. \A v, x \in Workers :
            /\ owns'[v] /\ owns'[x] /\ Home[v] = Home[x]
            /\ Owner[cur[v]] = Owner[cur[x]]
            => v = x
      BY <1>t, <3>1, <3>2
    <3> QED BY <2>1, <3>3, <3>4
  <2> QED BY <2>2, <2>3
<1>2. ASSUME NEW w \in Workers, Unwind(w) \/ LookupThrow(w)
      PROVE  SlotInv'
  <2>1. /\ slot' = IF owns[w] THEN [slot EXCEPT ![Home[w]] =
                                      @ \ {Owner[cur[w]]}] ELSE slot
        /\ owns' = [owns EXCEPT ![w] = FALSE]
        /\ \A v \in Workers \ {w} : cur'[v] = cur[v]
        /\ Home[w] \in Procs
    BY <1>2, <1>t DEF Unwind, SlotAfter, LookupThrow, Goto, CallsInv
  <2>2. CASE owns[w]
    BY <1>t, <2>1, <2>2
  <2>3. CASE ~owns[w]
    BY <1>t, <2>1, <2>3
  <2> QED BY <2>2, <2>3
<1>3. ASSUME NEW p \in Procs, Crash(p)
      PROVE  SlotInv'
  <2>1. /\ slot' = [slot EXCEPT ![p] = {}]
        /\ \A v \in Workers :
             IF Home[v] = p THEN ~owns'[v]
                            ELSE owns'[v] = owns[v] /\ cur'[v] = cur[v]
    BY <1>3, <1>t DEF Crash, CallsInv
  <2>2. ASSUME NEW q \in Procs
        PROVE  slot'[q] = {Owner[cur'[v]] :
                             v \in {x \in Workers : Home[x] = q /\ owns'[x]}}
    <3>1. CASE q = p
      BY <1>t, <2>1, <3>1
    <3>2. CASE q # p
      BY <1>t, <2>1, <3>2
    <3> QED BY <3>1, <3>2
  <2> QED BY <2>1, <2>2
<1>4. ASSUME NEW w \in Workers, NEW j \in Jobs, Claim(w, j)
      PROVE  SlotInv'
  <2>1. UNCHANGED <<slot, owns>> /\ ~owns[w]
        /\ \A v \in Workers \ {w} : cur'[v] = cur[v]
    BY <1>4, <1>t DEF Claim, Goto, CallsInv
  <2> QED BY <1>t, <2>1
<1>5. CASE UNCHANGED <<slot, owns, cur>>
  BY <1>5
<1> QED
  BY <1>1, <1>2, <1>3, <1>4, <1>5
  DEF Next, Creating, Advance, CreateCall, CreateSupersede, CreateInsert,
      CreateThrow, Cancel, Expire, SetMode, Rotate, Tick, LoadUser, Refuse,
      SlotGranted, Busy, Write, Fail, Release, Authorize, Propagate, Record,
      Finish, Reread, Publish, Throw, Recover

\* A running lease: no step but one of the call that holds it touches the job.
LEMMA ProtectStep ==
  ASSUME IInv, [Next]_vars, NEW j \in Jobs, LeaseActive(j, now)
  PROVE  \/ UNCHANGED <<status[j], applyingAt[j], expiresAt[j], auth[j],
                        party[j], result[j]>>
         \/ \E w \in Workers : Holds(w, j) /\ pc'[w] # pc[w]
<1> DEFINE Same == UNCHANGED <<status[j], applyingAt[j], expiresAt[j],
                               auth[j], party[j], result[j]>>
<1>t. /\ TypeOK /\ CallsInv /\ LeaseInv /\ CreateInv
      /\ now \in Nat /\ status \in [Jobs -> Statuses]
      /\ applyingAt \in [Jobs -> Nat \cup {NoTime}]
      /\ expiresAt \in [Jobs -> Nat] /\ auth \in [Jobs -> BOOLEAN]
      /\ party \in [Jobs -> SUBSET Clears]
      /\ result \in [Jobs -> SUBSET Entries]
      /\ cur \in [Workers -> Jobs \cup {NoJob}]
      /\ pc \in [Workers -> Steps] /\ cnow \in [Creators -> Nat]
  BY DEF IInv, TypeOK
<1>a. status[j] = "applying" /\ applyingAt[j] + Lease > now
      /\ applyingAt[j] \in Nat /\ expiresAt[j] > now
  BY <1>t DEF LeaseActive, LeaseInv
<1>1. ASSUME NEW k \in Creators, CreateSupersede(k)
      PROVE  Same
  <2>1. ~Reclaimable(j, cnow[k])
    BY <1>t, <1>a DEF Reclaimable, LeaseInv
  <2> QED BY <1>1, <2>1 DEF CreateSupersede
<1>2. ASSUME NEW k \in Creators, CreateInsert(k)
      PROVE  Same
  BY <1>2, <1>t, <1>a DEF CreateInsert, CreateInv
<1>3. ASSUME NEW w \in Workers, NEW i \in Jobs, Claim(w, i)
      PROVE  Same
  <2>1. i # j
    BY <1>3, <1>t, <1>a DEF Claim, Claimable, Reclaimable
  <2> QED BY <1>3, <1>t, <2>1 DEF Claim
<1>4. ASSUME NEW w \in Workers, Authorize(w)
      PROVE  Same \/ (Holds(w, j) /\ pc'[w] # pc[w])
  <2>1. CASE Owns(w) /\ cur[w] = j
    BY <1>4, <1>t, <2>1 DEF Authorize, Goto, Holds, Held
  <2>2. CASE ~Owns(w)
    BY <1>4, <2>2 DEF Authorize
  <2>3. CASE cur[w] # j
    BY <1>4, <1>t, <2>3 DEF Authorize
  <2> QED BY <2>1, <2>2, <2>3
<1>5. ASSUME NEW w \in Workers, Leaving(w)
      PROVE  Same \/ (Holds(w, j) /\ pc'[w] # pc[w])
  <2>1. CASE Owns(w) /\ cur[w] = j
    BY <1>5, <1>t, <2>1, LeavingStep DEF Holds
  <2>2. CASE ~Owns(w)
    BY <1>5, <1>t, <2>2, LeavingStep
  <2>3. CASE cur[w] # j
    BY <1>5, <1>t, <2>3, LeavingStep
  <2> QED BY <2>1, <2>2, <2>3
<1>6. ASSUME NEW i \in Jobs, Cancel(i)
      PROVE  Same
  <2>1. i # j
    BY <1>6, <1>t, <1>a DEF Cancel, Claimable, Reclaimable
  <2> QED BY <1>6, <1>t, <2>1 DEF Cancel
<1>7. ASSUME NEW i \in Jobs, Expire(i)
      PROVE  Same
  <2>1. i # j
    BY <1>7, <1>t, <1>a DEF Expire
  <2> QED BY <1>7, <1>t, <2>1 DEF Expire
<1>8. ASSUME UNCHANGED docVars
      PROVE  Same
  BY <1>8
<1>9. ASSUME NEW w \in Workers, Quiet(w), ~Authorize(w)
      PROVE  UNCHANGED docVars
  BY <1>9 DEF Quiet, LoadUser, TakeSlot, SlotGranted, LookupThrow, Write,
              Propagate, Record, Reread, Publish, Throw
<1> HIDE DEF Same
<1>10. ASSUME NEW w \in Workers,
              Advance(w) \/ Throw(w) \/ LookupThrow(w)
       PROVE  Same \/ (Holds(w, j) /\ pc'[w] # pc[w])
  BY <1>10, <1>4, <1>5, <1>8, <1>9 DEF Advance, Quiet, Leaving, Unwind
<1>11. ASSUME NEW k \in Creators, Creating(k)
       PROVE  Same
  BY <1>11, <1>1, <1>2, <1>8 DEF Creating, CreateCall, CreateThrow
<1>12. Same \/ \E w \in Workers : Holds(w, j) /\ pc'[w] # pc[w]
  BY <1>3, <1>6, <1>7, <1>8, <1>10, <1>11
  DEF Next, SetMode, Rotate, Crash, Tick
<1> QED BY <1>12 DEF Same

-----------------------------------------------------------------------------
(***************************************************************************)
(* What the attempts of a job write, authorize and hand on.                *)
(***************************************************************************)

\* What was written, authorized or collected for a job goes back to a write on
\* its owner's roster; a job without a document has nothing of it.
SpentInv ==
  /\ \A j \in Jobs : wrote[j] = {} =>
       /\ result[j] = {}
       /\ auth[j] => party[j] = {}
  /\ \A w \in Workers : pc[w] # "idle" /\ wrote[cur[w]] = {} =>
       /\ sum[w] = {}
       /\ snapAuth[w] => snapParty[w] = {}
  /\ \A w \in Workers : pc[w] = "propagate" => snapAuth[w]
  /\ \A j \in Jobs : status[j] = "unborn" =>
       /\ wrote[j] = {}
       /\ \A w \in Workers : pc[w] # "idle" => cur[w] # j

\* A save adds to the clears written for the job of the call; nothing else
\* changes these.
LEMMA SpentStep ==
  ASSUME TypeOK, CallsInv, CreateInv, SpentInv, [Next]_vars
  PROVE  SpentInv'
<1>t. /\ status \in [Jobs -> Statuses] /\ pc \in [Workers -> Steps]
      /\ cur \in [Workers -> Jobs \cup {NoJob}]
      /\ auth \in [Jobs -> BOOLEAN] /\ party \in [Jobs -> SUBSET Clears]
      /\ result \in [Jobs -> SUBSET Entries]
      /\ wrote \in [Jobs -> SUBSET Clears]
      /\ sum \in [Workers -> SUBSET Entries]
      /\ snapAuth \in [Workers -> BOOLEAN]
      /\ snapParty \in [Workers -> SUBSET Clears]
  BY DEF TypeOK
<1> USE DEF SpentInv
<1>1. ASSUME NEW k \in Creators, CreateSupersede(k)
      PROVE  SpentInv'
  <2>1. \A j \in Jobs : status'[j] = "unborn" => status[j] = "unborn"
    BY <1>1, <1>t DEF CreateSupersede
  <2> QED BY <1>1, <2>1 DEF CreateSupersede
<1>2. ASSUME NEW k \in Creators, CreateInsert(k)
      PROVE  SpentInv'
  <2>1. \A j \in Jobs : status'[j] = "unborn" => status[j] = "unborn"
    BY <1>2, <1>t DEF CreateInsert
  <2> QED BY <1>2, <2>1 DEF CreateInsert
<1>3. ASSUME NEW w \in Workers, NEW j \in Jobs, Claim(w, j)
      PROVE  SpentInv'
  <2>1. /\ status' = [status EXCEPT ![j] = "applying"]
        /\ status[j] # "unborn"
        /\ pc' = [pc EXCEPT ![w] = "load"]
        /\ cur' = [cur EXCEPT ![w] = j]
        /\ sum' = [sum EXCEPT ![w] = result[j]]
        /\ snapAuth' = [snapAuth EXCEPT ![w] = auth[j]]
        /\ snapParty' = [snapParty EXCEPT ![w] = party[j]]
        /\ UNCHANGED <<auth, party, result, wrote>>
    BY <1>3 DEF Claim, Goto, Claimable, Reclaimable
  <2>2. \A v \in Workers : v # w => /\ pc'[v] = pc[v] /\ cur'[v] = cur[v]
                                    /\ sum'[v] = sum[v]
                                    /\ snapAuth'[v] = snapAuth[v]
                                    /\ snapParty'[v] = snapParty[v]
    BY <2>1, <1>t
  <2>3. /\ pc'[w] = "load" /\ cur'[w] = j /\ sum'[w] = result[j]
        /\ snapAuth'[w] = auth[j] /\ snapParty'[w] = party[j]
    BY <2>1, <1>t
  <2>4. \A i \in Jobs : status'[i] = "unborn" => status[i] = "unborn" /\ i # j
    BY <2>1, <1>t
  <2>5. UNCHANGED <<auth, party, result, wrote>>
    BY <2>1
  <2>6. ASSUME NEW v \in Workers, pc'[v] # "idle", wrote'[cur'[v]] = {}
        PROVE  sum'[v] = {} /\ (snapAuth'[v] => snapParty'[v] = {})
    <3>1. CASE v = w
      BY <2>3, <2>5, <2>6, <3>1
    <3>2. CASE v # w
      BY <2>2, <2>5, <2>6, <3>2
    <3> QED BY <3>1, <3>2
  <2>7. \A v \in Workers : pc'[v] = "propagate" => snapAuth'[v]
    BY <2>2, <2>3
  <2>8. \A i \in Jobs : status'[i] = "unborn" =>
          wrote'[i] = {} /\ \A v \in Workers : pc'[v] # "idle" => cur'[v] # i
    BY <2>2, <2>3, <2>4, <2>5
  <2> QED BY <2>5, <2>6, <2>7, <2>8
<1>4. ASSUME NEW w \in Workers, Write(w)
      PROVE  SpentInv'
  <2>1. PICK W \in SUBSET Clears, to \in Steps \ {"idle"} :
          /\ pc' = [pc EXCEPT ![w] = to]
          /\ to = "propagate" => snapAuth[w]
          /\ sum' = [sum EXCEPT ![w] = Merged(w, W)]
          /\ wrote' = [wrote EXCEPT ![cur[w]] = @ \cup W]
    BY <1>4 DEF Write, Steps, Held, CallsInv
  <2>2. /\ UNCHANGED <<cur, snapAuth, snapParty, status, auth, party, result>>
        /\ pc[w] = "write" /\ cur[w] \in Jobs
    BY <1>4 DEF Write, CallsInv
  <2>3. \A j \in Jobs : /\ wrote'[j] = {} => wrote[j] = {}
                        /\ status[j] = "unborn" => wrote'[j] = wrote[j]
    BY <2>1, <2>2, <1>t
  <2>4. /\ \A v \in Workers : v # w => pc'[v] = pc[v] /\ sum'[v] = sum[v]
        /\ pc'[w] = to /\ sum'[w] = sum[w] \cup Own(W)
        /\ wrote'[cur[w]] = wrote[cur[w]] \cup W
    BY <2>1, <2>2, <1>t DEF Merged
  <2>5. W = {} => Own(W) = {}
    BY DEF Own
  <2>6. \A v \in Workers : pc'[v] # "idle" => pc[v] # "idle" /\ cur[v] \in Jobs
    BY <2>2, <2>4 DEF CallsInv
  <2>7. wrote'[cur[w]] = {} => sum'[w] = {}
    BY <2>2, <2>4, <2>5
  <2> QED BY <2>1, <2>2, <2>3, <2>4, <2>6, <2>7
<1>5. ASSUME NEW w \in Workers, Authorize(w)
      PROVE  SpentInv'
  <2> DEFINE D == ToPropagate(w, sum[w])
  <2>1. /\ UNCHANGED <<status, result, cur, sum, wrote>>
        /\ pc' = [pc EXCEPT ![w] = IF Owns(w) THEN "propagate" ELSE "recover"]
        /\ pc[w] = "authorize" /\ cur[w] \in Jobs
    BY <1>5 DEF Authorize, Goto, CallsInv
  <2>2. wrote[cur[w]] = {} => D = {}
    <3>1. OwnPart({}) = {}
      BY DEF OwnPart
    <3> QED BY <2>1, <3>1 DEF ToPropagate
  <2>3. CASE Owns(w)
    <3>1. /\ auth' = [auth EXCEPT ![cur[w]] = TRUE]
          /\ party' = [party EXCEPT ![cur[w]] = D]
          /\ snapAuth' = [snapAuth EXCEPT ![w] = TRUE]
          /\ snapParty' = [snapParty EXCEPT ![w] = D]
      BY <1>5, <2>3 DEF Authorize
    <3> HIDE DEF D
    <3> QED BY <2>1, <2>2, <2>3, <3>1, <1>t
  <2>4. CASE ~Owns(w)
    <3>1. UNCHANGED <<auth, party, snapAuth, snapParty>>
      BY <1>5, <2>4 DEF Authorize
    <3> QED BY <2>1, <2>4, <3>1, <1>t
  <2> QED BY <2>3, <2>4
<1>6. ASSUME NEW w \in Workers, Propagate(w)
      PROVE  SpentInv'
  <2>1. PICK W \in SUBSET snapParty[w], to \in {"record", "release"} :
          /\ pc' = [pc EXCEPT ![w] = to]
          /\ sum' = [sum EXCEPT ![w] = @ \cup Mates(W)]
    BY <1>6 DEF Propagate
  <2>2. /\ UNCHANGED <<cur, snapAuth, snapParty, status, auth, party, result,
                       wrote>>
        /\ pc[w] = "propagate" /\ cur[w] \in Jobs
    BY <1>6 DEF Propagate, CallsInv
  <2>3. W = {} => Mates(W) = {}
    BY DEF Mates
  <2> QED BY <2>1, <2>2, <2>3, <1>t
<1>7. ASSUME NEW w \in Workers,
             LoadUser(w) \/ TakeSlot(w) \/ SlotGranted(w)
               \/ LookupThrow(w) \/ Record(w) \/ Reread(w) \/ Publish(w)
               \/ Throw(w)
      PROVE  SpentInv'
  <2>1. /\ UNCHANGED <<cur, snapAuth, snapParty, status, auth, party, result,
                       wrote, sum>>
        /\ pc'[w] # "propagate" /\ pc[w] # "idle"
        /\ \A v \in Workers : v # w => pc'[v] = pc[v]
    BY <1>7, <1>t DEF LoadUser, TakeSlot, SlotGranted, LookupThrow, Record,
                      Reread, Publish, Throw, Goto
  <2> QED BY <2>1
<1>8. ASSUME NEW w \in Workers, Leaving(w)
      PROVE  SpentInv'
  <2>1. /\ UNCHANGED <<cur, sum, snapAuth, snapParty, wrote, auth, party>>
        /\ \A v \in Workers : v # w => pc'[v] = pc[v]
        /\ pc[w] # "idle" /\ cur[w] \in Jobs /\ pc'[w] # "propagate"
    BY <1>8, <1>t DEF Leaving, Refuse, Busy, Fail, Release, Finish, Recover,
                      Goto, CallsInv
  <2>2. PICK res \in {{}, sum[w], result[cur[w]]} :
          \/ UNCHANGED <<status, result>>
          \/ \E st \in {"pending", "failed", "applied"} :
               /\ status' = [status EXCEPT ![cur[w]] = st]
               /\ result' = [result EXCEPT ![cur[w]] = res]
    BY <1>8 DEF Leaving, Refuse, Busy, Fail, Release, Finish, Recover, Leave
  <2>3. /\ \A j \in Jobs : status'[j] = "unborn" => status[j] = "unborn"
        /\ \A j \in Jobs : wrote[j] = {} => result'[j] = {}
    BY <2>1, <2>2, <1>t
  <2> QED BY <2>1, <2>3
<1>9. ASSUME NEW w \in Workers, Unwind(w)
      PROVE  SpentInv'
  <2>1. /\ UNCHANGED <<status, auth, party, result, wrote>>
        /\ pc'[w] = "idle"
        /\ \A v \in Workers : v # w =>
             /\ pc'[v] = pc[v] /\ cur'[v] = cur[v] /\ sum'[v] = sum[v]
             /\ snapAuth'[v] = snapAuth[v] /\ snapParty'[v] = snapParty[v]
    BY <1>9, <1>t DEF Unwind, Goto
  <2> QED BY <2>1
<1>10. ASSUME NEW p \in Procs, Crash(p)
       PROVE  SpentInv'
  <2>1. /\ UNCHANGED <<status, auth, party, result, wrote>>
        /\ \A v \in Workers :
             \/ pc'[v] = "idle"
             \/ /\ pc'[v] = pc[v] /\ cur'[v] = cur[v] /\ sum'[v] = sum[v]
                /\ snapAuth'[v] = snapAuth[v] /\ snapParty'[v] = snapParty[v]
    BY <1>10, <1>t DEF Crash
  <2> QED BY <2>1
<1>11. ASSUME NEW j \in Jobs, Cancel(j) \/ Expire(j)
       PROVE  SpentInv'
  <2>1. /\ UNCHANGED <<auth, party, result, wrote, callVars>>
        /\ \A i \in Jobs : status'[i] = "unborn" => status[i] = "unborn"
    BY <1>11, <1>t DEF Cancel, Expire
  <2> QED BY <2>1
<1>12. CASE UNCHANGED <<status, auth, party, result, wrote, callVars>>
  BY <1>12
<1> QED
  BY <1>1, <1>2, <1>3, <1>4, <1>5, <1>6, <1>7, <1>8, <1>9, <1>10, <1>11,
     <1>12
  DEF Next, Creating, Advance, Leaving, CreateCall, CreateThrow, SetMode,
      Rotate, Tick

\* A token is shortened by a call that wrote for its job, and the token of a
\* job is fixed once the job exists.
LEMMA ShrinkStep ==
  ASSUME TypeOK, CallsInv, SpentInv, OnlySpentTokensShrink, [Next]_vars
  PROVE  OnlySpentTokensShrink'
<1>t. /\ pc \in [Workers -> Steps] /\ cur \in [Workers -> Jobs \cup {NoJob}]
      /\ wrote \in [Jobs -> SUBSET Clears]
      /\ jtoken \in [Jobs -> Tokens \cup {NoToken}]
  BY DEF TypeOK
<1>1. ASSUME NEW j \in Jobs, wrote[j] # {}
      PROVE  wrote'[j] # {}
  <2>1. ASSUME NEW w \in Workers, Write(w)
        PROVE  wrote'[j] # {}
    BY <2>1, <1>1, <1>t DEF Write, CallsInv
  <2> QED
    BY <1>1, <2>1
    DEF Next, Creating, Advance, CreateCall, CreateSupersede, CreateInsert,
        CreateThrow, Claim, LoadUser, Refuse, TakeSlot, SlotGranted,
        LookupThrow, Busy, Fail, Release,
        Authorize, Propagate, Record, Finish, Reread, Publish, Throw, Recover,
        Unwind, Cancel, Expire, SetMode, Rotate, Crash, Tick
<1>2. ASSUME NEW j \in Jobs, wrote[j] # {}
      PROVE  jtoken'[j] = jtoken[j]
  <2>1. ASSUME NEW k \in Creators, NEW i \in Jobs, CreateCall(k, i)
        PROVE  jtoken'[j] = jtoken[j]
    BY <2>1, <1>2, <1>t DEF CreateCall, SpentInv
  <2> QED
    BY <2>1
    DEF Next, Creating, Advance, CreateSupersede, CreateInsert,
        CreateThrow, Claim, LoadUser, Refuse, TakeSlot, SlotGranted,
        LookupThrow, Busy, Write, Fail,
        Release, Authorize, Propagate, Record, Finish, Reread, Publish, Throw,
        Recover, Unwind, Cancel, Expire, SetMode, Rotate, Crash, Tick
<1>3. ASSUME NEW t \in short', t \notin short
      PROVE  \E j \in Jobs : jtoken[j] = t /\ wrote[j] # {}
  <2>1. ASSUME NEW w \in Workers, Record(w)
        PROVE  \E j \in Jobs : jtoken[j] = t /\ wrote[j] # {}
    <3>1. pc[w] = "record" /\ MayShrink(w) /\ t = snapToken[w]
      BY <2>1, <1>3 DEF Record, Goto
    <3>2. cur[w] \in Jobs /\ wrote[cur[w]] # {} /\ jtoken[cur[w]] = t
      BY <3>1 DEF MayShrink, CallsInv, SpentInv
    <3> QED BY <3>2
  <2> QED
    BY <2>1, <1>3
    DEF Next, Creating, Advance, CreateCall, CreateSupersede, CreateInsert,
        CreateThrow, Claim, LoadUser, Refuse, TakeSlot, SlotGranted,
        LookupThrow, Busy, Write, Fail,
        Release, Authorize, Propagate, Finish, Reread, Publish, Throw,
        Recover, Unwind, Cancel, Expire, SetMode, Rotate, Crash, Tick
<1> QED BY <1>1, <1>2, <1>3 DEF OnlySpentTokensShrink

\* A job whose apply was never interrupted, as long as it may be applied.
Alive(j) ==
  j \notin interrupted /\ status[j] \in {"pending", "applying", "applied"}

\* The clears of a job that have to reach the party writer.
Need(j) == (wrote[j] \ late[j]) \cap Party[j]

\* Nothing of that is lost to the next attempt, or to the rest of this one:
\* the authorized deltas have it, and before the authorization every written
\* clear is among the own clears of r.
Promised(j, r) ==
  IF auth[j] THEN Need(j) \subseteq party[j]
             ELSE party[j] = Party[j] /\ wrote[j] \subseteq OwnPart(r)

\* What the document has to keep between the attempts and after the last.
Kept(j) ==
  /\ status[j] = "pending" => Promised(j, result[j])
  /\ status[j] = "applied" => Need(j) \subseteq offered[j]

\* What the one call of a running attempt knows.
Carries(w) ==
  LET j == cur[w]
  IN /\ Owns(w)
     /\ snapAuth[w] = auth[j] /\ snapParty[w] = party[j]
     /\ Promised(j, sum[w])
     /\ pc[w] \in {"load", "slot", "busy"} => sum[w] = result[j]
     /\ pc[w] \in {"record", "finish"} => Need(j) \subseteq offered[j]
     /\ pc[w] = "authorize" => ~auth[j]

PartyInv ==
  /\ \A j \in Jobs : status[j] = "unborn" => ~auth[j] /\ party[j] = Party[j]
  /\ \A j \in Jobs : j \notin interrupted => Kept(j)
  /\ \A w \in Workers : pc[w] \in Held /\ Alive(cur[w]) => Carries(w)

\* A step of a call at work on a job that is still to be counted: nobody else
\* works on that job, so only its own part has to be looked at.
LEMMA PartyFrame ==
  ASSUME CallsInv, OneLeaseHolder, PartyInv,
         NEW w \in Workers, pc[w] \in Held,
         UNCHANGED <<cur, lease, interrupted>>,
         \A v \in Workers : v # w =>
           /\ pc'[v] = pc[v] /\ sum'[v] = sum[v]
           /\ snapAuth'[v] = snapAuth[v] /\ snapParty'[v] = snapParty[v],
         \A i \in Jobs : i # cur[w] =>
           /\ status'[i] = status[i] /\ applyingAt'[i] = applyingAt[i]
           /\ auth'[i] = auth[i] /\ party'[i] = party[i]
           /\ result'[i] = result[i] /\ wrote'[i] = wrote[i]
           /\ late'[i] = late[i] /\ offered'[i] = offered[i],
         status'[cur[w]] = "unborn" => /\ status[cur[w]] = "unborn"
                                       /\ UNCHANGED <<auth, party>>,
         Alive(cur[w])' => /\ Alive(cur[w])
                           /\ Kept(cur[w])'
                           /\ pc'[w] \in Held => Carries(w)'
  PROVE  PartyInv'
<1> DEFINE j == cur[w]
<1>1. j \in Jobs
  BY DEF CallsInv, Held
<1>2. ASSUME NEW i \in Jobs, status'[i] = "unborn"
      PROVE  ~auth'[i] /\ party'[i] = Party[i]
  BY <1>2 DEF PartyInv
<1>3. ASSUME NEW i \in Jobs, i \notin interrupted'
      PROVE  Kept(i)'
  <2>1. CASE i = j
    BY <1>3, <2>1 DEF Alive, Kept
  <2>2. CASE i # j
    BY <1>3, <2>2 DEF PartyInv, Kept, Promised, Need
  <2> QED BY <2>1, <2>2
<1>4. ASSUME NEW v \in Workers, pc'[v] \in Held, Alive(cur[v])'
      PROVE  Carries(v)'
  <2>1. CASE v = w
    BY <1>4, <2>1
  <2>2. ASSUME v # w, cur[v] = j
        PROVE  FALSE
    <3>1. pc[v] \in Held /\ Alive(j)
      BY <1>4, <2>2
    <3>2. Carries(v) /\ Carries(w)
      BY <2>2, <3>1 DEF PartyInv
    <3>3. Holds(v, j) /\ Holds(w, j)
      BY <2>2, <3>1, <3>2 DEF Carries, Holds
    <3> QED BY <1>1, <2>2, <3>3 DEF OneLeaseHolder
  <2>3. CASE v # w /\ cur[v] # j
    <3>1. cur[v] \in Jobs /\ pc[v] \in Held
      BY <1>4, <2>3 DEF CallsInv, Held
    <3>2. Alive(cur[v])
      BY <1>4, <2>3, <3>1 DEF Alive
    <3>3. Carries(v)
      BY <3>1, <3>2 DEF PartyInv
    <3> QED BY <2>3, <3>1, <3>3 DEF Carries, Owns, Promised, Need
  <2> QED BY <2>1, <2>2, <2>3
<1> QED BY <1>2, <1>3, <1>4 DEF PartyInv

\* Own clears are never mistaken for the party's, and joining results joins
\* the own clears.
LEMMA OwnParts ==
  /\ \A W \in SUBSET Clears : OwnPart(Own(W)) = W /\ OwnPart(Mates(W)) = {}
  /\ \A r, s : OwnPart(r \cup s) = OwnPart(r) \cup OwnPart(s)
  BY DEF OwnPart, Own, Mates

\* Every attempt hands on what the earlier ones wrote, until it was offered.
LEMMA PartyStep ==
  ASSUME TypeOK, CallsInv, CreateInv, OneLeaseHolder, SpentInv, PartyInv,
         [Next]_vars
  PROVE  PartyInv'
<1>t. /\ status \in [Jobs -> Statuses] /\ pc \in [Workers -> Steps]
      /\ applyingAt \in [Jobs -> Nat \cup {NoTime}]
      /\ cur \in [Workers -> Jobs \cup {NoJob}] /\ lease \in [Workers -> Nat]
      /\ auth \in [Jobs -> BOOLEAN] /\ party \in [Jobs -> SUBSET Clears]
      /\ result \in [Jobs -> SUBSET Entries]
      /\ wrote \in [Jobs -> SUBSET Clears]
      /\ late \in [Jobs -> SUBSET Clears]
      /\ offered \in [Jobs -> SUBSET Clears]
      /\ sum \in [Workers -> SUBSET Entries]
      /\ snapAuth \in [Workers -> BOOLEAN]
      /\ snapParty \in [Workers -> SUBSET Clears]
  BY DEF TypeOK
<1>h. ASSUME NEW w \in Workers, pc[w] \in Held
      PROVE  /\ cur[w] \in Jobs /\ status[cur[w]] # "unborn"
             /\ Alive(cur[w]) => Carries(w) /\ status[cur[w]] = "applying"
  BY <1>h DEF CallsInv, SpentInv, PartyInv, Carries, Owns, Held
<1>1. ASSUME NEW w \in Workers,
             LoadUser(w) \/ TakeSlot(w) \/ SlotGranted(w)
               \/ LookupThrow(w) \/ Record(w) \/ Reread(w) \/ Throw(w)
      PROVE  PartyInv'
  <2>1. /\ UNCHANGED <<cur, lease, interrupted, status, applyingAt, auth,
                       party, result, sum, snapAuth, snapParty, wrote, late,
                       offered>>
        /\ \A v \in Workers : v # w => pc'[v] = pc[v]
        /\ pc[w] \in Held
    BY <1>1, <1>t DEF LoadUser, TakeSlot, SlotGranted, LookupThrow, Record,
                      Reread, Throw, Goto, Held
  <2>2. /\ pc'[w] = "slot" => pc[w] = "load"
        /\ pc'[w] = "busy" => pc[w] = "slot"
        /\ pc'[w] = "finish" => pc[w] = "record"
        /\ pc'[w] \notin {"load", "record", "authorize"}
    BY <1>1, <1>t DEF LoadUser, TakeSlot, SlotGranted, LookupThrow, Record,
                      Reread, Throw, Goto
  <2>3. ASSUME Alive(cur[w])'
        PROVE  Alive(cur[w]) /\ Kept(cur[w])' /\ Carries(w)'
    <3>1. Alive(cur[w]) /\ Carries(w)
      BY <2>1, <2>3, <1>h DEF Alive
    <3>2. Kept(cur[w])'
      BY <2>1, <1>h, <3>1 DEF Kept
    <3>3. Carries(w)'
      BY <2>1, <2>2, <3>1 DEF Carries, Owns, Promised, Need
    <3> QED BY <3>1, <3>2, <3>3
  <2> QED BY <2>1, <2>3, PartyFrame
<1>2. ASSUME NEW w \in Workers, Write(w)
      PROVE  PartyInv'
  <2> DEFINE j == cur[w]
  <2>1. PICK W \in SUBSET Clears, to \in {"fail", "release", "record",
                                          "propagate", "authorize"} :
          /\ pc' = [pc EXCEPT ![w] = to]
          /\ sum' = [sum EXCEPT ![w] = Merged(w, W)]
          /\ wrote' = [wrote EXCEPT ![j] = @ \cup W]
          /\ late' = [late EXCEPT ![j] = IF snapAuth[w] THEN @ \cup W ELSE @]
          /\ to = "record" => ToPropagate(w, Merged(w, W)) = {}
          /\ to = "authorize" => ~snapAuth[w]
    BY <1>2 DEF Write, CallsInv
  <2>2. /\ UNCHANGED <<cur, lease, interrupted, status, applyingAt, auth,
                       party, result, snapAuth, snapParty, offered>>
        /\ pc[w] = "write" /\ pc[w] \in Held
    BY <1>2 DEF Write, Held
  <2>3. j \in Jobs
    BY <2>2, <1>h
  <2>4. /\ pc'[w] = to /\ sum'[w] = Merged(w, W)
        /\ wrote'[j] = wrote[j] \cup W
        /\ late'[j] = IF snapAuth[w] THEN late[j] \cup W ELSE late[j]
        /\ \A v \in Workers : v # w => pc'[v] = pc[v] /\ sum'[v] = sum[v]
        /\ \A i \in Jobs : i # j => wrote'[i] = wrote[i] /\ late'[i] = late[i]
    BY <2>1, <2>3, <1>t
  <2>5. ASSUME Alive(j)'
        PROVE  Alive(j) /\ Kept(j)' /\ Carries(w)'
    <3>1. Alive(j) /\ Carries(w) /\ status[j] = "applying"
      BY <2>2, <2>5, <1>h DEF Alive
    <3>2. Kept(j)'
      BY <2>2, <3>1 DEF Kept
    <3>3. OwnPart(sum'[w]) = OwnPart(sum[w]) \cup W
      BY <2>4, OwnParts DEF Merged
    <3>a. snapAuth[w] = auth[j] /\ snapParty[w] = party[j]
          /\ Promised(j, sum[w])
      BY <3>1 DEF Carries
    <3>b. auth[j] => Need(j)' \subseteq Need(j) /\ Need(j) \subseteq party[j]
      BY <2>2, <2>4, <3>a DEF Promised, Need
    <3>c. ~auth[j] => /\ party[j] = Party[j]
                      /\ wrote'[j] \subseteq OwnPart(sum'[w])
      BY <2>4, <3>3, <3>a DEF Promised
    <3>4. /\ auth[j] => Need(j)' \subseteq Need(j) /\ Need(j) \subseteq party[j]
          /\ ~auth[j] => /\ party[j] = Party[j]
                         /\ wrote'[j] \subseteq OwnPart(sum'[w])
      BY <3>b, <3>c
    <3>5. Promised(j, sum[w])'
      BY <2>2, <3>4 DEF Promised
    <3>6. ASSUME to = "record"
          PROVE  Need(j)' = {}
      <4>1. CASE auth[j]
        BY <2>1, <3>1, <3>4, <3>6, <4>1 DEF Carries, ToPropagate
      <4>2. CASE ~auth[j]
        <5>1. Party[j] \cap OwnPart(sum'[w]) = {}
          BY <2>1, <2>4, <3>1, <3>4, <3>6, <4>2 DEF Carries, ToPropagate
        <5>2. wrote'[j] \subseteq OwnPart(sum'[w])
          BY <3>4, <4>2
        <5> QED BY <2>2, <5>1, <5>2 DEF Need
      <4> QED BY <4>1, <4>2
    <3>7. /\ Owns(w)' /\ snapAuth'[w] = auth'[j] /\ snapParty'[w] = party'[j]
          /\ to = "authorize" => ~auth'[j]
      BY <2>1, <2>2, <3>1 DEF Carries, Owns
    <3>8. Carries(w)'
      BY <2>1, <2>2, <2>4, <3>5, <3>6, <3>7 DEF Carries
    <3> QED BY <3>1, <3>2, <3>8
  <2>6. status[j] # "unborn"
    BY <2>2, <1>h
  <2> HIDE DEF j
  <2> QED BY <2>2, <2>4, <2>5, <2>6, PartyFrame DEF j
<1>3. ASSUME NEW w \in Workers, Authorize(w)
      PROVE  PartyInv'
  <2> DEFINE j == cur[w]
             D == ToPropagate(w, sum[w])
  <2>1. /\ UNCHANGED <<cur, lease, interrupted, status, applyingAt, result,
                       sum, wrote, late, offered>>
        /\ pc[w] = "authorize" /\ pc[w] \in Held
        /\ pc' = [pc EXCEPT ![w] = IF Owns(w) THEN "propagate" ELSE "recover"]
    BY <1>3 DEF Authorize, Goto, Held
  <2>2. j \in Jobs /\ status[j] # "unborn"
    BY <2>1, <1>h
  <2>3. CASE Owns(w)
    <3>1. /\ auth' = [auth EXCEPT ![j] = TRUE]
          /\ party' = [party EXCEPT ![j] = D]
          /\ snapAuth' = [snapAuth EXCEPT ![w] = TRUE]
          /\ snapParty' = [snapParty EXCEPT ![w] = D]
      BY <1>3, <2>3 DEF Authorize
    <3> HIDE DEF D
    <3>2. /\ pc'[w] = "propagate"
          /\ snapAuth'[w] = auth'[j] /\ snapParty'[w] = party'[j]
          /\ auth'[j] /\ party'[j] = D
          /\ \A v \in Workers : v # w =>
               /\ pc'[v] = pc[v]
               /\ snapAuth'[v] = snapAuth[v] /\ snapParty'[v] = snapParty[v]
          /\ \A i \in Jobs : i # j => auth'[i] = auth[i] /\ party'[i] = party[i]
      BY <2>1, <2>2, <2>3, <3>1, <1>t
    <3>3. ASSUME Alive(j)'
          PROVE  Alive(j) /\ Kept(j)' /\ Carries(w)'
      <4>1. Alive(j) /\ Carries(w) /\ status[j] = "applying"
        BY <2>1, <3>3, <1>h DEF Alive
      <4>2. Kept(j)'
        BY <2>1, <4>1 DEF Kept
      <4>3. Need(j) \subseteq D
        <5>1. ~auth[j] /\ D = snapParty[w] \cap OwnPart(sum[w])
          BY <2>1, <4>1 DEF D, Carries, ToPropagate
        <5> QED BY <4>1, <5>1 DEF Carries, Promised, Need
      <4>4. Promised(j, sum[w])'
        BY <2>1, <3>2, <4>3 DEF Promised, Need
      <4> QED BY <2>1, <3>2, <4>1, <4>2, <4>4 DEF Carries, Owns
    <3>4. status'[j] # "unborn"
      BY <2>1, <2>2
    <3> HIDE DEF j
    <3> QED BY <2>1, <3>2, <3>3, <3>4, PartyFrame DEF j
  <2>4. CASE ~Owns(w)
    <3>1. UNCHANGED <<auth, party, snapAuth, snapParty>>
      BY <1>3, <2>4 DEF Authorize
    <3>2. ~Alive(j) /\ ~Alive(j)'
      BY <2>1, <2>4, <1>h DEF Alive, Carries
    <3> QED BY <2>1, <3>1, <3>2, <1>t, PartyFrame
  <2> QED BY <2>3, <2>4
<1>4. ASSUME NEW w \in Workers, Propagate(w)
      PROVE  PartyInv'
  <2> DEFINE j == cur[w]
             D == snapParty[w]
             done == partyDone[Owner[j]]
             Told(W, E) ==
               /\ pc' = [pc EXCEPT ![w] =
                             IF E = {} THEN "record" ELSE "release"]
               /\ sum' = [sum EXCEPT ![w] = @ \cup Mates(W)]
               /\ offered' = [offered EXCEPT ![j] = @ \cup (D \ E)]
  <2>1. PICK W \in SUBSET (D \ done) :
          \E E \in SUBSET (D \ (done \cup W)) : Told(W, E)
    BY <1>4, Zenon DEF Propagate
  <2>2. PICK E : Told(W, E)
    BY <2>1
  <2>3. /\ UNCHANGED <<cur, lease, interrupted, status, applyingAt, auth,
                       party, result, snapAuth, snapParty, wrote, late>>
        /\ pc[w] = "propagate" /\ pc[w] \in Held
    BY <1>4 DEF Propagate, Held
  <2>4. j \in Jobs /\ W \subseteq Clears /\ status[j] # "unborn"
    BY <2>1, <2>3, <1>h, <1>t
  <2> HIDE DEF D, done
  <2>5. /\ pc'[w] = IF E = {} THEN "record" ELSE "release"
        /\ sum'[w] = sum[w] \cup Mates(W)
        /\ offered'[j] = offered[j] \cup (D \ E)
        /\ \A v \in Workers : v # w => pc'[v] = pc[v] /\ sum'[v] = sum[v]
        /\ \A i \in Jobs : i # j => offered'[i] = offered[i]
    BY <2>2, <2>4, <1>t
  <2>6. ASSUME Alive(j)'
        PROVE  Alive(j) /\ Kept(j)' /\ Carries(w)'
    <3>1. Alive(j) /\ Carries(w) /\ status[j] = "applying"
      BY <2>3, <2>6, <1>h DEF Alive
    <3>2. Kept(j)'
      BY <2>3, <3>1 DEF Kept
    <3>3. auth[j] /\ Need(j) \subseteq D
      BY <2>3, <3>1 DEF SpentInv, Carries, Promised, D
    <3>4. Promised(j, sum[w])' /\ Need(j)' = Need(j)
      BY <2>3, <3>3, <3>1 DEF Promised, Need, Carries
    <3>5. E = {} => Need(j) \subseteq offered'[j]
      BY <2>5, <3>3
    <3>6. Owns(w)' /\ snapAuth'[w] = auth'[j] /\ snapParty'[w] = party'[j]
      BY <2>3, <3>1 DEF Carries, Owns
    <3>7. Carries(w)'
      BY <2>3, <2>5, <3>4, <3>5, <3>6 DEF Carries
    <3> QED BY <3>1, <3>2, <3>7
  <2> HIDE DEF j, Told
  <2>7. status'[j] # "unborn"
    BY <2>3, <2>4
  <2> QED BY <2>3, <2>5, <2>6, <2>7, PartyFrame DEF j
<1>5. ASSUME NEW w \in Workers, Leaving(w)
      PROVE  PartyInv'
  <2> DEFINE j == cur[w]
  <2>1. /\ UNCHANGED <<cur, lease, interrupted, auth, party, sum, snapAuth,
                       snapParty, wrote, late, offered>>
        /\ pc[w] \in Held /\ j \in Jobs
        /\ pc'[w] \in Held => ~Owns(w)
        /\ \A v \in Workers : v # w => pc'[v] = pc[v]
    <3>1. pc[w] \in Held /\ (pc'[w] \in Held => ~Owns(w))
          /\ \A v \in Workers : v # w => pc'[v] = pc[v]
      BY <1>5, LeavingStep
    <3>2. UNCHANGED <<cur, lease, interrupted, auth, party, sum, snapAuth,
                      snapParty, wrote, late, offered>>
      BY <1>5 DEF Leaving, Refuse, Busy, Fail, Release, Finish, Recover
    <3> QED BY <3>1, <3>2, <1>h
  <2> DEFINE Left(st, res) ==
               /\ Owns(w)
               /\ status' = [status EXCEPT ![j] = st]
               /\ applyingAt' = [applyingAt EXCEPT ![j] = NoTime]
               /\ result' = [result EXCEPT ![j] = res]
  <2>2. \/ UNCHANGED <<status, applyingAt, result>>
        \/ \E res : Left("failed", res)
        \/ Left("pending", sum[w])
        \/ Left("pending", result[j]) /\ pc[w] = "busy"
        \/ Left("applied", sum[w]) /\ pc[w] = "finish"
    <3>1. CASE Refuse(w)
      BY <3>1 DEF Refuse, Leave
    <3>2. CASE Busy(w)
      BY <3>2 DEF Busy, Goto, Leave
    <3>3. CASE Fail(w)
      BY <3>3 DEF Fail, Leave
    <3>4. CASE Release(w)
      BY <3>4 DEF Release, Leave
    <3>5. CASE Finish(w)
      BY <3>5 DEF Finish, Goto, Leave
    <3>6. CASE Recover(w)
      BY <3>6 DEF Recover, Leave
    <3> QED BY <1>5, <3>1, <3>2, <3>3, <3>4, <3>5, <3>6 DEF Leaving
  <2>3. CASE UNCHANGED <<status, applyingAt, result>>
    <3>1. ASSUME Alive(j)'
          PROVE  Alive(j) /\ Kept(j)' /\ pc'[w] \notin Held
      <4>1. Alive(j) /\ Carries(w) /\ status[j] = "applying"
        BY <2>1, <2>3, <3>1, <1>h DEF Alive
      <4> QED BY <2>1, <2>3, <4>1 DEF Kept, Carries
    <3> QED BY <2>1, <2>3, <3>1, <1>h, PartyFrame
  <2>4. ASSUME NEW st \in {"pending", "failed", "applied"}, NEW res,
               Left(st, res),
               st = "pending" =>
                 res = sum[w] \/ (res = result[j] /\ pc[w] = "busy"),
               st = "applied" => pc[w] = "finish"
        PROVE  PartyInv'
    <3>1. /\ status'[j] = st /\ result'[j] = res /\ st # "unborn"
          /\ \A i \in Jobs : i # j => /\ status'[i] = status[i]
                                      /\ applyingAt'[i] = applyingAt[i]
                                      /\ result'[i] = result[i]
      BY <2>1, <2>4, <1>t
    <3>2. ASSUME Alive(j)'
          PROVE  Alive(j) /\ Kept(j)'
      <4>1. Alive(j)
        BY <2>1, <2>4, <3>2 DEF Alive, Owns
      <4>2. Carries(w)
        BY <2>1, <4>1, <1>h
      <4>3. st = "pending" => Promised(j, res)'
        BY <2>1, <2>4, <4>2 DEF Carries, Promised, Need
      <4>4. st = "applied" => Need(j)' \subseteq offered'[j]
        BY <2>1, <2>4, <4>2 DEF Carries, Need
      <4>5. Promised(j, res)' => Promised(j, result[j])'
        BY <2>1, <3>1 DEF Promised, Need
      <4>6. Kept(j)'
        BY <2>1, <3>1, <4>3, <4>4, <4>5 DEF Kept
      <4> QED BY <4>1, <4>6
    <3>3. pc'[w] \notin Held
      BY <2>1, <2>4
    <3> HIDE DEF j
    <3> QED BY <2>1, <3>1, <3>2, <3>3, PartyFrame DEF j
  <2> HIDE DEF Left
  <2> QED BY <2>2, <2>3, <2>4
<1>6. ASSUME NEW w \in Workers, NEW j \in Jobs, Claim(w, j)
      PROVE  PartyInv'
  <2>1. /\ status' = [status EXCEPT ![j] = "applying"]
        /\ applyingAt' = [applyingAt EXCEPT ![j] = now]
        /\ interrupted' = IF status[j] = "applying" THEN interrupted \cup {j}
                                                    ELSE interrupted
        /\ status[j] \in {"pending", "applying"}
        /\ pc' = [pc EXCEPT ![w] = "load"]
        /\ cur' = [cur EXCEPT ![w] = j]
        /\ lease' = [lease EXCEPT ![w] = now]
        /\ sum' = [sum EXCEPT ![w] = result[j]]
        /\ snapAuth' = [snapAuth EXCEPT ![w] = auth[j]]
        /\ snapParty' = [snapParty EXCEPT ![w] = party[j]]
        /\ UNCHANGED <<auth, party, result, wrote, late, offered>>
    BY <1>6 DEF Claim, Goto, Claimable, Reclaimable
  <2>2. /\ status'[j] = "applying" /\ applyingAt'[j] = now
        /\ pc'[w] = "load" /\ cur'[w] = j /\ lease'[w] = now
        /\ sum'[w] = result[j]
        /\ snapAuth'[w] = auth[j] /\ snapParty'[w] = party[j]
    BY <2>1, <1>t
  <2>3. /\ \A v \in Workers : v # w =>
             /\ pc'[v] = pc[v] /\ cur'[v] = cur[v] /\ lease'[v] = lease[v]
             /\ sum'[v] = sum[v] /\ snapAuth'[v] = snapAuth[v]
             /\ snapParty'[v] = snapParty[v]
        /\ \A i \in Jobs : i # j =>
             status'[i] = status[i] /\ applyingAt'[i] = applyingAt[i]
        /\ \A i \in Jobs : i \notin interrupted' => i \notin interrupted
    BY <2>1, <1>t
  <2>4. ASSUME NEW i \in Jobs
        PROVE  /\ status'[i] = "unborn" => ~auth'[i] /\ party'[i] = Party[i]
               /\ i \notin interrupted' => Kept(i)'
    <3>1. CASE i = j
      BY <2>2, <3>1 DEF Kept
    <3>2. CASE i # j
      BY <2>1, <2>3, <3>2 DEF PartyInv, Kept, Promised, Need
    <3> QED BY <3>1, <3>2
  <2>5. ASSUME NEW v \in Workers, pc'[v] \in Held, Alive(cur[v])'
        PROVE  Carries(v)'
    <3>1. CASE v = w
      <4>1. status[j] = "pending" /\ j \notin interrupted
        BY <2>1, <2>2, <2>5, <3>1 DEF Alive
      <4>2. Promised(j, result[j])
        BY <4>1 DEF PartyInv, Kept
      <4>3. Promised(j, sum[w])'
        BY <2>1, <2>2, <4>2 DEF Promised, Need
      <4> QED BY <2>1, <2>2, <3>1, <4>3 DEF Carries, Owns
    <3>2. CASE v # w
      <4>1. pc[v] \in Held /\ cur'[v] = cur[v] /\ cur[v] \in Jobs
        BY <2>3, <2>5, <3>2, <1>h
      <4>2. CASE cur[v] = j
        <5>1. j \notin interrupted /\ status[j] = "pending"
          BY <2>1, <2>5, <4>1, <4>2 DEF Alive
        <5> QED BY <4>1, <4>2, <5>1, <1>h DEF Alive
      <4>3. CASE cur[v] # j
        <5>1. Alive(cur[v])
          BY <2>3, <2>5, <4>1, <4>3 DEF Alive
        <5>2. Carries(v)
          BY <4>1, <5>1, <1>h
        <5> QED BY <2>1, <2>3, <3>2, <4>1, <4>3, <5>2
                DEF Carries, Owns, Promised, Need
      <4> QED BY <4>2, <4>3
    <3> QED BY <3>1, <3>2
  <2> QED BY <2>4, <2>5 DEF PartyInv
<1>7. ASSUME UNCHANGED <<auth, party, result, interrupted, wrote, late,
                         offered>>,
             \A j \in Jobs :
               \/ status'[j] = status[j] /\ applyingAt'[j] = applyingAt[j]
               \/ status'[j] \notin {"unborn", "pending", "applying",
                                     "applied"}
               \/ status'[j] = "pending" /\ status[j] = "unborn",
             \A v \in Workers : pc'[v] \in Held =>
               /\ pc'[v] = pc[v] /\ cur'[v] = cur[v] /\ lease'[v] = lease[v]
               /\ sum'[v] = sum[v] /\ snapAuth'[v] = snapAuth[v]
               /\ snapParty'[v] = snapParty[v]
      PROVE  PartyInv'
  <2>1. ASSUME NEW j \in Jobs, status'[j] = "unborn"
        PROVE  ~auth'[j] /\ party'[j] = Party[j]
    BY <1>7, <2>1 DEF PartyInv
  <2>2. ASSUME NEW j \in Jobs, j \notin interrupted'
        PROVE  Kept(j)'
    <3>1. CASE status'[j] = status[j]
      BY <1>7, <2>2, <3>1 DEF PartyInv, Kept, Promised, Need
    <3>2. CASE status'[j] = "pending" /\ status[j] = "unborn"
      BY <1>7, <3>2 DEF PartyInv, SpentInv, Kept, Promised, Need
    <3>3. CASE status'[j] \notin {"pending", "applied"}
      BY <3>3 DEF Kept
    <3> QED BY <1>7, <3>1, <3>2, <3>3
  <2>3. ASSUME NEW v \in Workers, pc'[v] \in Held, Alive(cur[v])'
        PROVE  Carries(v)'
    <3>1. /\ pc'[v] = pc[v] /\ cur'[v] = cur[v] /\ lease'[v] = lease[v]
          /\ sum'[v] = sum[v] /\ snapAuth'[v] = snapAuth[v]
          /\ snapParty'[v] = snapParty[v]
      BY <1>7, <2>3
    <3>2. cur[v] \in Jobs /\ status[cur[v]] # "unborn"
      BY <2>3, <3>1, <1>h
    <3>3. /\ status'[cur[v]] = status[cur[v]]
          /\ applyingAt'[cur[v]] = applyingAt[cur[v]]
          /\ Alive(cur[v])
      BY <1>7, <2>3, <3>1, <3>2 DEF Alive
    <3>4. Carries(v)
      BY <2>3, <3>1, <3>3, <1>h
    <3> QED BY <1>7, <3>1, <3>3, <3>4 DEF Carries, Owns, Promised, Need
  <2> QED BY <2>1, <2>2, <2>3 DEF PartyInv
<1>8. ASSUME NEW k \in Creators, CreateSupersede(k)
      PROVE  PartyInv'
  BY <1>8, <1>7, <1>t DEF CreateSupersede
<1>9. ASSUME NEW k \in Creators, CreateInsert(k)
      PROVE  PartyInv'
  BY <1>9, <1>7, <1>t DEF CreateInsert, CreateInv
<1>10. ASSUME NEW j \in Jobs, Cancel(j) \/ Expire(j)
       PROVE  PartyInv'
  BY <1>10, <1>7, <1>t DEF Cancel, Expire
<1>11. ASSUME NEW w \in Workers, Publish(w) \/ Unwind(w)
       PROVE  PartyInv'
  <2>1. \A v \in Workers : pc'[v] \in Held => v # w
    BY <1>11, <1>t DEF Publish, Unwind, Goto, Held
  <2> QED BY <1>11, <1>7, <1>t, <2>1 DEF Publish, Unwind, Goto
<1>12. ASSUME NEW p \in Procs, Crash(p)
       PROVE  PartyInv'
  <2>1. \A v \in Workers : pc'[v] \in Held =>
          /\ pc'[v] = pc[v] /\ cur'[v] = cur[v] /\ lease'[v] = lease[v]
          /\ sum'[v] = sum[v] /\ snapAuth'[v] = snapAuth[v]
          /\ snapParty'[v] = snapParty[v]
    BY <1>12, <1>t DEF Crash, Held
  <2> QED BY <1>12, <1>7, <2>1 DEF Crash
<1>13. CASE UNCHANGED <<docVars, callVars, interrupted, wrote, late, offered>>
  BY <1>13, <1>7
<1> QED
  BY <1>1, <1>2, <1>3, <1>4, <1>5, <1>6, <1>8, <1>9, <1>10, <1>11, <1>12,
     <1>13
  DEF Next, Creating, Advance, Leaving, CreateCall, CreateThrow, SetMode,
      Rotate, Tick

-----------------------------------------------------------------------------
(***************************************************************************)
(* The creates of one process.                                             *)
(***************************************************************************)

\* A job that a scan should have superseded.
Open(j) == status[j] \in {"pending", "applying"}

\* One create of a user at a time is between its two updates, and then every
\* open job of his is one the supersede had to spare; so is, later, every open
\* job but one.
OpenInv ==
  /\ \A i, k \in Creators :
       /\ cpc[i] = "inserting" /\ cpc[k] = "inserting"
       /\ Owner[cjob[i]] = Owner[cjob[k]]
       => i = k
  /\ \A k \in Creators : cpc[k] = "inserting" =>
       \A j \in Jobs : Open(j) /\ Owner[j] = Owner[cjob[k]] => j \in spared
  /\ \A i, j \in Jobs : Open(i) /\ Open(j) /\ Owner[i] = Owner[j] /\ i # j
       => i \in spared \/ j \in spared

\* With one process the create lock is one lock: a supersede settles or spares
\* everything open, and nothing opens before the insert but what it spared.
LEMMA OpenStep ==
  ASSUME \A i, k \in Creators : Home[i] = Home[k],
         TypeOK, CallsInv, CreateInv, OpenInv, [Next]_vars
  PROVE  OpenInv'
<1>t. /\ status \in [Jobs -> Statuses]
      /\ cur \in [Workers -> Jobs \cup {NoJob}]
      /\ cpc \in [Creators -> {"idle", "queued", "inserting"}]
      /\ cjob \in [Creators -> Jobs \cup {NoJob}]
  BY DEF TypeOK
<1> USE DEF OpenInv, Open
<1>1. ASSUME NEW k \in Creators, CreateSupersede(k)
      PROVE  OpenInv'
  <2> DEFINE own  == {j \in Jobs : Owner[j] = Owner[cjob[k]]}
             gone == {j \in own : Reclaimable(j, cnow[k])}
  <2>1. /\ status' = [j \in Jobs |-> IF j \in gone THEN "superseded"
                                                   ELSE status[j]]
        /\ spared' = spared \cup {j \in own \ gone : status[j] = "applying"}
        /\ cpc' = [cpc EXCEPT ![k] = "inserting"]
        /\ UNCHANGED cjob
        /\ LockFree(k)
    BY <1>1 DEF CreateSupersede
  <2>2. \A j \in Jobs : status[j] = "pending" /\ Owner[j] = Owner[cjob[k]]
                          => j \in gone
    BY DEF Reclaimable
  <2> HIDE DEF gone
  <2>3. \A j \in Jobs : Open(j)' => Open(j) /\ j \notin gone
    BY <2>1
  <2>4. \A j \in Jobs : Open(j)' /\ Owner[j] = Owner[cjob[k]] => j \in spared'
    BY <2>1, <2>2, <2>3
  <2>5. \A i \in Creators : cpc[i] = "inserting"
          => Owner[cjob[i]] # Owner[cjob[k]]
    BY <2>1 DEF LockFree
  <2>6. spared \subseteq spared'
    BY <2>1
  <2>7. \A i \in Creators : cpc'[i] = "inserting"
          => cpc[i] = "inserting" \/ i = k
    BY <2>1, <1>t
  <2> QED BY <2>1, <2>3, <2>4, <2>5, <2>6, <2>7
<1>2. ASSUME NEW k \in Creators, CreateInsert(k)
      PROVE  OpenInv'
  <2>1. /\ status' = [status EXCEPT ![cjob[k]] = "pending"]
        /\ cpc' = [cpc EXCEPT ![k] = "idle"]
        /\ cjob' = [cjob EXCEPT ![k] = NoJob]
        /\ cpc[k] = "inserting" /\ cjob[k] \in Jobs
        /\ UNCHANGED spared
    BY <1>2 DEF CreateInsert, CreateInv
  <2>2. \A j \in Jobs : Open(j)' => Open(j) \/ j = cjob[k]
    BY <2>1, <1>t
  <2>3. \A i \in Creators : cpc'[i] = "inserting"
          => i # k /\ cpc[i] = "inserting" /\ cjob'[i] = cjob[i]
    BY <2>1, <1>t
  <2>4. \A i \in Creators : cpc'[i] = "inserting"
          => Owner[cjob[i]] # Owner[cjob[k]]
    BY <2>1, <2>3
  <2> QED BY <2>1, <2>2, <2>3, <2>4
<1>3. ASSUME NEW k \in Creators, NEW j \in Jobs, CreateCall(k, j)
      PROVE  OpenInv'
  <2>1. \A i \in Creators : cpc'[i] = "inserting"
          => cpc[i] = "inserting" /\ cjob'[i] = cjob[i]
    BY <1>3, <1>t DEF CreateCall
  <2> QED BY <1>3, <2>1 DEF CreateCall
<1>4. ASSUME NEW k \in Creators, CreateThrow(k)
      PROVE  OpenInv'
  <2>1. \A i \in Creators : cpc'[i] = "inserting"
          => cpc[i] = "inserting" /\ cjob'[i] = cjob[i]
    BY <1>4, <1>t DEF CreateThrow
  <2> QED BY <1>4, <2>1 DEF CreateThrow
<1>5. ASSUME NEW p \in Procs, Crash(p)
      PROVE  OpenInv'
  <2>1. \A i \in Creators : cpc'[i] = "inserting"
          => cpc[i] = "inserting" /\ cjob'[i] = cjob[i]
    BY <1>5, <1>t DEF Crash
  <2> QED BY <1>5, <2>1 DEF Crash
<1>6. ASSUME UNCHANGED <<cpc, cjob, spared>>,
             \A j \in Jobs : Open(j)' => Open(j)
      PROVE  OpenInv'
  BY <1>6
<1>7. ASSUME NEW w \in Workers, NEW j \in Jobs, Claim(w, j)
      PROVE  OpenInv'
  <2>1. \A i \in Jobs : Open(i)' => Open(i)
    BY <1>7, <1>t DEF Claim, Claimable, Reclaimable
  <2> QED BY <1>6, <1>7, <2>1 DEF Claim
<1>8. ASSUME NEW w \in Workers, Quiet(w)
      PROVE  OpenInv'
  <2>1. UNCHANGED <<status, cpc, cjob>>
    BY <1>8, QuietStep
  <2>2. UNCHANGED spared
    BY <1>8 DEF Quiet, LoadUser, TakeSlot, SlotGranted, LookupThrow, Write,
                Authorize, Propagate, Record, Reread, Publish, Throw
  <2> QED BY <1>6, <2>1, <2>2
<1>9. ASSUME NEW w \in Workers, Leaving(w)
      PROVE  OpenInv'
  <2>1. UNCHANGED <<cpc, cjob>>
    BY <1>9, LeavingStep
  <2>2. UNCHANGED spared
    BY <1>9 DEF Leaving, Refuse, Busy, Fail, Release, Finish, Recover
  <2>3. \A i \in Jobs : Open(i)' => Open(i)
    BY <1>9, <1>t, LeavingStep DEF Owns
  <2> QED BY <1>6, <2>1, <2>2, <2>3
<1>10. ASSUME NEW j \in Jobs, Cancel(j) \/ Expire(j)
       PROVE  OpenInv'
  <2>1. \A i \in Jobs : Open(i)' => Open(i)
    BY <1>10, <1>t DEF Cancel, Expire
  <2> QED BY <1>6, <1>10, <2>1 DEF Cancel, Expire
<1>11. CASE UNCHANGED <<status, cpc, cjob, spared>>
  BY <1>11
<1> QED
  BY <1>1, <1>2, <1>3, <1>4, <1>5, <1>7, <1>8, <1>9, <1>10, <1>11
  DEF Next, Creating, Advance, Quiet, Leaving, Unwind, SetMode, Rotate, Tick

-----------------------------------------------------------------------------
(***************************************************************************)
(* The theorems.                                                           *)
(***************************************************************************)

\* The inductive invariant holds initially.
LEMMA InvInit == Init => IInv
<1> SUFFICES ASSUME Init PROVE IInv
  OBVIOUS
<1>1. TypeOK /\ CallsInv
  BY TypeInit
<1>2. LeaseInv /\ OneLeaseHolder /\ CreateInv /\ TellInv /\ SlotInv
  BY DEF Init, LeaseInv, OneLeaseHolder, Holds, Held, CreateInv, TellInv,
         EventOnlyWhenApplied, SlotInv, SlotMatchesOwner
<1> QED BY <1>1, <1>2 DEF IInv

\* Every step keeps the inductive invariant.
LEMMA InvStep == IInv /\ [Next]_vars => IInv'
  BY TypeStep, CallsStep, LeaseStep, HolderStep, CreateStep, TellStep,
     SlotStep DEF IInv

\* The inductive invariant holds in every reachable state.
LEMMA Invariance == Spec => []IInv
  BY InvInit, InvStep, PTL DEF Spec

\* Every variable keeps its type.
THEOREM TypeCorrect == Spec => []TypeOK
<1>1. IInv => TypeOK
  BY DEF IInv
<1> QED BY Invariance, <1>1, PTL

\* No two apply calls own one job, though they are told apart by a timestamp.
THEOREM SingleHolder == Spec => []OneLeaseHolder
<1>1. IInv => OneLeaseHolder
  BY DEF IInv
<1> QED BY Invariance, <1>1, PTL

\* The lease of an apply ends before the TTL index may delete its job.
THEOREM LeaseOutlived == Spec => []LeaseEndsBeforeExpiry
<1>1. IInv => LeaseEndsBeforeExpiry
  BY DEF IInv, LeaseInv, LeaseEndsBeforeExpiry, TypeOK
<1> QED BY Invariance, <1>1, PTL

\* The owner event of a job means that the job is applied.
THEOREM EventsTruthful == Spec => []EventOnlyWhenApplied
<1>1. IInv => EventOnlyWhenApplied
  BY DEF IInv, TellInv
<1> QED BY Invariance, <1>1, PTL

\* Inside one process, one apply call at a time writes for a user: the sync
\* slot of applyPreviewJob excludes the others from claim to finish.
THEOREM WritersExclude == Spec => []OneWriterPerUser
<1>1. IInv => OneWriterPerUser
  BY DEF IInv, SlotInv, OneWriterPerUser, Writing
<1> QED BY Invariance, <1>1, PTL

\* A slot is held exactly by the call that will return it, so no path through
\* applyPreviewJob leaves a user locked out of every later sync.
THEOREM SlotsOwned == Spec => []SlotMatchesOwner
<1>1. IInv => SlotMatchesOwner
  BY DEF IInv, SlotInv
<1> QED BY Invariance, <1>1, PTL

\* Only the call that holds a running lease changes its job.
THEOREM LeaseHonored == Spec => LeaseProtects
<1>1. IInv /\ [Next]_vars =>
        [\A j \in Jobs :
           /\ LeaseActive(j, now)
           /\ <<status[j], applyingAt[j], expiresAt[j], auth[j], party[j],
                result[j]>>'
              # <<status[j], applyingAt[j], expiresAt[j], auth[j], party[j],
                  result[j]>>
           => \E w \in Workers : Holds(w, j) /\ pc'[w] # pc[w]]_vars
  BY ProtectStep
<1> QED BY Invariance, <1>1, PTL DEF Spec, LeaseProtects

\* A settled job never comes back.
THEOREM SettledForever == Spec => SettledStays
<1>1. IInv /\ [Next]_vars =>
        [\A j \in Jobs : status[j] \in Terminal
           => status'[j] \in {status[j], "deleted"}]_vars
  BY SettledStep DEF IInv
<1> QED BY Invariance, <1>1, PTL DEF Spec, SettledStays

\* What the attempts of a job wrote, authorized and offered, in every state.
LEMMA AttemptsInv == Spec => [](SpentInv /\ OnlySpentTokensShrink /\ PartyInv)
<1> DEFINE Inv == SpentInv /\ OnlySpentTokensShrink /\ PartyInv
<1>1. Init => Inv
  BY DEF Init, SpentInv, OnlySpentTokensShrink, PartyInv, Kept, Held
<1>2. IInv /\ Inv /\ [Next]_vars => Inv'
  BY SpentStep, ShrinkStep, PartyStep DEF IInv
<1> HIDE DEF Inv
<1>3. Spec => []Inv
  BY <1>1, <1>2, Invariance, PTL DEF Spec
<1> QED BY <1>3 DEF Inv

\* When an uninterrupted job is applied, every clear it wrote before the party
\* was authorized has been offered to the party writer, whatever failed and
\* was retried (mergeEarlierAttempt, authorizePreviewParty).
THEOREM PartyServed == Spec => []PartyClearsKept
<1>1. PartyInv => PartyClearsKept
  BY DEF PartyInv, Kept, Need, PartyClearsKept
<1> QED BY AttemptsInv, <1>1, PTL

\* Only links whose scan was written are shortened
\* (shrinkSourceTokenAfterWrite).
THEOREM LinksSpared == Spec => []OnlySpentTokensShrink
BY AttemptsInv, PTL

\* With the creates of one process, whose lock they share, a user has one
\* pending preview besides those a supersede had to spare (createPreviewJob).
THEOREM LatestOpen ==
  ASSUME \A i, k \in Creators : Home[i] = Home[k]
  PROVE  Spec => []OneOpenPreview
<1>1. Init => OpenInv
  BY DEF Init, OpenInv, Open
<1>2. IInv /\ OpenInv /\ [Next]_vars => OpenInv'
  BY OpenStep DEF IInv
<1>3. OpenInv => OneOpenPreview
  BY DEF OpenInv, Open, OneOpenPreview
<1> QED BY <1>1, <1>2, <1>3, Invariance, PTL DEF Spec
=============================================================================
