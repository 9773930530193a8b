------------------------- MODULE PreviewRefinement -------------------------
(***************************************************************************)
(* PreviewJobs implements PreviewLifecycle, for every instance.            *)
(***************************************************************************)
EXTENDS PreviewJobs_proofs

\* The abstract next-state relation under the refinement mapping.
AbsStep == [Lifecycle!Next]_(Lifecycle!vars)

USE PreviewJobsAssumption
USE DEF vars, docVars, userVars, rosterVars, snapVars, callData, callVars,
        createVars, history, others

\* The holder of a job is the one call that holds it, if any does.
LEMMA HolderIs ==
  ASSUME OneLeaseHolder, NEW j \in Jobs
  PROVE  /\ \A w \in Workers : Holds(w, j) <=> HolderOf(j) = w
         /\ HolderOf(j) \in Workers \cup {NoJob}
<1>1. ASSUME NEW w \in Workers, Holds(w, j) PROVE HolderOf(j) = w
  BY <1>1 DEF OneLeaseHolder, HolderOf
<1>2. CASE ~\E w \in Workers : Holds(w, j)
  BY <1>2 DEF HolderOf
<1> QED BY <1>1, <1>2

\* The same in the state after the step.
LEMMA NextHolderIs ==
  ASSUME OneLeaseHolder', NEW j \in Jobs
  PROVE  /\ \A w \in Workers : Holds(w, j)' <=> HolderOf(j)' = w
         /\ HolderOf(j)' \in Workers \cup {NoJob}
<1>1. ASSUME NEW w \in Workers, Holds(w, j)' PROVE HolderOf(j)' = w
  BY <1>1 DEF OneLeaseHolder, HolderOf
<1>2. CASE ~\E w \in Workers : Holds(w, j)'
  BY <1>2 DEF HolderOf
<1> QED BY <1>1, <1>2

\* When exactly the calls of C stop holding, C is where the holders change.
LEMMA HoldersDrop ==
  ASSUME OneLeaseHolder, OneLeaseHolder', NEW C \in SUBSET Workers,
         NEW j \in Jobs,
         \A w \in Workers : Holds(w, j)' <=> Holds(w, j) /\ w \notin C
  PROVE  HolderOf(j)' = IF HolderOf(j) \in C THEN NoJob ELSE HolderOf(j)
  BY HolderIs, NextHolderIs

\* When the same calls hold a job before and after, so does its holder.
LEMMA HoldersStay ==
  ASSUME OneLeaseHolder, OneLeaseHolder', NEW j \in Jobs,
         \A w \in Workers : Holds(w, j)' <=> Holds(w, j)
  PROVE  HolderOf(j)' = HolderOf(j)
  BY HoldersDrop

\* How the stored statuses map to the abstract stages.
LEMMA StageValues ==
  ASSUME NEW s \in Statuses
  PROVE  /\ StageOf[s] = "open" <=> s \in {"pending", "applying"}
         /\ StageOf[s] = "none" <=> s = "unborn"
         /\ StageOf[s] = "gone" <=> s = "deleted"
         /\ StageOf[s] = "applied" <=> s = "applied"
         /\ StageOf[s] = "failed" <=> s = "failed"
         /\ StageOf[s] = "withdrawn" <=> s \in {"cancelled", "superseded"}
  BY DEF StageOf, Statuses, Terminal

\* Initial states map to initial states.
LEMMA InitRefines == Init => Lifecycle!Init
<1> SUFFICES ASSUME Init PROVE Lifecycle!Init
  OBVIOUS
<1>1. \A j \in Jobs : HolderOf(j) = NoJob
  BY DEF Init, HolderOf, Holds, Held
<1>2. \A j \in Jobs : StageOf[status[j]] = "none"
  BY DEF Init, StageOf
<1> QED BY <1>1, <1>2 DEF Init, Lifecycle!Init

\* Every step maps to a step of the abstract lifecycle or to a stutter.
LEMMA StepRefines ==
  ASSUME IInv, IInv', [Next]_vars
  PROVE  AbsStep
<1>t. /\ TypeOK /\ CallsInv /\ OneLeaseHolder /\ CreateInv /\ TellInv
      /\ OneLeaseHolder' /\ TypeOK'
      /\ status \in [Jobs -> Statuses] /\ status' \in [Jobs -> Statuses]
      /\ pc \in [Workers -> Steps] /\ cur \in [Workers -> Jobs \cup {NoJob}]
      /\ lease \in [Workers -> Nat]
      /\ applyingAt \in [Jobs -> Nat \cup {NoTime}]
  BY DEF IInv, TypeOK
<1>1. ASSUME UNCHANGED <<status, published>>, NEW C \in SUBSET Workers,
             \A w \in Workers, j \in Jobs :
               Holds(w, j)' <=> Holds(w, j) /\ w \notin C
      PROVE  AbsStep
  <2>1. \A j \in Jobs :
          HolderOf(j)' = IF HolderOf(j) \in C THEN NoJob ELSE HolderOf(j)
    BY <1>1, <1>t, HoldersDrop
  <2>2. Lifecycle!Yield(C)
    BY <1>1, <2>1 DEF Lifecycle!Yield
  <2> QED BY <2>2 DEF AbsStep, Lifecycle!Next
<1>2. ASSUME UNCHANGED <<status, applyingAt, pc, cur, lease, published>>
      PROVE  AbsStep
  <2>1. \A w \in Workers, j \in Jobs :
          Holds(w, j)' <=> Holds(w, j) /\ w \notin {}
    BY <1>2 DEF Holds, Owns
  <2> QED BY <1>1, <1>2, <2>1
<1>3. ASSUME NEW w \in Workers, Quiet(w), ~Publish(w)
      PROVE  AbsStep
  <2>1. UNCHANGED published
    BY <1>3 DEF Quiet, LoadUser, TakeSlot, SlotGranted, LookupThrow, Write,
                Authorize, Propagate, Record, Reread, Throw
  <2>q. /\ UNCHANGED <<status, applyingAt, cur, lease>>
        /\ \A v \in Workers \ {w} : pc'[v] = pc[v]
        /\ pc'[w] \in Held => pc[w] \in Held
    BY <1>3, <1>t, QuietStep
  <2>2. \A v \in Workers, j \in Jobs : Owns(v)' <=> Owns(v)
    BY <2>q DEF Owns
  <2>3. CASE pc'[w] \in Held
    <3>1. \A v \in Workers, j \in Jobs :
            Holds(v, j)' <=> Holds(v, j) /\ v \notin {}
      BY <2>q, <2>2, <2>3 DEF Holds
    <3> QED BY <1>1, <2>1, <2>q, <3>1
  <2>4. CASE pc'[w] \notin Held
    <3>1. \A v \in Workers, j \in Jobs :
            Holds(v, j)' <=> Holds(v, j) /\ v \notin {w}
      BY <2>q, <2>2, <2>4 DEF Holds
    <3> QED BY <1>1, <2>1, <2>q, <3>1
  <2> QED BY <2>3, <2>4
<1>4. ASSUME NEW w \in Workers, Publish(w)
      PROVE  AbsStep
  <2>1. /\ published' = published \cup {cur[w]}
        /\ UNCHANGED <<status, applyingAt, cur, lease>>
        /\ pc[w] = "publish" /\ pc' = [pc EXCEPT ![w] = "unwind"]
    BY <1>4 DEF Publish, Goto
  <2>2. \A v \in Workers, j \in Jobs : Holds(v, j)' <=> Holds(v, j)
    BY <1>t, <2>1 DEF Holds, Owns, Held
  <2>3. \A j \in Jobs : HolderOf(j)' = HolderOf(j)
    BY <1>t, <2>2, HoldersStay
  <2>4. cur[w] \in Jobs /\ StageOf[status[cur[w]]] \in {"applied", "gone"}
    BY <1>t, <2>1, StageValues DEF CallsInv, TellInv
  <2>5. Lifecycle!Tell(cur[w])
    BY <2>1, <2>3, <2>4 DEF Lifecycle!Tell
  <2> QED BY <2>4, <2>5 DEF AbsStep, Lifecycle!Next
<1>5. ASSUME NEW w \in Workers, Leaving(w)
      PROVE  AbsStep
  <2>w. /\ UNCHANGED <<cur, lease, published>>
        /\ \A v \in Workers \ {w} : pc'[v] = pc[v]
        /\ pc[w] \in Held /\ (pc'[w] \in Held => ~Owns(w))
        /\ cur[w] \in Jobs
    BY <1>5, <1>t, LeavingStep DEF CallsInv, Held
  <2>1. CASE UNCHANGED <<status, applyingAt, result>>
    <3>1. \A v \in Workers, j \in Jobs :
            Holds(v, j)' <=> Holds(v, j) /\ v \notin {w}
      BY <1>t, <2>w, <2>1 DEF Holds, Owns
    <3> QED BY <1>1, <2>w, <2>1, <3>1
  <2>2. ASSUME NEW st \in {"pending", "failed", "applied"}, Owns(w),
               status' = [status EXCEPT ![cur[w]] = st],
               applyingAt' = [applyingAt EXCEPT ![cur[w]] = NoTime]
        PROVE  AbsStep
    <3>1. status' = [status EXCEPT ![cur[w]] = st]
      BY <2>2
    <3>2. applyingAt' = [applyingAt EXCEPT ![cur[w]] = NoTime]
      BY <2>2
    <3>3. Holds(w, cur[w]) /\ status[cur[w]] = "applying"
      BY <2>w, <2>2 DEF Holds, Owns
    <3>4. \A v \in Workers, j \in Jobs : Holds(v, j) => Holds(v, j)' \/ v = w
      <4> SUFFICES ASSUME NEW v \in Workers, NEW j \in Jobs, Holds(v, j),
                          v # w
                   PROVE  Holds(v, j)'
        OBVIOUS
      <4>1. j # cur[w]
        BY <1>t, <3>3 DEF OneLeaseHolder
      <4> QED BY <1>t, <2>w, <3>1, <3>2, <4>1 DEF Holds, Owns
    <3>5. \A v \in Workers, j \in Jobs :
            Holds(v, j)' => Holds(v, j) /\ v # w
      BY <1>t, <2>w, <2>2, <3>1, <3>2 DEF Holds, Owns
    <3>6. \A v \in Workers, j \in Jobs :
            Holds(v, j)' <=> Holds(v, j) /\ v \notin {w}
      BY <3>4, <3>5
    <3>7. \A j \in Jobs :
            HolderOf(j)' = IF HolderOf(j) \in {w} THEN NoJob ELSE HolderOf(j)
      <4>1. {w} \in SUBSET Workers
        OBVIOUS
      <4> HIDE DEF Holds, HolderOf
      <4> QED BY <1>t, <3>6, <4>1, HoldersDrop
    <3>8. HolderOf(cur[w]) = w /\ \A j \in Jobs \ {cur[w]} : HolderOf(j) # w
      BY <1>t, <2>w, <3>3, HolderIs DEF Holds
    <3>9. StageOf[status[cur[w]]] = "open"
      BY <3>3 DEF StageOf
    <3>10. CASE st = "pending"
      <4>1. Lifecycle!Yield({w})
        BY <1>t, <2>w, <3>1, <3>7, <3>9, <3>10
        DEF Lifecycle!Yield, StageOf
      <4> QED BY <4>1 DEF AbsStep, Lifecycle!Next
    <3>11. CASE st \in {"failed", "applied"}
      <4>1. \A j \in Jobs : StageOf[status'[j]] =
              IF j = cur[w] THEN st ELSE StageOf[status[j]]
        BY <1>t, <2>w, <3>1, <3>11 DEF StageOf
      <4>2. \A j \in Jobs : HolderOf(j)' =
              IF j = cur[w] THEN NoJob ELSE HolderOf(j)
        BY <3>7, <3>8
      <4>3. Lifecycle!Settle(w, cur[w], st)
        <5>1. [i \in Jobs |-> HolderOf(i)]' =
                [[i \in Jobs |-> HolderOf(i)] EXCEPT ![cur[w]] = NoJob]
          BY <4>2
        <5>2. [i \in Jobs |-> StageOf[status[i]]]' =
                [[i \in Jobs |-> StageOf[status[i]]] EXCEPT ![cur[w]] = st]
          BY <4>1
        <5> QED BY <2>w, <3>8, <3>9, <5>1, <5>2 DEF Lifecycle!Settle
      <4> QED BY <2>w, <3>11, <4>3 DEF AbsStep, Lifecycle!Next
    <3> QED BY <3>10, <3>11
  <2>3. \/ UNCHANGED <<status, applyingAt, result>>
        \/ \E st \in {"pending", "failed", "applied"} :
             /\ Owns(w) /\ status' = [status EXCEPT ![cur[w]] = st]
             /\ applyingAt' = [applyingAt EXCEPT ![cur[w]] = NoTime]
    BY <1>5, <1>t, LeavingStep
  <2> QED BY <2>1, <2>2, <2>3
<1>6. ASSUME NEW w \in Workers, NEW j \in Jobs, Claim(w, j)
      PROVE  AbsStep
  <2>1. /\ status' = [status EXCEPT ![j] = "applying"]
        /\ applyingAt' = [applyingAt EXCEPT ![j] = now]
        /\ cur' = [cur EXCEPT ![w] = j]
        /\ lease' = [lease EXCEPT ![w] = now]
        /\ pc[w] = "idle" /\ pc' = [pc EXCEPT ![w] = "load"]
        /\ status[j] \in {"pending", "applying"}
        /\ UNCHANGED published
    BY <1>6 DEF Claim, Goto, Claimable, Reclaimable
  <2>2. Holds(w, j)'
    BY <1>t, <2>1 DEF Holds, Owns, Held
  <2>3. \A v \in Workers, i \in Jobs \ {j} : Holds(v, i)' <=> Holds(v, i)
    BY <1>t, <2>1 DEF Holds, Owns, Held
  <2>4. \A i \in Jobs : ~Holds(w, i)
    BY <2>1 DEF Holds, Held
  <2>5. HolderOf(j)' = w
    BY <1>t, <2>2, NextHolderIs
  <2>6. \A i \in Jobs \ {j} : HolderOf(i)' = HolderOf(i)
    BY <1>t, <2>3, HoldersStay
  <2>7. \A i \in Jobs : HolderOf(i) # w
    BY <1>t, <2>4, HolderIs
  <2>8. \A i \in Jobs : StageOf[status'[i]] = StageOf[status[i]]
    BY <1>t, <2>1 DEF StageOf
  <2>9. StageOf[status[j]] = "open"
    BY <2>1 DEF StageOf
  <2>10. Lifecycle!Take(w, j)
    <3>1. [i \in Jobs |-> HolderOf(i)]' =
            [[i \in Jobs |-> HolderOf(i)] EXCEPT ![j] = w]
      BY <2>5, <2>6
    <3>2. [i \in Jobs |-> StageOf[status[i]]]' =
            [i \in Jobs |-> StageOf[status[i]]]
      BY <2>8
    <3> QED BY <2>1, <2>7, <2>9, <3>1, <3>2 DEF Lifecycle!Take
  <2> QED BY <2>10 DEF AbsStep, Lifecycle!Next
<1>7. ASSUME NEW S \in SUBSET Jobs,
             \A j \in S : status[j] \in {"pending", "applying"},
             \A j \in Jobs : /\ j \in S => status'[j] \in
                                             {"cancelled", "superseded"}
                             /\ j \notin S =>
                                  /\ status'[j] = status[j]
                                  /\ applyingAt'[j] = applyingAt[j],
             UNCHANGED <<pc, cur, lease, published>>
      PROVE  AbsStep
  <2>1. \A w \in Workers, j \in Jobs \ S : Holds(w, j)' <=> Holds(w, j)
    BY <1>7 DEF Holds, Owns
  <2>2. \A w \in Workers, j \in S : ~Holds(w, j)'
    BY <1>7 DEF Holds, Owns
  <2>3. \A j \in Jobs : HolderOf(j)' = IF j \in S THEN NoJob ELSE HolderOf(j)
    BY <1>t, <2>1, <2>2, HoldersStay, NextHolderIs
  <2>4. \A j \in S : StageOf[status[j]] = "open"
    BY <1>7 DEF StageOf
  <2>5. \A j \in Jobs : StageOf[status'[j]] =
          IF j \in S THEN "withdrawn" ELSE StageOf[status[j]]
    BY <1>7 DEF StageOf
  <2>6. Lifecycle!Withdraw(S)
    BY <1>7, <2>3, <2>4, <2>5 DEF Lifecycle!Withdraw
  <2> QED BY <2>6 DEF AbsStep, Lifecycle!Next
<1>8. ASSUME NEW k \in Creators, CreateSupersede(k)
      PROVE  AbsStep
  <2> DEFINE own  == {j \in Jobs : Owner[j] = Owner[cjob[k]]}
             gone == {j \in own : Reclaimable(j, cnow[k])}
  <2>1. /\ status' = [j \in Jobs |-> IF j \in gone THEN "superseded"
                                                   ELSE status[j]]
        /\ applyingAt' = [j \in Jobs |-> IF j \in gone THEN NoTime
                                                       ELSE applyingAt[j]]
        /\ UNCHANGED <<pc, cur, lease, published>>
    BY <1>8 DEF CreateSupersede
  <2>2. \A j \in gone : status[j] \in {"pending", "applying"}
    BY DEF Reclaimable
  <2>3. gone \in SUBSET Jobs
    OBVIOUS
  <2> HIDE DEF gone
  <2> QED BY <1>7, <2>1, <2>2, <2>3
<1>9. ASSUME NEW j \in Jobs, Cancel(j)
      PROVE  AbsStep
  <2>1. /\ status[j] \in {"pending", "applying"}
        /\ status' = [status EXCEPT ![j] = "cancelled"]
        /\ applyingAt' = [applyingAt EXCEPT ![j] = NoTime]
        /\ UNCHANGED <<pc, cur, lease, published>>
    BY <1>9 DEF Cancel, Claimable, Reclaimable
  <2>2. /\ {j} \in SUBSET Jobs
        /\ \A i \in {j} : status[i] \in {"pending", "applying"}
    BY <2>1
  <2>3. \A i \in Jobs :
          /\ i \in {j} => status'[i] \in {"cancelled", "superseded"}
          /\ i \notin {j} => /\ status'[i] = status[i]
                             /\ applyingAt'[i] = applyingAt[i]
    BY <1>t, <2>1
  <2> QED BY <1>7, <2>1, <2>2, <2>3
<1>10. ASSUME NEW j \in Jobs, Expire(j)
       PROVE  AbsStep
  <2>1. /\ status[j] \notin {"unborn", "deleted"}
        /\ status' = [status EXCEPT ![j] = "deleted"]
        /\ applyingAt' = [applyingAt EXCEPT ![j] = NoTime]
        /\ UNCHANGED <<pc, cur, lease, published>>
    BY <1>10 DEF Expire
  <2>2. \A w \in Workers, i \in Jobs \ {j} : Holds(w, i)' <=> Holds(w, i)
    BY <1>t, <2>1 DEF Holds, Owns
  <2>3. \A w \in Workers : ~Holds(w, j)'
    BY <1>t, <2>1 DEF Holds, Owns
  <2>4. \A i \in Jobs : HolderOf(i)' = IF i = j THEN NoJob ELSE HolderOf(i)
    BY <1>t, <2>2, <2>3, HoldersStay, NextHolderIs
  <2>5. StageOf[status[j]] \notin {"none", "gone"}
    BY <1>t, <2>1, StageValues
  <2>6. \A i \in Jobs : StageOf[status'[i]] =
          IF i = j THEN "gone" ELSE StageOf[status[i]]
    BY <1>t, <2>1 DEF StageOf
  <2>7. Lifecycle!Drop(j)
    <3>1. [i \in Jobs |-> HolderOf(i)]' =
            [[i \in Jobs |-> HolderOf(i)] EXCEPT ![j] = NoJob]
      BY <2>4
    <3>2. [i \in Jobs |-> StageOf[status[i]]]' =
            [[i \in Jobs |-> StageOf[status[i]]] EXCEPT ![j] = "gone"]
      BY <2>6
    <3> QED BY <2>1, <2>5, <3>1, <3>2 DEF Lifecycle!Drop
  <2> QED BY <2>7 DEF AbsStep, Lifecycle!Next
<1>11. ASSUME NEW k \in Creators, CreateInsert(k)
       PROVE  AbsStep
  <2>1. PICK i \in Jobs : i = cjob[k] /\ status[i] = "unborn"
    BY <1>11, <1>t DEF CreateInsert, CreateInv
  <2>2. /\ status' = [status EXCEPT ![i] = "pending"]
        /\ UNCHANGED <<applyingAt, pc, cur, lease, published>>
    BY <1>11, <2>1 DEF CreateInsert
  <2>3. \A w \in Workers, j \in Jobs : Holds(w, j)' <=> Holds(w, j)
    BY <1>t, <2>1, <2>2 DEF Holds, Owns
  <2>4. \A j \in Jobs : HolderOf(j)' = HolderOf(j)
    BY <1>t, <2>3, HoldersStay
  <2>5. StageOf[status[i]] = "none"
    BY <2>1 DEF StageOf
  <2>6. \A j \in Jobs : StageOf[status'[j]] =
          IF j = i THEN "open" ELSE StageOf[status[j]]
    BY <1>t, <2>2 DEF StageOf
  <2>7. Lifecycle!Offer(i)
    <3>1. [j \in Jobs |-> StageOf[status[j]]]' =
            [[j \in Jobs |-> StageOf[status[j]]] EXCEPT ![i] = "open"]
      BY <2>6
    <3> QED BY <2>2, <2>4, <2>5, <3>1 DEF Lifecycle!Offer
  <2> QED BY <2>7 DEF AbsStep, Lifecycle!Next
<1>12. ASSUME NEW p \in Procs, Crash(p)
       PROVE  AbsStep
  <2> DEFINE dead == {w \in Workers : Home[w] = p /\ pc[w] # "idle"}
  <2>1. /\ \A w \in dead : pc'[w] = "idle"
        /\ \A w \in Workers \ dead : /\ pc'[w] = pc[w] /\ cur'[w] = cur[w]
                                     /\ lease'[w] = lease[w]
        /\ UNCHANGED <<status, applyingAt, published>>
    BY <1>12 DEF Crash
  <2>2. dead \in SUBSET Workers
    OBVIOUS
  <2> HIDE DEF dead
  <2>3. \A w \in Workers, j \in Jobs :
          Holds(w, j)' <=> Holds(w, j) /\ w \notin dead
    BY <2>1 DEF Holds, Owns, Held
  <2> QED BY <1>1, <2>1, <2>2, <2>3
<1>13. ASSUME NEW w \in Workers, Unwind(w)
       PROVE  AbsStep
  <2>1. /\ pc[w] = "unwind" /\ pc' = [pc EXCEPT ![w] = "idle"]
        /\ cur' = [cur EXCEPT ![w] = NoJob]
        /\ lease' = [lease EXCEPT ![w] = 0]
        /\ UNCHANGED <<status, applyingAt, published>>
    BY <1>13 DEF Unwind, Goto
  <2>2. \A v \in Workers, j \in Jobs :
          Holds(v, j)' <=> Holds(v, j) /\ v \notin {}
    BY <1>t, <2>1 DEF Holds, Owns, Held
  <2> QED BY <1>1, <2>1, <2>2
<1> QED
  BY <1>2, <1>3, <1>4, <1>5, <1>6, <1>8, <1>9, <1>10, <1>11, <1>12, <1>13
  DEF Next, Creating, Advance, Quiet, Leaving, CreateCall, CreateThrow,
      SetMode, Rotate, Tick

\* The promise of a preview job: whatever leases, clocks, retries and crashes
\* do, it is held by one call at a time, settled once and by its holder, and
\* announced only when applied.
THEOREM Refines == Spec => ImplementsLifecycle
<1>1. IInv /\ IInv' /\ [Next]_vars => [Lifecycle!Next]_(Lifecycle!vars)
  BY StepRefines DEF AbsStep
<1> QED
  BY InitRefines, Invariance, <1>1, PTL
  DEF Spec, ImplementsLifecycle, Lifecycle!Spec
=============================================================================
