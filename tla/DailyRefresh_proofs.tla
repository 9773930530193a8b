------------------------- MODULE DailyRefresh_proofs -------------------------
(***************************************************************************)
(* The daily attempt belongs to one worker and the sync modes exclude each *)
(* other, for every set of users, processes and commands and without any   *)
(* bound on time.  Both rest on the same observation: a loaded document    *)
(* that is still fresh is the stored one, so whatever the load found true  *)
(* is true at the save.  With one process, a completed day stays completed *)
(* and the attempts of a day are bounded.                                  *)
(***************************************************************************)
EXTENDS DailyRefresh, TLAPS

USE DEF history

\* Calls at work know their user and what they are about.
WorkInv ==
  /\ \A x \in Actors : at[x] \notin {"idle", "tick"} => cur[x] \in Users
  /\ \A c \in Commands : at[c] \in {"idle", "load", "save"}
  /\ \A c \in Commands : at[c] # "idle" => kind[c] # "none"
  /\ \A p \in Procs : at[p] \in {"claim", "load", "save", "fload", "fsave"} =>
                        count[p] >= 1

\* A tick began in the past.
ClockInv == \A p \in Procs : started[p] <= clock

\* What the load established about a document that is still fresh.
FreshInv ==
  /\ \A p \in Procs : p \in fresh => doc[cur[p]].token = p
  /\ \A c \in Commands : c \in fresh => MayCommit(c, doc[cur[c]])

IInv ==
  /\ TypeOK
  /\ WorkInv
  /\ ClockInv
  /\ FreshInv
  /\ NeverBothModes
  /\ LogsNeverUnderLocal

-----------------------------------------------------------------------------
\* Days are natural numbers.
LEMMA DayType == \A t \in Nat : Day(t) \in Nat
  BY DailyAssumption DEF DailyAssumption, Day

\* The state changes of the daily attempt keep a document a document.
LEMMA ReleasedType ==
  ASSUME NEW d \in Docs
  PROVE  Released(d) \in Docs
  BY DEF Released, Docs, Times, Unset

\* The claim writes a document.
LEMMA ClaimedType ==
  ASSUME TypeOK, NEW p \in Procs, NEW d \in Docs
  PROVE  Claimed(d, p) \in Docs
<1>1. /\ started[p] \in Nat
      /\ count[p] \in Nat
      /\ Lease \in Nat
  BY DailyAssumption DEF TypeOK, DailyAssumption
<1>2. Day(started[p]) \in Nat
  BY <1>1, DayType
<1>3. started[p] + Lease \in Nat
  BY <1>1
<1> QED
  BY <1>1, <1>2, <1>3 DEF Claimed, Docs, Times, Unset

\* Every outcome of an attempt is a document with the modes it had before.
LEMMA OutcomesType ==
  ASSUME TypeOK, WorkInv, NEW p \in Procs, at[p] \in {"save", "fsave"},
         NEW d \in Docs, NEW e \in Outcomes(d, p)
  PROVE  e \in Docs /\ e.modes = d.modes
<1>1. /\ started[p] \in Nat
      /\ count[p] \in Nat
      /\ count[p] >= 1
      /\ Delays \in Seq(Nat)
  BY DailyAssumption DEF TypeOK, DailyAssumption, WorkInv
<1>2. Day(started[p]) \in Nat
  BY <1>1, DayType
<1>3. Released(d) \in Docs /\ Released(d).modes = d.modes
  BY ReleasedType DEF Released, Docs
<1>4. Finished(d, p) \in Docs /\ Finished(d, p).modes = d.modes
  BY <1>2, <1>3 DEF Finished, Docs, Times
<1>5. Deferred(d, p) \in Docs /\ Deferred(d, p).modes = d.modes
  <2>1. count[p] - 1 \in Nat
    BY <1>1
  <2> QED
    BY <2>1, <1>3 DEF Deferred, Docs
<1>6. Retried(d, p) \in Docs /\ Retried(d, p).modes = d.modes
  <2>1. CASE count[p] >= MaxAttempts
    BY <2>1, <1>4 DEF Retried
  <2>2. CASE ~(count[p] >= MaxAttempts)
    <3>1. count[p] \in 1 .. Len(Delays)
      BY <2>2, <1>1 DEF MaxAttempts
    <3>2. Delays[count[p]] \in Nat
      BY <3>1, <1>1
    <3>3. started[p] + Delays[count[p]] \in Nat
      BY <3>2, <1>1
    <3> QED
      BY <3>3, <2>2, <1>3 DEF Retried, Docs, Times
  <2> QED
    BY <2>1, <2>2
<1> QED
  BY <1>3, <1>4, <1>5, <1>6 DEF Outcomes

\* So is what a command saves; only a reset and "on" change the modes.
LEMMA CommittedType ==
  ASSUME TypeOK, NEW c \in Commands, kind[c] # "none", NEW d \in Docs,
         MayCommit(c, d), d.modes # Modes
  PROVE  /\ Committed(c, d) \in Docs
         /\ Committed(c, d).modes # Modes
         /\ CommandLogs(c, d) => "local" \notin Committed(c, d).modes
<1>1. kind[c] \in {"on", "sync", "view", "reset"}
  BY DEF TypeOK, Kinds
<1>2. CASE kind[c] = "on"
  BY <1>2 DEF Committed, MayCommit, Docs, Modes
<1>3. CASE kind[c] \in {"sync", "view"}
  BY <1>3 DEF Committed, MayCommit, CommandLogs, Docs, Modes
<1>4. CASE kind[c] = "reset"
  <2>1. Released(d) \in Docs
    BY ReleasedType
  <2> QED
    BY <1>4, <2>1
       DEF Committed, Wiped, CommandLogs, Docs, Times, Unset, Modes
<1> QED
  BY <1>1, <1>2, <1>3, <1>4

-----------------------------------------------------------------------------
\* A write of one document keeps what the others loaded: the copies of that
\* document are stale from now on.  What the writer does besides is left open.
LEMMA WriteStep ==
  ASSUME IInv, NEW u \in Users, NEW d \in Docs, d.modes # Modes,
         WriteDoc(u, d),
         \A x \in fresh' : cur'[x] = cur[x],
         \A c \in Commands : c \in fresh' => kind'[c] = kind[c]
  PROVE  doc' \in [Users -> Docs] /\ NeverBothModes' /\ FreshInv'
<1>1. /\ doc \in [Users -> Docs]
      /\ cur \in [Actors -> Users \cup {NoUser}]
      /\ fresh \subseteq Actors
      /\ \A x \in fresh : cur[x] \in Users
  BY DEF IInv, TypeOK, WorkInv, Actors
<1>2. doc' = [doc EXCEPT ![u] = d] /\ fresh' \subseteq fresh
  BY DEF WriteDoc
<1>3. \A x \in fresh' : x \in fresh /\ doc'[cur'[x]] = doc[cur[x]]
  BY <1>1, <1>2 DEF WriteDoc, Stale
<1>4. FreshInv'
  BY <1>3 DEF IInv, FreshInv, MayCommit, Actors
<1>5. NeverBothModes'
  BY <1>1, <1>2 DEF IInv, NeverBothModes
<1> QED
  BY <1>1, <1>2, <1>4, <1>5

\* A step that writes no document keeps what was loaded from it, too.
LEMMA KeepStep ==
  ASSUME IInv, doc' = doc, fresh' \subseteq fresh,
         \A x \in fresh' : cur'[x] = cur[x],
         \A c \in Commands : c \in fresh' => kind'[c] = kind[c]
  PROVE  NeverBothModes' /\ FreshInv'
BY DEF IInv, NeverBothModes, FreshInv, MayCommit

\* A call that returns leaves everything it held.
LEMMA ReturnStep ==
  ASSUME IInv, NEW x \in Actors, NEW step \in {"idle", "tick"},
         x \in Commands => step = "idle",
         Return(x, step), fresh' \subseteq fresh, x \notin fresh'
  PROVE  /\ slot' \in [Procs -> SUBSET Users]
         /\ at' \in [Actors -> Steps]
         /\ cur' \in [Actors -> Users \cup {NoUser}]
         /\ count' \in [Procs -> Nat]
         /\ tried' \in [Procs -> BOOLEAN]
         /\ kind' \in [Commands -> Kinds]
         /\ fresh' \subseteq {y \in Actors : at'[y] \in {"save", "fsave"}}
         /\ WorkInv'
         /\ \A y \in fresh' : cur'[y] = cur[y]
         /\ \A c \in Commands : c \in fresh' => kind'[c] = kind[c]
<1>1. TypeOK /\ WorkInv
  BY DEF IInv
<1>2. /\ at' = [at EXCEPT ![x] = step]
      /\ cur' = [cur EXCEPT ![x] = NoUser]
      /\ step \in Steps
      /\ "none" \in Kinds
  BY DEF Return, Goto, Steps, Kinds
<1>3. /\ at' \in [Actors -> Steps]
      /\ cur' \in [Actors -> Users \cup {NoUser}]
      /\ fresh' \subseteq {y \in Actors : at'[y] \in {"save", "fsave"}}
      /\ \A y \in fresh' : cur'[y] = cur[y]
  BY <1>1, <1>2 DEF TypeOK
<1>4. slot' \in [Procs -> SUBSET Users]
  BY <1>1 DEF TypeOK, Return, ReleaseSlot
<1>5. CASE x \in Procs
  <2>1. /\ count' = [count EXCEPT ![x] = 0]
        /\ tried' = [tried EXCEPT ![x] = FALSE]
        /\ kind' = kind
    BY <1>5 DEF Return
  <2>2. /\ count' \in [Procs -> Nat]
        /\ tried' \in [Procs -> BOOLEAN]
        /\ kind' \in [Commands -> Kinds]
    BY <1>1, <2>1 DEF TypeOK
  <2>3. x \notin Commands
    BY <1>5, DailyAssumption DEF DailyAssumption
  <2>4. WorkInv'
    BY <1>1, <1>2, <2>1, <2>3, <1>5 DEF TypeOK, WorkInv, Actors
  <2> QED
    BY <1>3, <1>4, <2>1, <2>2, <2>4
<1>6. CASE x \in Commands
  <2>1. x \notin Procs
    BY <1>6, DailyAssumption DEF DailyAssumption
  <2>2. /\ kind' = [kind EXCEPT ![x] = "none"]
        /\ count' = count
        /\ tried' = tried
    BY <2>1 DEF Return
  <2>3. /\ count' \in [Procs -> Nat]
        /\ tried' \in [Procs -> BOOLEAN]
        /\ kind' \in [Commands -> Kinds]
        /\ \A c \in Commands : c \in fresh' => kind'[c] = kind[c]
    BY <1>1, <1>2, <2>2 DEF TypeOK
  <2>4. step = "idle"
    BY <1>6
  <2>5. WorkInv'
    BY <1>1, <1>2, <2>1, <2>2, <2>4, <1>6 DEF TypeOK, WorkInv, Actors
  <2> QED
    BY <1>3, <1>4, <2>3, <2>5
<1> QED
  BY <1>5, <1>6 DEF Actors

\* A save or a claim by x that goes from one step of its work to the next
\* keeps the call's user.
LEMMA GotoStep ==
  ASSUME IInv, NEW x \in Actors,
         NEW step \in Steps \ {"idle", "tick"},
         x \in Commands => step \in {"load", "save"},
         Goto(x, step), cur[x] \in Users, cur' = cur, kind' = kind,
         count' \in [Procs -> Nat],
         \A p \in Procs : p # x => count'[p] = count[p],
         x \in Procs => step = "seed" \/ count'[x] >= 1,
         x \in Commands => kind[x] # "none"
  PROVE  at' \in [Actors -> Steps] /\ WorkInv'
<1>1. TypeOK /\ WorkInv
  BY DEF IInv
<1>2. at' = [at EXCEPT ![x] = step]
  BY DEF Goto
<1> QED
  BY <1>1, <1>2 DEF TypeOK, WorkInv, Actors

-----------------------------------------------------------------------------
\* Every step of a scheduler keeps the invariant: picking users.
LEMMA PickStep ==
  ASSUME IInv, NEW p \in Procs,
         StartTick(p) \/ NextCandidate(p) \/ EndTick(p)
  PROVE  IInv'
<1>1. /\ TypeOK
      /\ WorkInv
      /\ ClockInv
      /\ p \in Actors
      /\ p \notin Commands
      /\ clock \in Nat
  BY DailyAssumption DEF DailyAssumption, IInv, Actors, TypeOK
<1>2. p \notin fresh
  BY <1>1 DEF TypeOK, StartTick, NextCandidate, EndTick
<1>3. /\ clock' = clock
      /\ doc' = doc
      /\ fresh' = fresh
      /\ count' = count
      /\ tried' = tried
      /\ kind' = kind
      /\ logged' = logged
      /\ lapsed' = lapsed
  BY DEF StartTick, NextCandidate, EndTick
<1>4. /\ at' \in [Actors -> Steps]
      /\ \A y \in Actors \ {p} : at'[y] = at[y] /\ cur'[y] = cur[y]
      /\ cur' \in [Actors -> Users \cup {NoUser}]
      /\ slot' \in [Procs -> SUBSET Users]
      /\ at'[p] \in {"idle", "tick", "seed"}
      /\ at'[p] = "seed" => cur'[p] \in Users
  <2>1. CASE StartTick(p)
    BY <2>1, <1>1 DEF StartTick, Goto, TypeOK, Steps
  <2>2. CASE EndTick(p)
    BY <2>2, <1>1 DEF EndTick, Goto, TypeOK, Steps
  <2>3. CASE NextCandidate(p)
    <3>1. PICK u \in todo[p] :
            IF SlotFree(p, u)
              THEN TakeSlot(p, u) /\ Goto(p, "seed")
              ELSE UNCHANGED <<slot, cur, at>>
      BY <2>3 DEF NextCandidate
    <3>2. u \in Users /\ at[p] = "tick"
      BY <1>1, <2>3 DEF TypeOK, NextCandidate
    <3>3. CASE SlotFree(p, u)
      BY <3>1, <3>2, <3>3, <1>1 DEF TakeSlot, Goto, ProcessOf, TypeOK, Steps
    <3>4. CASE ~SlotFree(p, u)
      BY <3>1, <3>2, <3>4, <1>1 DEF TypeOK
    <3> QED
      BY <3>3, <3>4
  <2> QED
    BY <2>1, <2>2, <2>3
<1>5. /\ todo' \in [Procs -> SUBSET Users]
      /\ started' \in [Procs -> Nat]
      /\ ClockInv'
  <2>1. CASE StartTick(p)
    <3>1. PICK S \in SUBSET Users : todo' = [todo EXCEPT ![p] = S]
      BY <2>1 DEF StartTick
    <3>2. started' = [started EXCEPT ![p] = clock]
      BY <2>1 DEF StartTick
    <3> QED
      BY <3>1, <3>2, <1>1, <1>3 DEF TypeOK, ClockInv
  <2>2. CASE EndTick(p)
    BY <2>2, <1>1, <1>3 DEF EndTick, StopTick, TypeOK, ClockInv
  <2>3. CASE NextCandidate(p)
    BY <2>3, <1>1, <1>3 DEF NextCandidate, TypeOK, ClockInv
  <2> QED
    BY <2>1, <2>2, <2>3
<1>6. WorkInv'
  BY <1>1, <1>3, <1>4 DEF WorkInv, Actors
<1>7. NeverBothModes' /\ FreshInv'
  BY <1>1, <1>2, <1>3, <1>4, KeepStep DEF TypeOK
<1>8. TypeOK' /\ LogsNeverUnderLocal'
  BY <1>1, <1>2, <1>3, <1>4, <1>5 DEF TypeOK, IInv, LogsNeverUnderLocal
<1> QED
  BY <1>5, <1>6, <1>7, <1>8 DEF IInv

\* Calls that return without writing anything.
LEMMA LeaveStep ==
  ASSUME IInv, NEW x \in Actors, NEW step \in {"idle", "tick"},
         x \in Commands => step = "idle",
         Return(x, step), Forget(x),
         UNCHANGED <<clock, doc, history>>,
         \/ UNCHANGED <<started, todo>>
         \/ x \in Procs /\ StopTick(x)
  PROVE  IInv'
<1>1. TypeOK /\ ClockInv
  BY DEF IInv
<1>2. fresh' \subseteq fresh /\ x \notin fresh'
  BY DEF Forget
<1>3. NeverBothModes' /\ FreshInv'
  BY <1>2, ReturnStep, KeepStep
<1>4. /\ started' \in [Procs -> Nat]
      /\ todo' \in [Procs -> SUBSET Users]
      /\ ClockInv'
  BY <1>1 DEF TypeOK, ClockInv, StopTick
<1>5. TypeOK'
  BY <1>1, <1>2, <1>4, ReturnStep DEF TypeOK
<1>6. LogsNeverUnderLocal'
  BY DEF IInv, LogsNeverUnderLocal
<1> QED
  BY <1>2, <1>3, <1>4, <1>5, <1>6, ReturnStep DEF IInv

\* Calls that go on without writing: the seed, a load, a rejected save, the
\* way into the failure path.
LEMMA MoveStep ==
  ASSUME IInv, NEW x \in Actors,
         NEW step \in Steps \ {"idle", "tick"},
         x \in Commands => step \in {"load", "save"},
         Goto(x, step), cur[x] \in Users,
         \/ Forget(x)
         \/ /\ Remember(x, step)
            /\ step \in {"save", "fsave"}
            /\ x \in Procs => doc[cur[x]].token = x
            /\ x \in Commands => MayCommit(x, doc[cur[x]]),
         UNCHANGED <<clock, doc, slot, cur, started, todo, kind, history>>,
         count' \in [Procs -> Nat],
         tried' \in [Procs -> BOOLEAN],
         \A p \in Procs : p # x => count'[p] = count[p],
         x \in Procs => step = "seed" \/ count'[x] >= 1,
         x \in Commands => kind[x] # "none"
  PROVE  IInv'
<1>1. /\ TypeOK
      /\ ClockInv
      /\ FreshInv
      /\ NeverBothModes
      /\ LogsNeverUnderLocal
  BY DEF IInv
<1>2. at' = [at EXCEPT ![x] = step]
  BY DEF Goto
<1>3. fresh' \subseteq fresh \cup {x}
  BY DEF Forget, Remember
<1>4. x \in fresh' => /\ step \in {"save", "fsave"}
                      /\ x \in Procs => doc[cur[x]].token = x
                      /\ x \in Commands => MayCommit(x, doc[cur[x]])
  BY DEF Forget
<1>5. at' \in [Actors -> Steps] /\ WorkInv'
  BY GotoStep
<1>6. TypeOK'
  BY <1>1, <1>2, <1>3, <1>4, <1>5 DEF TypeOK
<1>7. FreshInv'
  BY <1>1, <1>3, <1>4 DEF FreshInv, MayCommit
<1>8. NeverBothModes' /\ ClockInv' /\ LogsNeverUnderLocal'
  BY <1>1 DEF NeverBothModes, ClockInv, LogsNeverUnderLocal
<1> QED
  BY <1>5, <1>6, <1>7, <1>8 DEF IInv

\* A write by x (or by nobody the model follows) that leaves the slots alone.
LEMMA WriteInPlace ==
  ASSUME IInv, NEW u \in Users, NEW d \in Docs, d.modes # Modes,
         WriteDoc(u, d),
         at' \in [Actors -> Steps],
         WorkInv',
         \A y \in fresh' : at'[y] = at[y],
         lapsed' \subseteq Users,
         UNCHANGED <<clock, slot, cur, tick, kind, logged>>
  PROVE  IInv'
<1>1. TypeOK /\ ClockInv /\ LogsNeverUnderLocal
  BY DEF IInv
<1>2. doc' \in [Users -> Docs] /\ NeverBothModes' /\ FreshInv'
  BY WriteStep
<1>3. fresh' \subseteq fresh
  BY DEF WriteDoc
<1>4. TypeOK'
  BY <1>1, <1>2, <1>3 DEF TypeOK, tick
<1>5. ClockInv' /\ LogsNeverUnderLocal'
  BY <1>1 DEF ClockInv, LogsNeverUnderLocal, tick
<1> QED
  BY <1>2, <1>4, <1>5 DEF IInv

\* A save that returns; x holds the document it writes.
LEMMA WriteAndReturn ==
  ASSUME IInv, NEW x \in Actors, cur[x] \in Users,
         NEW d \in Docs, d.modes # Modes,
         NEW step \in {"idle", "tick"},
         x \in Commands => step = "idle",
         WriteDoc(cur[x], d), Return(x, step),
         logged' \subseteq Modes, "local" \notin logged',
         lapsed' \subseteq Users,
         UNCHANGED <<clock, started, todo>>
  PROVE  IInv'
<1>1. TypeOK /\ ClockInv
  BY DEF IInv
<1>2. fresh' \subseteq fresh /\ x \notin fresh'
  BY DEF WriteDoc, Stale
<1>3. /\ \A y \in fresh' : cur'[y] = cur[y]
      /\ \A c \in Commands : c \in fresh' => kind'[c] = kind[c]
  BY <1>2, ReturnStep
<1>4. doc' \in [Users -> Docs] /\ NeverBothModes' /\ FreshInv'
  BY <1>3, WriteStep
<1>5. TypeOK'
  BY <1>1, <1>2, <1>4, ReturnStep DEF TypeOK
<1>6. ClockInv' /\ LogsNeverUnderLocal'
  BY <1>1 DEF ClockInv, LogsNeverUnderLocal
<1> QED
  BY <1>2, <1>4, <1>5, <1>6, ReturnStep DEF IInv

-----------------------------------------------------------------------------
\* The steps of syncCandidate.
LEMMA CandidateStep ==
  ASSUME IInv, NEW p \in Procs,
         \/ CoolDown(p) \/ Seed(p) \/ Claim(p) \/ ClaimLost(p)
         \/ Load(p) \/ Superseded(p) \/ Save(p) \/ SaveRejected(p)
         \/ Throw(p)
  PROVE  IInv'
<1>1. /\ TypeOK
      /\ WorkInv
      /\ LogsNeverUnderLocal
      /\ NeverBothModes
      /\ FreshInv
  BY DEF IInv
<1>2. p \in Actors /\ p \notin Commands
  BY DailyAssumption DEF DailyAssumption, Actors
<1>3. /\ at[p] \in Steps \ {"idle", "tick"}
      /\ cur[p] \in Users
      /\ count[p] \in Nat
      /\ at[p] # "seed" => count[p] >= 1
  BY <1>1, <1>2 DEF CoolDown, Seed, Claim, ClaimLost, Load, Superseded, Save,
                    SaveRejected, Throw, Steps, TypeOK, WorkInv
<1>4. doc[cur[p]] \in Docs /\ doc[cur[p]].modes # Modes
  BY <1>1, <1>3 DEF TypeOK, NeverBothModes
<1>5. at[p] \notin {"save", "fsave"} => fresh = fresh \ {p}
  BY <1>1 DEF TypeOK
<1>6. CASE CoolDown(p)
  BY <1>2, <1>5, <1>6, LeaveStep DEF CoolDown, Forget
<1>7. CASE ClaimLost(p)
  BY <1>2, <1>5, <1>7, LeaveStep DEF ClaimLost, Forget
<1>8. CASE Superseded(p)
  <2>1. at[p] \notin {"save", "fsave"}
    BY <1>8 DEF Superseded
  <2> QED
    BY <2>1, <1>2, <1>5, <1>8, LeaveStep DEF Superseded, Forget
<1>9. CASE Seed(p)
  <2>1. Forget(p)
    BY <1>5, <1>9 DEF Seed, Forget
  <2>2. CASE ~doc[cur[p]].roster
    BY <2>1, <2>2, <1>2, <1>9, LeaveStep DEF Seed
  <2>3. CASE doc[cur[p]].roster
    <3>1. /\ count' = [count EXCEPT
                         ![p] = NextCount(doc[cur[p]], Day(started[p]))]
          /\ tried' = [tried EXCEPT ![p] = BibleAllowed(doc[cur[p]])]
          /\ Goto(p, "claim")
          /\ UNCHANGED <<clock, doc, slot, cur, started, todo, kind, history>>
      BY <2>3, <1>9 DEF Seed
    <3>2. /\ NextCount(doc[cur[p]], Day(started[p])) \in Nat
          /\ NextCount(doc[cur[p]], Day(started[p])) >= 1
      BY <1>4 DEF NextCount, Docs
    <3>3. BibleAllowed(doc[cur[p]]) \in BOOLEAN
      BY DEF BibleAllowed
    <3>4. count' \in [Procs -> Nat] /\ tried' \in [Procs -> BOOLEAN]
      BY <3>1, <3>2, <3>3, <1>1 DEF TypeOK
    <3>5. /\ count'[p] >= 1
          /\ \A q \in Procs : q # p => count'[q] = count[q]
      BY <3>1, <3>2, <1>1 DEF TypeOK
    <3>6. "claim" \in Steps \ {"idle", "tick"}
      BY DEF Steps
    <3> QED
      BY <2>1, <3>1, <3>4, <3>5, <3>6, <1>2, <1>3, MoveStep
  <2> QED
    BY <2>2, <2>3
<1>10. CASE Claim(p)
  <2>1. /\ WriteDoc(cur[p], Claimed(doc[cur[p]], p))
        /\ Goto(p, "load")
        /\ at[p] = "claim"
        /\ lapsed' \subseteq Users
        /\ UNCHANGED <<clock, slot, cur, tick, kind, logged>>
    BY <1>1, <1>3, <1>10 DEF Claim, TypeOK
  <2>2. /\ Claimed(doc[cur[p]], p) \in Docs
        /\ Claimed(doc[cur[p]], p).modes # Modes
    BY <1>1, <1>4, ClaimedType DEF Claimed, Docs
  <2>3. at' \in [Actors -> Steps] /\ WorkInv'
    <3>1. "load" \in Steps \ {"idle", "tick"} /\ count' = count
      BY <2>1 DEF Steps, tick
    <3> QED
      BY <2>1, <3>1, <1>1, <1>2, <1>3, GotoStep DEF TypeOK
  <2>4. \A y \in fresh' : at'[y] = at[y]
    BY <2>1, <1>1 DEF WriteDoc, Stale, Goto, TypeOK
  <2> QED
    BY <2>1, <2>2, <2>3, <2>4, <1>3, WriteInPlace
<1>11. CASE Load(p)
  <2>1. PICK step \in {"save", "fsave"} : Remember(p, step)
    BY <1>11 DEF Load
  <2>2. doc[cur[p]].token = p
    BY <1>11 DEF Load, Owns
  <2>3. /\ UNCHANGED <<clock, doc, slot, cur, started, todo, kind, history>>
        /\ count' = count /\ tried' = tried
        /\ Goto(p, step)
        /\ step \in Steps \ {"idle", "tick"}
        /\ at[p] # "seed"
    BY <1>11, <2>1 DEF Load, tick, Remember, Steps
  <2> QED
    BY <2>1, <2>2, <2>3, <1>1, <1>2, <1>3, MoveStep DEF TypeOK
<1>12. CASE SaveRejected(p)
  <2>1. PICK step \in {"load", "fload"} : Goto(p, step)
    BY <1>12 DEF SaveRejected
  <2>2. /\ UNCHANGED <<clock, doc, slot, cur, started, todo, kind, history>>
        /\ count' = count /\ tried' = tried
        /\ Forget(p)
        /\ step \in Steps \ {"idle", "tick"}
        /\ at[p] # "seed"
    BY <1>12 DEF SaveRejected, tick, Forget, Steps
  <2> QED
    BY <2>1, <2>2, <1>1, <1>2, <1>3, MoveStep DEF TypeOK
<1>13. CASE Save(p)
  <2>1. at[p] \in {"save", "fsave"}
    BY <1>13 DEF Save
  <2>2. PICK d \in Outcomes(doc[cur[p]], p) : WriteDoc(cur[p], d)
    BY <1>13 DEF Save
  <2>3. d \in Docs /\ d.modes # Modes
    BY <2>1, <2>2, <1>1, <1>4, OutcomesType
  <2>4. /\ logged' \subseteq Modes /\ "local" \notin logged'
        /\ lapsed' \subseteq Users
    BY <1>13, <1>1, <1>3, <1>4
       DEF Save, LogsKept, BibleAllowed, Modes, LogsNeverUnderLocal, TypeOK
  <2>5. Return(p, "tick") /\ UNCHANGED <<clock, started, todo>>
    BY <1>13 DEF Save
  <2> QED
    BY <2>2, <2>3, <2>4, <2>5, <1>2, <1>3, WriteAndReturn
<1>14. CASE Throw(p)
  <2>1. Forget(p) /\ UNCHANGED <<clock, doc, history>>
    BY <1>14 DEF Throw
  <2>2. CASE Return(p, "idle") /\ StopTick(p)
    BY <2>1, <2>2, <1>2, LeaveStep
  <2>3. CASE Return(p, "tick") /\ UNCHANGED <<started, todo>>
    BY <2>1, <2>3, <1>2, LeaveStep
  <2>4. CASE /\ at[p] \in {"load", "save"}
             /\ Goto(p, "fload")
             /\ UNCHANGED <<slot, cur, tick, kind>>
    <3>1. "fload" \in Steps \ {"idle", "tick"}
      BY DEF Steps
    <3>2. UNCHANGED <<started, todo, count, tried>>
      BY <2>4 DEF tick
    <3> QED
      BY <2>1, <2>4, <3>1, <3>2, <1>1, <1>2, <1>3, MoveStep DEF TypeOK
  <2> QED
    BY <2>2, <2>3, <2>4, <1>14 DEF Throw
<1> QED
  BY <1>6, <1>7, <1>8, <1>9, <1>10, <1>11, <1>12, <1>13, <1>14

\* The steps of a command once it has the slot.
LEMMA CommandCallStep ==
  ASSUME IInv, NEW c \in Commands, CommandStep(c) \/ CommandThrow(c)
  PROVE  IInv'
<1>1. /\ TypeOK
      /\ WorkInv
      /\ LogsNeverUnderLocal
      /\ NeverBothModes
      /\ FreshInv
  BY DEF IInv
<1>2. c \in Actors /\ c \notin Procs
  BY DailyAssumption DEF DailyAssumption, Actors
<1>3. /\ at[c] \in {"load", "save"}
      /\ cur[c] \in Users
      /\ kind[c] # "none"
  BY <1>1, <1>2 DEF CommandStep, CommandLoad, CommandRefused, CommandSave,
                    CommandSaveRejected, CommandThrow, WorkInv
<1>4. doc[cur[c]] \in Docs /\ doc[cur[c]].modes # Modes
  BY <1>1, <1>3 DEF TypeOK, NeverBothModes
<1>5. {"load", "save"} \subseteq Steps \ {"idle", "tick"}
  BY DEF Steps
<1>6. CASE CommandLoad(c)
  <2>1. /\ Remember(c, "save")
        /\ MayCommit(c, doc[cur[c]])
        /\ UNCHANGED <<clock, doc, slot, cur, started, todo, kind, history>>
        /\ count' = count /\ tried' = tried
        /\ Goto(c, "save")
    BY <1>6 DEF CommandLoad, tick, Remember
  <2> QED
    BY <2>1, <1>1, <1>2, <1>3, <1>5, MoveStep DEF TypeOK
<1>7. CASE CommandRefused(c)
  <2>1. Forget(c)
    BY <1>7, <1>1 DEF CommandRefused, TypeOK, Forget
  <2> QED
    BY <2>1, <1>2, <1>7, LeaveStep DEF CommandRefused
<1>8. CASE CommandSave(c)
  <2>1. /\ c \in fresh
        /\ WriteDoc(cur[c], Committed(c, doc[cur[c]]))
        /\ Return(c, "idle")
        /\ UNCHANGED <<clock, started, todo>>
    BY <1>8 DEF CommandSave
  <2>2. MayCommit(c, doc[cur[c]])
    BY <2>1, <1>1 DEF FreshInv
  <2>3. /\ Committed(c, doc[cur[c]]) \in Docs
        /\ Committed(c, doc[cur[c]]).modes # Modes
        /\ CommandLogs(c, doc[cur[c]]) =>
             "local" \notin Committed(c, doc[cur[c]]).modes
    BY <2>2, <1>1, <1>3, <1>4, CommittedType
  <2>4. /\ logged' \subseteq Modes /\ "local" \notin logged'
        /\ lapsed' \subseteq Users
    BY <2>3, <1>8, <1>1
       DEF CommandSave, LogsNeverUnderLocal, TypeOK, Docs
  <2> QED
    BY <2>1, <2>3, <2>4, <1>2, <1>3, WriteAndReturn
<1>9. CASE CommandSaveRejected(c)
  <2>1. /\ Goto(c, "load")
        /\ Forget(c)
        /\ UNCHANGED <<clock, doc, slot, cur, started, todo, kind, history>>
        /\ count' = count /\ tried' = tried
    BY <1>9 DEF CommandSaveRejected, tick, Forget
  <2> QED
    BY <2>1, <1>1, <1>2, <1>3, <1>5, MoveStep DEF TypeOK
<1>10. CASE CommandThrow(c)
  BY <1>2, <1>10, LeaveStep DEF CommandThrow
<1> QED
  BY <1>6, <1>7, <1>8, <1>9, <1>10 DEF CommandStep

\* What users do: switch a mode, lose or register a roster, call a command.
LEMMA UserCallStep ==
  ASSUME IInv, NEW u \in Users, UserStep(u)
  PROVE  IInv'
<1>1. /\ TypeOK
      /\ WorkInv
      /\ FreshInv
      /\ NeverBothModes
  BY DEF IInv
<1>2. doc[u] \in Docs /\ doc[u].modes # Modes
  BY <1>1 DEF TypeOK, NeverBothModes
<1>3. ASSUME NEW d \in Docs, d.modes # Modes, WriteDoc(u, d),
             UNCHANGED <<clock, slot, at, cur, tick, kind, history>>
      PROVE  IInv'
  <2>1. at' \in [Actors -> Steps] /\ WorkInv' /\ lapsed' \subseteq Users
    BY <1>1, <1>3 DEF TypeOK, WorkInv, tick
  <2> QED
    BY <1>3, <2>1, WriteInPlace
<1>4. ASSUME NEW mode \in Modes, TurnOn(u, mode)
      PROVE  IInv'
  <2>1. /\ [doc[u] EXCEPT !.modes = {mode}] \in Docs
        /\ [doc[u] EXCEPT !.modes = {mode}].modes # Modes
    BY <1>2 DEF Docs, Modes
  <2> QED
    BY <2>1, <1>3, <1>4 DEF TurnOn
<1>5. ASSUME NEW mode \in Modes, TurnOff(u, mode)
      PROVE  IInv'
  <2>1. /\ [doc[u] EXCEPT !.modes = @ \ {mode}] \in Docs
        /\ [doc[u] EXCEPT !.modes = @ \ {mode}].modes # Modes
    BY <1>2, <1>5 DEF Docs, Modes
  <2> QED
    BY <2>1, <1>3, <1>5 DEF TurnOff
<1>6. CASE RosterRemoved(u)
  <2>1. /\ [doc[u] EXCEPT !.roster = FALSE] \in Docs
        /\ [doc[u] EXCEPT !.roster = FALSE].modes # Modes
    BY <1>2 DEF Docs
  <2> QED
    BY <2>1, <1>3, <1>6 DEF RosterRemoved
<1>7. CASE RosterAdded(u)
  <2>1. /\ [doc[u] EXCEPT !.roster = TRUE] \in Docs
        /\ [doc[u] EXCEPT !.roster = TRUE].modes # Modes
    BY <1>2 DEF Docs
  <2> QED
    BY <2>1, <1>3, <1>7 DEF RosterAdded
<1>8. ASSUME NEW c \in Commands, Call(c, u)
      PROVE  IInv'
  <2>1. /\ c \in Actors /\ c \notin Procs
        /\ ProcessOf(c) \in Procs
        /\ at[c] = "idle"
    BY <1>8, DailyAssumption DEF DailyAssumption, Actors, ProcessOf, Call
  <2>2. c \notin fresh
    BY <2>1, <1>1 DEF TypeOK
  <2>3. PICK k \in Kinds \ {"none"} : kind' = [kind EXCEPT ![c] = k]
    BY <1>8 DEF Call
  <2>4. /\ slot' = [slot EXCEPT ![ProcessOf(c)] = @ \cup {u}]
        /\ cur' = [cur EXCEPT ![c] = u]
        /\ at' = [at EXCEPT ![c] = "load"]
        /\ UNCHANGED <<clock, doc, fresh, started, todo>>
        /\ UNCHANGED <<count, tried, history>>
    BY <1>8 DEF Call, TakeSlot, Goto, tick
  <2>5. /\ slot' \in [Procs -> SUBSET Users]
        /\ cur' \in [Actors -> Users \cup {NoUser}]
        /\ at' \in [Actors -> Steps]
        /\ kind' \in [Commands -> Kinds]
    BY <2>1, <2>3, <2>4, <1>1 DEF TypeOK, Steps
  <2>6. TypeOK'
    BY <2>2, <2>4, <2>5, <1>1 DEF TypeOK
  <2>7. WorkInv'
    BY <2>1, <2>3, <2>4, <1>1 DEF WorkInv, TypeOK, Actors
  <2>8. NeverBothModes' /\ FreshInv'
    <3>1. \A x \in fresh' : cur'[x] = cur[x]
      BY <2>2, <2>4, <1>1 DEF TypeOK
    <3>2. \A x \in Commands : x \in fresh' => kind'[x] = kind[x]
      BY <2>2, <2>3, <2>4, <1>1 DEF TypeOK
    <3> QED
      BY <2>4, <3>1, <3>2, KeepStep
  <2>9. ClockInv' /\ LogsNeverUnderLocal'
    BY <2>4 DEF IInv, ClockInv, LogsNeverUnderLocal
  <2> QED
    BY <2>6, <2>7, <2>8, <2>9 DEF IInv
<1> QED
  BY <1>4, <1>5, <1>6, <1>7, <1>8 DEF UserStep

\* A crash leaves the documents and loses everything else of its process.
LEMMA CrashStep ==
  ASSUME IInv, NEW p \in Procs, Crash(p)
  PROVE  IInv'
<1> DEFINE Dead == {x \in Actors : ProcessOf(x) = p}
<1>1. TypeOK /\ WorkInv /\ ClockInv /\ LogsNeverUnderLocal
  BY DEF IInv
<1>2. /\ at' = [x \in Actors |-> IF x \in Dead THEN "idle" ELSE at[x]]
      /\ cur' = [x \in Actors |-> IF x \in Dead THEN NoUser ELSE cur[x]]
      /\ kind' = [x \in Commands |-> IF x \in Dead THEN "none" ELSE kind[x]]
      /\ fresh' = fresh \ Dead
      /\ slot' = [slot EXCEPT ![p] = {}]
      /\ count' = [count EXCEPT ![p] = 0]
      /\ tried' = [tried EXCEPT ![p] = FALSE]
      /\ todo' = [todo EXCEPT ![p] = {}]
      /\ started' = [started EXCEPT ![p] = 0]
      /\ UNCHANGED <<clock, doc, history>>
  <2>1. DOMAIN at = Actors /\ DOMAIN cur = Actors /\ DOMAIN kind = Commands
    BY <1>1 DEF TypeOK
  <2> QED
    BY <2>1 DEF Crash, StopTick
<1>3. p \in Dead
  BY DEF Actors, ProcessOf
<1>4. "idle" \in Steps /\ "none" \in Kinds
  BY DEF Steps, Kinds
<1> HIDE DEF Dead
<1>5. /\ at' \in [Actors -> Steps]
      /\ cur' \in [Actors -> Users \cup {NoUser}]
      /\ kind' \in [Commands -> Kinds]
  BY <1>1, <1>2, <1>4 DEF TypeOK
<1>6. TypeOK'
  BY <1>1, <1>2, <1>5 DEF TypeOK
<1>7. WorkInv'
  BY <1>1, <1>2, <1>3 DEF TypeOK, WorkInv, Actors
<1>8. NeverBothModes' /\ FreshInv'
  <2>1. \A x \in fresh' : cur'[x] = cur[x]
    BY <1>1, <1>2 DEF TypeOK
  <2>2. \A c \in Commands : c \in fresh' => kind'[c] = kind[c]
    BY <1>2
  <2> QED
    BY <1>2, <2>1, <2>2, KeepStep
<1>9. ClockInv' /\ LogsNeverUnderLocal'
  BY <1>1, <1>2 DEF ClockInv, LogsNeverUnderLocal, TypeOK
<1> QED
  BY <1>6, <1>7, <1>8, <1>9 DEF IInv

\* A step that changes no variable but the clock.
LEMMA TickStep ==
  ASSUME IInv, Tick \/ UNCHANGED vars
  PROVE  IInv'
<1>1. /\ UNCHANGED <<doc, slot, at, cur, fresh, started, todo, count, tried,
                     kind, history>>
      /\ clock' \in {clock, clock + 1}
  BY DEF Tick, vars, tick
<1>2. TypeOK' /\ ClockInv'
  BY <1>1 DEF IInv, TypeOK, ClockInv
<1>3. WorkInv' /\ FreshInv' /\ NeverBothModes' /\ LogsNeverUnderLocal'
  BY <1>1 DEF IInv, WorkInv, FreshInv, MayCommit, NeverBothModes,
              LogsNeverUnderLocal
<1> QED
  BY <1>2, <1>3 DEF IInv

\* Before anything happened.
LEMMA InitInv == Init => IInv
<1> SUFFICES ASSUME Init PROVE IInv
  OBVIOUS
<1>1. NewUser \in Docs /\ NewUser.modes # Modes
  BY DEF NewUser, Docs, Times, Unset, Modes
<1>2. TypeOK
  <2>1. "idle" \in Steps /\ "none" \in Kinds
    BY DEF Steps, Kinds
  <2> QED
    BY <1>1, <2>1 DEF Init, TypeOK
<1>3. WorkInv
  BY DEF Init, WorkInv, Actors
<1>4. ClockInv /\ FreshInv /\ LogsNeverUnderLocal
  BY DEF Init, ClockInv, FreshInv, LogsNeverUnderLocal
<1>5. NeverBothModes
  BY <1>1 DEF Init, NeverBothModes
<1> QED
  BY <1>2, <1>3, <1>4, <1>5 DEF IInv

\* Every step keeps the invariant.
LEMMA InvStep == IInv /\ [Next]_vars => IInv'
<1> SUFFICES ASSUME IInv, [Next]_vars PROVE IInv'
  OBVIOUS
<1>1. ASSUME NEW p \in Procs, SchedulerStep(p) \/ Throw(p)
      PROVE  IInv'
  BY <1>1, PickStep, CandidateStep DEF SchedulerStep
<1>2. ASSUME NEW p \in Procs, Crash(p)
      PROVE  IInv'
  BY <1>2, CrashStep
<1>3. ASSUME NEW c \in Commands, CommandStep(c) \/ CommandThrow(c)
      PROVE  IInv'
  BY <1>3, CommandCallStep
<1>4. ASSUME NEW u \in Users, UserStep(u)
      PROVE  IInv'
  BY <1>4, UserCallStep
<1>5. CASE Tick \/ UNCHANGED vars
  BY <1>5, TickStep
<1> QED
  BY <1>1, <1>2, <1>3, <1>4, <1>5 DEF Next

\* The inductive invariant holds in every state.
LEMMA Invariant == Spec => []IInv
  BY InitInv, InvStep, PTL DEF Spec

-----------------------------------------------------------------------------
\* Type correctness.
THEOREM DailyTypeCorrect == Spec => []TypeOK
<1>1. IInv => TypeOK
  BY DEF IInv
<1> QED
  BY <1>1, Invariant, PTL

\* Whatever commands, switches and schedulers of however many processes race
\* on a user's document, it never has Bible and Local Sync on together.
THEOREM ModesExclude == Spec => []NeverBothModes
<1>1. IInv => NeverBothModes
  BY DEF IInv
<1> QED
  BY <1>1, Invariant, PTL

\* No save, late, retried or rejected, puts Bible logs into a document whose
\* mode is Local Sync.
THEOREM LogsStayBible == Spec => []LogsNeverUnderLocal
<1>1. IInv => LogsNeverUnderLocal
  BY DEF IInv
<1> QED
  BY <1>1, Invariant, PTL

\* The step of AttemptProtected, as a state and action formula.
Protected(u) ==
  Attempt(doc'[u]) # Attempt(doc[u]) =>
    \/ \E c \in Commands : ResetBy(c, u)
    \/ \E p \in Procs : /\ cur[p] = u
                        /\ at[p] = "claim"
                        /\ doc'[u].token = p
                        /\ ~Running(doc[u])
    \/ \E p \in Procs : /\ cur[p] = u
                        /\ at[p] \in {"save", "fsave"}
                        /\ doc[u].token = p

\* Writes that touch only modes and roster leave the attempt alone.
LEMMA OtherFields ==
  ASSUME NEW d \in Docs, NEW M, NEW b
  PROVE  /\ Attempt([d EXCEPT !.modes = M]) = Attempt(d)
         /\ Attempt([d EXCEPT !.roster = b]) = Attempt(d)
BY DEF Docs, Attempt

\* One step against a running attempt.
LEMMA ProtectedStep ==
  ASSUME IInv, [Next]_vars, NEW u \in Users
  PROVE  Protected(u)
<1>1. TypeOK /\ WorkInv /\ ClockInv /\ FreshInv
  BY DEF IInv
<1>2. doc[u] \in Docs
  BY <1>1 DEF TypeOK
<1>3. ASSUME Attempt(doc'[u]) = Attempt(doc[u])
      PROVE  Protected(u)
  BY <1>3 DEF Protected
<1>4. ASSUME doc' = doc
      PROVE  Protected(u)
  BY <1>3, <1>4
<1>5. ASSUME NEW v \in Users, NEW d, WriteDoc(v, d), v # u
      PROVE  Protected(u)
  <2>1. doc'[u] = doc[u]
    BY <1>1, <1>5 DEF WriteDoc, TypeOK
  <2> QED
    BY <2>1, <1>3
<1>6. ASSUME NEW d, WriteDoc(u, d)
      PROVE  doc'[u] = d
  BY <1>1, <1>6 DEF WriteDoc, TypeOK
<1>7. ASSUME NEW p \in Procs, SchedulerStep(p) \/ Throw(p) \/ Crash(p)
      PROVE  Protected(u)
  <2>1. CASE Claim(p)
    <3>1. /\ at[p] = "claim"
          /\ cur[p] \in Users
          /\ WriteDoc(cur[p], Claimed(doc[cur[p]], p))
          /\ doc[cur[p]].leaseUntil <= started[p]
      BY <1>1, <2>1 DEF Claim, Due, WorkInv, Actors
    <3>2. CASE cur[p] # u
      BY <3>1, <3>2, <1>5
    <3>3. CASE cur[p] = u
      <4>1. doc'[u] = Claimed(doc[u], p)
        BY <3>1, <3>3, <1>6
      <4>2. doc'[u].token = p
        BY <4>1, <1>2 DEF Claimed, Docs
      <4>3. /\ doc[u].leaseUntil \in Int
            /\ started[p] \in Nat
            /\ clock \in Nat
            /\ started[p] <= clock
        BY <1>1, <1>2 DEF Docs, Times, Unset, TypeOK, ClockInv
      <4>4. ~Running(doc[u])
        BY <3>1, <3>3, <4>3 DEF Running
      <4> QED
        BY <3>1, <3>3, <4>2, <4>4 DEF Protected
    <3> QED
      BY <3>2, <3>3
  <2>2. CASE Save(p)
    <3>1. /\ at[p] \in {"save", "fsave"}
          /\ p \in fresh
          /\ cur[p] \in Users
      BY <1>1, <2>2 DEF Save, WorkInv, Actors
    <3>2. PICK d : WriteDoc(cur[p], d)
      BY <2>2 DEF Save
    <3>3. CASE cur[p] # u
      BY <3>1, <3>2, <3>3, <1>5
    <3>4. CASE cur[p] = u
      BY <3>1, <3>4, <1>1 DEF Protected, FreshInv
    <3> QED
      BY <3>3, <3>4
  <2>3. CASE ~(Claim(p) \/ Save(p))
    <3>1. doc' = doc
      BY <2>3, <1>7 DEF SchedulerStep, StartTick, NextCandidate, EndTick,
           CoolDown, Seed, ClaimLost, Load, Superseded, SaveRejected, Throw,
           Crash
    <3> QED
      BY <3>1, <1>4
  <2> QED
    BY <2>1, <2>2, <2>3
<1>8. ASSUME NEW c \in Commands, CommandStep(c) \/ CommandThrow(c)
      PROVE  Protected(u)
  <2>1. CASE CommandSave(c)
    <3>1. /\ at[c] = "save"
          /\ cur[c] \in Users
          /\ kind[c] # "none"
          /\ kind[c] \in Kinds
          /\ WriteDoc(cur[c], Committed(c, doc[cur[c]]))
      BY <1>1, <2>1 DEF CommandSave, WorkInv, Actors, TypeOK
    <3>2. CASE cur[c] # u
      BY <3>1, <3>2, <1>5
    <3>3. CASE cur[c] = u /\ kind[c] = "reset"
      BY <3>1, <3>3 DEF Protected, ResetBy
    <3>4. CASE cur[c] = u /\ kind[c] # "reset"
      <4>1. doc'[u] = Committed(c, doc[u])
        BY <3>1, <3>4, <1>6
      <4>2. Attempt(Committed(c, doc[u])) = Attempt(doc[u])
        BY <3>4, <1>2, OtherFields DEF Committed
      <4> QED
        BY <4>1, <4>2, <1>3
    <3> QED
      BY <3>2, <3>3, <3>4
  <2>2. CASE ~CommandSave(c)
    <3>1. doc' = doc
      BY <2>2, <1>8 DEF CommandStep, CommandLoad, CommandRefused,
           CommandSaveRejected, CommandThrow
    <3> QED
      BY <3>1, <1>4
  <2> QED
    BY <2>1, <2>2
<1>9. ASSUME NEW v \in Users, UserStep(v)
      PROVE  Protected(u)
  <2>1. CASE \E c \in Commands : Call(c, v)
    <3>1. doc' = doc
      BY <2>1 DEF Call
    <3> QED
      BY <3>1, <1>4
  <2>2. ASSUME NEW d, WriteDoc(v, d), v = u => Attempt(d) = Attempt(doc[u])
        PROVE  Protected(u)
    BY <2>2, <1>3, <1>5, <1>6
  <2>3. ASSUME NEW mode \in Modes, TurnOn(v, mode) \/ TurnOff(v, mode)
        PROVE  Protected(u)
    BY <2>2, <2>3, <1>2, OtherFields DEF TurnOn, TurnOff
  <2>4. CASE RosterRemoved(v) \/ RosterAdded(v)
    BY <2>2, <2>4, <1>2, OtherFields DEF RosterRemoved, RosterAdded
  <2> QED
    BY <2>1, <2>3, <2>4, <1>9 DEF UserStep
<1>10. CASE Tick \/ UNCHANGED vars
  BY <1>4, <1>10 DEF Tick, vars
<1> QED
  BY <1>7, <1>8, <1>9, <1>10 DEF Next

\* Across any number of processes, a running attempt is changed only by the
\* worker whose token it carries or by the user's reset.
THEOREM AttemptHonored == Spec => AttemptProtected
<1>1. IInv /\ [Next]_vars => [\A u \in Users : Protected(u)]_vars
  BY ProtectedStep
<1>2. [\A u \in Users : Protected(u)]_vars =>
        [\A u \in Users : Attempt(doc'[u]) # Attempt(doc[u]) =>
           \/ \E c \in Commands : ResetBy(c, u)
           \/ \E p \in Procs : /\ cur[p] = u
                               /\ at[p] = "claim"
                               /\ doc'[u].token = p
                               /\ ~Running(doc[u])
           \/ \E p \in Procs : /\ cur[p] = u
                               /\ at[p] \in {"save", "fsave"}
                               /\ doc[u].token = p]_vars
  BY DEF Protected
<1> QED
  BY <1>1, <1>2, Invariant, PTL DEF Spec, AttemptProtected

-----------------------------------------------------------------------------
(***************************************************************************)
(* What holds of one process only, the deployment of the bot: its slots    *)
(* keep every other call away from the user of a running attempt, and its  *)
(* only scheduler works for one day at a time.                             *)
(***************************************************************************)

OneProcess == \A p, q \in Procs : p = q

\* The slot of a user is held for one call of the process.
SlotInv ==
  /\ \A x \in Actors : cur[x] # NoUser => cur[x] \in slot[ProcessOf(x)]
  /\ \A x, y \in Actors :
       cur[x] # NoUser /\ cur[x] = cur[y] /\ ProcessOf(x) = ProcessOf(y) =>
         x = y

\* A worker saves its own attempt, and of a day that was not finished.
OwnInv ==
  /\ \A p \in Procs : p \in fresh => Owns(doc[cur[p]], p)
  /\ \A u \in Users : doc[u].leaseUntil # Unset =>
                        doc[u].finishedDay # doc[u].attemptDay

\* No day is finished before its time, or before that of the running tick.
DayInv ==
  \A u \in Users :
    /\ doc[u].finishedDay <= Day(clock)
    /\ \A p \in Procs : at[p] # "idle" =>
                          doc[u].finishedDay <= Day(started[p])

\* The attempts of a user who has used them up: the last one runs or has
\* finished the day.
Spent(u) ==
  /\ doc[u].count > MaxAttempts => u \in lapsed
  /\ doc[u].count >= MaxAttempts =>
       \/ u \in lapsed
       \/ doc[u].leaseUntil # Unset
       \/ doc[u].finishedDay = doc[u].attemptDay

\* An attempt about to be claimed is the next one of its user.
NextInv ==
  \A p \in Procs : at[p] = "claim" =>
    count[p] = NextCount(doc[cur[p]], Day(started[p]))

BudgetInv == NextInv /\ \A u \in Users : Spent(u)

SoleInv == IInv /\ SlotInv /\ OwnInv /\ DayInv /\ BudgetInv

\* Later times do not belong to earlier days.
LEMMA DayOrder ==
  ASSUME NEW s \in Nat, NEW t \in Nat, s <= t
  PROVE  Day(s) <= Day(t)
BY DailyAssumption DEF DailyAssumption, Day

\* Every call runs in a process.
LEMMA ProcessType ==
  ASSUME NEW x \in Actors
  PROVE  ProcessOf(x) \in Procs
BY DailyAssumption DEF DailyAssumption, Actors, ProcessOf

\* The slots and the users of the calls change together.
LEMMA SlotMoves ==
  ASSUME [Next]_vars
  PROVE  \/ UNCHANGED <<slot, cur>>
         \/ \E x \in Actors : \E u : SlotFree(x, u) /\ TakeSlot(x, u)
         \/ \E x \in Actors : \E step : Return(x, step)
         \/ \E p \in Procs : Crash(p)
<1>1. ASSUME NEW p \in Procs, SchedulerStep(p) \/ Throw(p)
      PROVE  \/ UNCHANGED <<slot, cur>>
             \/ \E u : SlotFree(p, u) /\ TakeSlot(p, u)
             \/ \E step : Return(p, step)
  BY <1>1 DEF SchedulerStep, StartTick, NextCandidate, EndTick, CoolDown,
       Seed, Claim, ClaimLost, Load, Superseded, Save, SaveRejected, Throw
<1>2. ASSUME NEW c \in Commands, CommandStep(c) \/ CommandThrow(c)
      PROVE  UNCHANGED <<slot, cur>> \/ \E step : Return(c, step)
  BY <1>2 DEF CommandStep, CommandLoad, CommandRefused, CommandSave,
       CommandSaveRejected, CommandThrow
<1>3. ASSUME NEW u \in Users, UserStep(u)
      PROVE  \/ UNCHANGED <<slot, cur>>
             \/ \E c \in Commands : SlotFree(c, u) /\ TakeSlot(c, u)
  BY <1>3 DEF UserStep, TurnOn, TurnOff, RosterRemoved, RosterAdded, Call
<1> QED
  BY <1>1, <1>2, <1>3 DEF Next, Tick, vars, Actors

\* No step gives a slot to two calls.
LEMMA SlotStep ==
  ASSUME IInv, SlotInv, [Next]_vars
  PROVE  SlotInv'
<1>1. /\ slot \in [Procs -> SUBSET Users]
      /\ cur \in [Actors -> Users \cup {NoUser}]
  BY DEF IInv, TypeOK
<1>2. CASE UNCHANGED <<slot, cur>>
  BY <1>2 DEF SlotInv
<1>3. ASSUME NEW x \in Actors, NEW u, SlotFree(x, u), TakeSlot(x, u)
      PROVE  SlotInv'
  <2>1. /\ cur' = [cur EXCEPT ![x] = u]
        /\ slot' = [slot EXCEPT ![ProcessOf(x)] = @ \cup {u}]
        /\ u \notin slot[ProcessOf(x)]
    BY <1>3 DEF TakeSlot, SlotFree
  <2>2. \A y \in Actors : /\ slot[ProcessOf(y)] \subseteq slot'[ProcessOf(y)]
                          /\ y # x => cur'[y] = cur[y]
    BY <2>1, <1>1, ProcessType
  <2>3. cur'[x] = u /\ u \in slot'[ProcessOf(x)]
    BY <2>1, <1>1, ProcessType
  <2>4. \A y \in Actors : ProcessOf(y) = ProcessOf(x) =>
                            cur[y] # u \/ u = NoUser
    BY <2>1 DEF SlotInv
  <2> QED
    BY <2>2, <2>3, <2>4 DEF SlotInv
<1>4. ASSUME NEW x \in Actors, NEW step, Return(x, step)
      PROVE  SlotInv'
  <2>1. /\ cur' = [cur EXCEPT ![x] = NoUser]
        /\ slot' = [slot EXCEPT ![ProcessOf(x)] = @ \ {cur[x]}]
    BY <1>4 DEF Return, ReleaseSlot
  <2>2. \A y \in Actors :
          cur'[y] # NoUser => cur'[y] = cur[y] /\ y # x
    BY <2>1, <1>1
  <2>3. \A y \in Actors : \A v \in slot[ProcessOf(y)] :
          ProcessOf(y) # ProcessOf(x) \/ v # cur[x] =>
            v \in slot'[ProcessOf(y)]
    BY <2>1, <1>1, ProcessType
  <2> QED
    BY <2>2, <2>3 DEF SlotInv
<1>5. ASSUME NEW p \in Procs, Crash(p)
      PROVE  SlotInv'
  <2>1. /\ slot' = [slot EXCEPT ![p] = {}]
        /\ \A x \in Actors : cur'[x] = IF ProcessOf(x) = p THEN NoUser
                                                           ELSE cur[x]
    BY <1>1, <1>5 DEF Crash
  <2>2. \A x \in Actors : cur'[x] # NoUser =>
          /\ cur'[x] = cur[x]
          /\ slot'[ProcessOf(x)] = slot[ProcessOf(x)]
    BY <2>1, <1>1, ProcessType
  <2> QED
    BY <2>2 DEF SlotInv
<1> QED
  BY <1>2, <1>3, <1>4, <1>5, SlotMoves

-----------------------------------------------------------------------------
\* A document is written by a claim, by the save of a worker or a command, or
\* in a part that is not the daily attempt.
LEMMA DocMoves ==
  ASSUME IInv, [Next]_vars
  PROVE  \/ doc' = doc /\ lapsed' = lapsed
         \/ \E p \in Procs : Claim(p) \/ Save(p)
         \/ \E c \in Commands : CommandSave(c)
         \/ \E u \in Users : \E d : /\ WriteDoc(u, d)
                                    /\ Attempt(d) = Attempt(doc[u])
                                    /\ lapsed' = lapsed
<1>1. ASSUME NEW p \in Procs, SchedulerStep(p) \/ Throw(p) \/ Crash(p),
             ~Claim(p), ~Save(p)
      PROVE  doc' = doc /\ lapsed' = lapsed
  BY <1>1 DEF SchedulerStep, StartTick, NextCandidate, EndTick, CoolDown,
       Seed, ClaimLost, Load, Superseded, SaveRejected, Throw, Crash
<1>2. ASSUME NEW c \in Commands, CommandStep(c) \/ CommandThrow(c),
             ~CommandSave(c)
      PROVE  doc' = doc /\ lapsed' = lapsed
  BY <1>2 DEF CommandStep, CommandLoad, CommandRefused, CommandSaveRejected,
       CommandThrow
<1>3. ASSUME NEW u \in Users, UserStep(u)
      PROVE  \/ doc' = doc /\ lapsed' = lapsed
             \/ \E d : /\ WriteDoc(u, d)
                       /\ Attempt(d) = Attempt(doc[u])
                       /\ lapsed' = lapsed
  <2>1. doc[u] \in Docs
    BY DEF IInv, TypeOK
  <2>2. ASSUME NEW mode \in Modes, TurnOn(u, mode) \/ TurnOff(u, mode)
        PROVE  \E d : /\ WriteDoc(u, d)
                      /\ Attempt(d) = Attempt(doc[u])
                      /\ lapsed' = lapsed
    BY <2>1, <2>2, OtherFields DEF TurnOn, TurnOff
  <2>3. CASE RosterRemoved(u) \/ RosterAdded(u)
    BY <2>1, <2>3, OtherFields DEF RosterRemoved, RosterAdded
  <2>4. ASSUME NEW c \in Commands, Call(c, u)
        PROVE  doc' = doc /\ lapsed' = lapsed
    BY <2>4 DEF Call
  <2> QED
    BY <1>3, <2>2, <2>3, <2>4 DEF UserStep
<1> QED
  BY <1>1, <1>2, <1>3 DEF Next, Tick, vars

\* How the one scheduler comes to a step, and what it remembers there.
LocalMove(p) ==
  /\ at'[p] # "idle" =>
       \/ at[p] # "idle" /\ started'[p] = started[p]
       \/ at[p] = "idle" /\ started'[p] = clock /\ doc' = doc
  /\ at'[p] = "claim" =>
       \/ Seed(p)
       \/ at[p] = "claim" /\ cur'[p] = cur[p] /\ count'[p] = count[p]
  /\ p \in fresh' =>
       \/ Load(p)
       \/ p \in fresh /\ cur'[p] = cur[p] /\ count'[p] = count[p]

\* It moves this way in every step.
LEMMA LocalMoves ==
  ASSUME IInv, OneProcess, [Next]_vars, NEW p \in Procs
  PROVE  LocalMove(p)
<1>1. /\ TypeOK
      /\ p \in Actors
      /\ p \notin Commands
      /\ p \in fresh => at[p] \in {"save", "fsave"}
  BY DailyAssumption DEF DailyAssumption, Actors, IInv, TypeOK
<1>2. /\ at \in [Actors -> Steps]
      /\ cur \in [Actors -> Users \cup {NoUser}]
      /\ count \in [Procs -> Nat]
      /\ started \in [Procs -> Nat]
  BY <1>1 DEF TypeOK
<1>3. ASSUME at'[p] = at[p], started' = started, cur'[p] = cur[p],
             count' = count, p \in fresh' => p \in fresh
      PROVE  LocalMove(p)
  BY <1>3 DEF LocalMove
<1>4. ASSUME NEW q \in Procs, SchedulerStep(q)
      PROVE  LocalMove(p)
  <2>1. SchedulerStep(p)
    BY <1>4 DEF OneProcess
  <2>2. CASE StartTick(p)
    BY <2>2, <1>1, <1>2 DEF StartTick, Goto, LocalMove
  <2>3. CASE NextCandidate(p)
    <3>1. /\ at[p] = "tick"
          /\ at'[p] \in {"tick", "seed"}
          /\ started' = started
          /\ fresh' = fresh
      BY <2>3, <1>1, <1>2 DEF NextCandidate, Goto
    <3> QED
      BY <3>1, <1>1 DEF LocalMove
  <2>4. CASE EndTick(p)
    BY <2>4, <1>1, <1>2 DEF EndTick, Goto, LocalMove
  <2>5. CASE CoolDown(p) \/ ClaimLost(p) \/ Superseded(p)
    <3>1. /\ at[p] \in {"seed", "claim", "load", "fload"}
          /\ at'[p] = "tick"
          /\ started' = started
          /\ fresh' = fresh
      BY <2>5, <1>1, <1>2 DEF CoolDown, ClaimLost, Superseded, Return, Goto
    <3> QED
      BY <3>1, <1>1 DEF LocalMove
  <2>6. CASE Seed(p)
    <3>1. at[p] = "seed" /\ started' = started /\ fresh' = fresh
      BY <2>6 DEF Seed
    <3>2. at'[p] \in {"claim", "tick"}
      BY <2>6, <1>1, <1>2 DEF Seed, Return, Goto
    <3> QED
      BY <2>6, <3>1, <3>2, <1>1 DEF LocalMove
  <2>7. CASE Claim(p)
    <3>1. /\ at[p] = "claim"
          /\ at'[p] = "load"
          /\ started' = started
          /\ fresh' \subseteq fresh
      BY <2>7, <1>1, <1>2 DEF Claim, Goto, tick, WriteDoc
    <3> QED
      BY <3>1, <1>1 DEF LocalMove
  <2>8. CASE Load(p)
    <3>1. /\ at[p] \in {"load", "fload"}
          /\ at'[p] \in {"save", "fsave"}
          /\ started' = started
      BY <2>8, <1>1, <1>2 DEF Load, Remember, Goto, tick
    <3> QED
      BY <2>8, <3>1 DEF LocalMove
  <2>9. CASE Save(p)
    <3>1. /\ at[p] \in {"save", "fsave"}
          /\ at'[p] = "tick"
          /\ started' = started
          /\ p \notin fresh'
      BY <2>9, <1>1, <1>2 DEF Save, Return, Goto, WriteDoc, Stale
    <3> QED
      BY <3>1 DEF LocalMove
  <2>10. CASE SaveRejected(p)
    <3>1. /\ at[p] \in {"save", "fsave"}
          /\ at'[p] \in {"load", "fload"}
          /\ started' = started
          /\ p \notin fresh'
      BY <2>10, <1>1, <1>2 DEF SaveRejected, Goto, tick
    <3> QED
      BY <3>1 DEF LocalMove
  <2> QED
    BY <2>1, <2>2, <2>3, <2>4, <2>5, <2>6, <2>7, <2>8, <2>9, <2>10
       DEF SchedulerStep
<1>5. ASSUME NEW q \in Procs, Throw(q)
      PROVE  LocalMove(p)
  <2>1. Throw(p)
    BY <1>5 DEF OneProcess
  <2>2. p \notin fresh'
    BY <2>1 DEF Throw, Forget
  <2>3. \/ at'[p] = "idle"
        \/ /\ at[p] \in {"seed", "claim", "load", "save", "fload", "fsave"}
           /\ at'[p] \in {"tick", "fload"}
           /\ started' = started
    BY <2>1, <1>1, <1>2 DEF Throw, Return, Goto, tick
  <2> QED
    BY <2>2, <2>3 DEF LocalMove
<1>6. ASSUME NEW q \in Procs, Crash(q)
      PROVE  LocalMove(p)
  <2>1. Crash(p)
    BY <1>6 DEF OneProcess
  <2>2. at'[p] = "idle" /\ p \notin fresh'
    BY <2>1, <1>1, <1>2 DEF Crash, ProcessOf
  <2> QED
    BY <2>2 DEF LocalMove
<1>7. ASSUME NEW c \in Commands, CommandStep(c) \/ CommandThrow(c)
      PROVE  LocalMove(p)
  <2>1. c # p /\ c \notin Procs
    BY <1>1, DailyAssumption DEF DailyAssumption
  <2>2. started' = started /\ count' = count
    BY <1>7, <2>1 DEF CommandStep, CommandLoad, CommandRefused, CommandSave,
         CommandSaveRejected, CommandThrow, Return, tick
  <2>3. at'[p] = at[p] /\ cur'[p] = cur[p] /\ (p \in fresh' => p \in fresh)
    BY <1>7, <2>1, <1>1, <1>2 DEF CommandStep, CommandLoad, CommandRefused,
         CommandSave, CommandSaveRejected, CommandThrow, Return, Goto,
         Remember, Forget, WriteDoc
  <2> QED
    BY <2>2, <2>3, <1>3
<1>8. ASSUME NEW u \in Users, UserStep(u)
      PROVE  LocalMove(p)
  <2>1. ASSUME NEW c \in Commands, Call(c, u)
        PROVE  LocalMove(p)
    <3>1. c # p
      BY <1>1
    <3> QED
      BY <2>1, <3>1, <1>2, <1>3 DEF Call, TakeSlot, Goto, tick
  <2>2. CASE ~\E c \in Commands : Call(c, u)
    BY <1>8, <2>2, <1>3 DEF UserStep, TurnOn, TurnOff, RosterRemoved,
         RosterAdded, WriteDoc, tick
  <2> QED
    BY <2>1, <2>2
<1>9. CASE Tick \/ UNCHANGED vars
  BY <1>3, <1>9 DEF Tick, vars, tick
<1> QED
  BY <1>4, <1>5, <1>6, <1>7, <1>8, <1>9 DEF Next

\* A step as one user's attempt sees it.
LEMMA AttemptMoves ==
  ASSUME IInv, [Next]_vars, NEW u \in Users
  PROVE  \/ /\ Attempt(doc'[u]) = Attempt(doc[u])
            /\ u \in lapsed' <=> u \in lapsed
         \/ \E p \in Procs : /\ Claim(p)
                             /\ cur[p] = u
                             /\ doc'[u] = Claimed(doc[u], p)
         \/ \E p \in Procs : /\ Save(p)
                             /\ cur[p] = u
                             /\ doc'[u] \in Outcomes(doc[u], p)
         \/ \E c \in Commands : /\ CommandSave(c)
                                /\ ResetBy(c, u)
                                /\ doc'[u] = Wiped(doc[u])
<1>1. TypeOK /\ WorkInv
  BY DEF IInv
<1>2. ASSUME NEW v \in Users, NEW d, WriteDoc(v, d)
      PROVE  doc'[u] = IF u = v THEN d ELSE doc[u]
  BY <1>1, <1>2 DEF WriteDoc, TypeOK
<1>3. ASSUME NEW p \in Procs, Claim(p)
      PROVE  /\ cur[p] = u => doc'[u] = Claimed(doc[u], p)
             /\ cur[p] # u => /\ doc'[u] = doc[u]
                              /\ u \in lapsed' <=> u \in lapsed
  <2>1. cur[p] \in Users
    BY <1>1, <1>3 DEF Claim, WorkInv, Actors
  <2>2. WriteDoc(cur[p], Claimed(doc[cur[p]], p))
    BY <1>3 DEF Claim
  <2>3. cur[p] # u => (u \in lapsed' <=> u \in lapsed)
    BY <1>3 DEF Claim
  <2> QED
    BY <2>1, <2>2, <2>3, <1>2
<1>4. ASSUME NEW p \in Procs, Save(p)
      PROVE  /\ cur[p] = u => doc'[u] \in Outcomes(doc[u], p)
             /\ cur[p] # u => /\ doc'[u] = doc[u]
                              /\ u \in lapsed' <=> u \in lapsed
  <2>1. cur[p] \in Users
    BY <1>1, <1>4 DEF Save, WorkInv, Actors
  <2>2. PICK d \in Outcomes(doc[cur[p]], p) : WriteDoc(cur[p], d)
    BY <1>4 DEF Save
  <2>3. cur[p] # u => (u \in lapsed' <=> u \in lapsed)
    BY <1>4 DEF Save
  <2> QED
    BY <2>1, <2>2, <2>3, <1>2
<1>5. ASSUME NEW c \in Commands, CommandSave(c)
      PROVE  \/ /\ Attempt(doc'[u]) = Attempt(doc[u])
                /\ u \in lapsed' <=> u \in lapsed
             \/ ResetBy(c, u) /\ doc'[u] = Wiped(doc[u])
  <2>1. cur[c] \in Users /\ at[c] = "save"
    BY <1>1, <1>5 DEF CommandSave, WorkInv, Actors
  <2>2. doc'[u] = IF u = cur[c] THEN Committed(c, doc[u]) ELSE doc[u]
    BY <1>2, <1>5, <2>1 DEF CommandSave
  <2>3. kind[c] # "reset" => (u \in lapsed' <=> u \in lapsed)
    BY <1>5 DEF CommandSave
  <2>4. cur[c] # u => (u \in lapsed' <=> u \in lapsed)
    BY <1>5 DEF CommandSave
  <2>5. doc[u] \in Docs
    BY <1>1 DEF TypeOK
  <2>6. CASE kind[c] # "reset"
    BY <2>2, <2>3, <2>5, <2>6, OtherFields DEF Committed
  <2>7. CASE kind[c] = "reset"
    BY <2>1, <2>2, <2>4, <2>7 DEF Committed, ResetBy
  <2> QED
    BY <2>6, <2>7
<1>6. ASSUME NEW v \in Users, NEW d, WriteDoc(v, d),
             Attempt(d) = Attempt(doc[v]), lapsed' = lapsed
      PROVE  /\ Attempt(doc'[u]) = Attempt(doc[u])
             /\ u \in lapsed' <=> u \in lapsed
  BY <1>2, <1>6
<1> QED
  BY <1>3, <1>4, <1>5, <1>6, DocMoves

\* What a worker's save leaves of the attempt it owns.
LEMMA OutcomeFacts ==
  ASSUME NEW d \in Docs, NEW p \in Procs, NEW e \in Outcomes(d, p)
  PROVE  /\ e.leaseUntil = Unset
         /\ e.finishedDay \in {d.finishedDay, Day(started[p])}
         /\ e.attemptDay = d.attemptDay
         /\ \/ ~d.roster /\ e.count = d.count
            \/ e.finishedDay = Day(started[p]) /\ e.count = d.count
            \/ ~(count[p] >= MaxAttempts) /\ e.count = d.count
            \/ e.count = count[p] - 1
BY DEF Outcomes, Retried, Finished, Deferred, Released, Docs

\* Wiping the daily state starts the count again.
LEMMA WipedFacts ==
  ASSUME NEW d \in Docs
  PROVE  /\ Wiped(d).leaseUntil = Unset
         /\ Wiped(d).finishedDay = Unset
         /\ Wiped(d).count = 0
BY DEF Wiped, Released, Docs

\* What a claim writes.
LEMMA ClaimedFacts ==
  ASSUME NEW d \in Docs, NEW p \in Procs
  PROVE  /\ Claimed(d, p).leaseUntil = started[p] + Lease
         /\ Claimed(d, p).finishedDay = d.finishedDay
         /\ Claimed(d, p).attemptDay = Day(started[p])
         /\ Claimed(d, p).count = count[p]
BY DEF Claimed, Docs

\* A fresh copy is still the stored document.
LEMMA FreshKept ==
  ASSUME IInv, [Next]_vars, NEW p \in Procs, p \in fresh, p \in fresh'
  PROVE  doc'[cur[p]] = doc[cur[p]]
<1>1. TypeOK /\ WorkInv /\ cur[p] \in Users
  BY DEF IInv, TypeOK, WorkInv, Actors
<1>2. ASSUME NEW v \in Users, NEW d, WriteDoc(v, d)
      PROVE  doc'[cur[p]] = doc[cur[p]]
  <2>1. cur[p] # v
    BY <1>2 DEF WriteDoc, Stale, Actors
  <2> QED
    BY <1>1, <1>2, <2>1 DEF WriteDoc, TypeOK
<1>3. ASSUME NEW q \in Procs, Claim(q) \/ Save(q)
      PROVE  \E v \in Users : \E d : WriteDoc(v, d)
  BY <1>1, <1>3 DEF Claim, Save, WorkInv, Actors
<1>4. ASSUME NEW c \in Commands, CommandSave(c)
      PROVE  \E v \in Users : \E d : WriteDoc(v, d)
  BY <1>1, <1>4 DEF CommandSave, WorkInv, Actors
<1> QED
  BY <1>2, <1>3, <1>4, DocMoves

\* A fresh document carries its worker's attempt, of a day still open.
LEMMA OwnStep ==
  ASSUME SoleInv, OneProcess, [Next]_vars, IInv'
  PROVE  OwnInv'
<1>1. IInv /\ TypeOK /\ OwnInv
  BY DEF SoleInv, IInv
<1>2. ASSUME NEW p \in Procs, p \in fresh'
      PROVE  Owns(doc[cur[p]], p)'
  <2>1. CASE Load(p)
    BY <2>1 DEF Load, Owns, tick
  <2>2. CASE p \in fresh /\ cur'[p] = cur[p] /\ count'[p] = count[p]
    <3>1. at[p] # "idle" /\ at'[p] # "idle"
      BY <1>1, <1>2, <2>2 DEF IInv, TypeOK
    <3>2. started'[p] = started[p]
      BY <3>1, <1>1, LocalMoves DEF LocalMove
    <3>3. doc'[cur[p]] = doc[cur[p]]
      BY <1>1, <1>2, <2>2, FreshKept
    <3>4. Owns(doc[cur[p]], p)
      BY <1>1, <2>2 DEF OwnInv
    <3> QED
      BY <2>2, <3>2, <3>3, <3>4 DEF Owns
  <2> QED
    BY <1>1, <1>2, <2>1, <2>2, LocalMoves DEF LocalMove
<1>3. ASSUME NEW u \in Users, doc'[u].leaseUntil # Unset
      PROVE  doc'[u].finishedDay # doc'[u].attemptDay
  <2>1. doc[u] \in Docs
    BY <1>1 DEF TypeOK
  <2>2. CASE Attempt(doc'[u]) = Attempt(doc[u])
    BY <2>2, <1>1, <1>3 DEF OwnInv, Attempt
  <2>3. ASSUME NEW p \in Procs, Claim(p), cur[p] = u,
               doc'[u] = Claimed(doc[u], p)
        PROVE  doc'[u].finishedDay # doc'[u].attemptDay
    BY <2>1, <2>3, ClaimedFacts DEF Claim, Due
  <2>4. ASSUME NEW p \in Procs, doc'[u] \in Outcomes(doc[u], p)
        PROVE  FALSE
    BY <1>3, <2>1, <2>4, OutcomeFacts
  <2>5. CASE doc'[u] = Wiped(doc[u])
    BY <1>3, <2>1, <2>5, WipedFacts
  <2> QED
    BY <1>1, <2>2, <2>3, <2>4, <2>5, AttemptMoves
<1> QED
  BY <1>2, <1>3 DEF OwnInv

\* A day is finished by a tick of that day.
LEMMA DayStep ==
  ASSUME SoleInv, OneProcess, [Next]_vars, IInv'
  PROVE  DayInv'
<1>1. IInv /\ TypeOK /\ WorkInv /\ ClockInv /\ DayInv
  BY DEF SoleInv, IInv
<1>2. clock \in Nat /\ clock' \in Nat /\ clock <= clock'
  <2>1. clock' \in {clock, clock + 1}
    BY DEF Next, Tick, vars, SchedulerStep, StartTick, NextCandidate,
       EndTick, CoolDown, Seed, Claim, ClaimLost, Load, Superseded, Save,
       SaveRejected, Throw, Crash, CommandStep, CommandLoad, CommandRefused,
       CommandSave, CommandSaveRejected, CommandThrow, UserStep, TurnOn,
       TurnOff, RosterRemoved, RosterAdded, Call
  <2> QED
    BY <2>1, <1>1 DEF TypeOK
<1>3. Day(clock) <= Day(clock') /\ Day(clock) \in Nat /\ Day(clock') \in Nat
  BY <1>2, DayOrder, DayType
<1> SUFFICES ASSUME NEW u \in Users
             PROVE  /\ doc'[u].finishedDay <= Day(clock')
                    /\ \A p \in Procs :
                         at'[p] # "idle" =>
                           doc'[u].finishedDay <= Day(started'[p])
  BY DEF DayInv, Day
<1>4. doc[u] \in Docs /\ doc[u].finishedDay \in Int
  BY <1>1 DEF TypeOK, Docs, Times, Unset
<1>5. \A p \in Procs : /\ started[p] \in Nat
                       /\ Day(started[p]) \in Nat
                       /\ Day(started[p]) <= Day(clock)
  BY <1>1, <1>2, DayOrder, DayType DEF TypeOK, ClockInv
<1>6. \/ doc'[u].finishedDay \in {doc[u].finishedDay, Unset}
      \/ \E p \in Procs : /\ at[p] # "idle"
                          /\ doc'[u].finishedDay = Day(started[p])
  <2>1. CASE Attempt(doc'[u]) = Attempt(doc[u])
    BY <2>1 DEF Attempt
  <2>2. ASSUME NEW p \in Procs, doc'[u] = Claimed(doc[u], p)
        PROVE  doc'[u].finishedDay = doc[u].finishedDay
    BY <2>2, <1>4, ClaimedFacts
  <2>3. ASSUME NEW p \in Procs, Save(p), doc'[u] \in Outcomes(doc[u], p)
        PROVE  \/ doc'[u].finishedDay = doc[u].finishedDay
               \/ at[p] # "idle" /\ doc'[u].finishedDay = Day(started[p])
    BY <2>3, <1>4, OutcomeFacts DEF Save
  <2>4. CASE doc'[u] = Wiped(doc[u])
    BY <2>4, <1>4, WipedFacts
  <2> QED
    BY <1>1, <2>1, <2>2, <2>3, <2>4, AttemptMoves
<1>7. doc'[u].finishedDay <= Day(clock)
  BY <1>1, <1>3, <1>4, <1>5, <1>6 DEF DayInv, Unset
<1>8. ASSUME NEW p \in Procs, at'[p] # "idle"
      PROVE  doc'[u].finishedDay <= Day(started'[p])
  <2>1. CASE at[p] # "idle" /\ started'[p] = started[p]
    <3>1. doc[u].finishedDay <= Day(started[p])
      BY <2>1, <1>1 DEF DayInv
    <3>2. \A q \in Procs : q = p
      BY DEF OneProcess
    <3> QED
      BY <2>1, <3>1, <3>2, <1>4, <1>5, <1>6 DEF Unset
  <2>2. CASE started'[p] = clock
    BY <2>2, <1>7
  <2> QED
    BY <1>1, <1>8, <2>1, <2>2, LocalMoves DEF LocalMove
<1>9. doc'[u].finishedDay <= Day(clock')
  <2>1. doc'[u].finishedDay \in Int
    BY <1>4, <1>5, <1>6 DEF Unset
  <2> QED
    BY <2>1, <1>3, <1>7
<1> QED
  BY <1>8, <1>9

\* The attempt about to be claimed stays the next one: its user's slot keeps
\* a reset away.
LEMMA NextStep ==
  ASSUME SoleInv, OneProcess, [Next]_vars, IInv'
  PROVE  NextInv'
<1>1. /\ IInv
      /\ TypeOK
      /\ WorkInv
      /\ SlotInv
      /\ NextInv
  BY DEF SoleInv, IInv, BudgetInv
<1> SUFFICES ASSUME NEW p \in Procs, at'[p] = "claim"
             PROVE  count'[p] = NextCount(doc'[cur'[p]], Day(started'[p]))
  BY DEF NextInv, NextCount, Day
<1>2. p \in Actors /\ p \notin Commands
  BY DailyAssumption DEF DailyAssumption, Actors
<1>3. CASE Seed(p)
  <2>1. doc[cur[p]].roster
    BY <1>1, <1>2, <1>3 DEF Seed, Return, Goto, TypeOK
  <2> QED
    BY <2>1, <1>1, <1>3 DEF Seed, TypeOK
<1>4. CASE at[p] = "claim" /\ cur'[p] = cur[p] /\ count'[p] = count[p]
  <2> DEFINE u == cur[p]
  <2>1. u \in Users /\ u # NoUser
    BY <1>1, <1>2, <1>4, DailyAssumption DEF DailyAssumption, WorkInv
  <2>2. started'[p] = started[p]
    BY <1>1, <1>4, LocalMoves DEF LocalMove
  <2>3. Attempt(doc'[u]) = Attempt(doc[u])
    <3>1. ASSUME NEW q \in Procs, Claim(q) \/ Save(q)
          PROVE  FALSE
      <4>1. q = p
        BY DEF OneProcess
      <4>2. at'[p] # "claim"
        BY <3>1, <4>1, <1>1, <1>2 DEF Claim, Save, Return, Goto, TypeOK
      <4> QED
        BY <4>2
    <3>2. ASSUME NEW c \in Commands, cur[c] = u
          PROVE  FALSE
      <4>1. c \in Actors /\ ProcessOf(c) = ProcessOf(p)
        BY ProcessType DEF Actors, OneProcess
      <4> QED
        BY <3>2, <4>1, <2>1, <1>1, <1>2 DEF SlotInv
    <3> QED
      BY <1>1, <2>1, <3>1, <3>2, AttemptMoves DEF ResetBy
  <2>4. count[p] = NextCount(doc[u], Day(started[p]))
    BY <1>1, <1>4 DEF NextInv
  <2> QED
    BY <1>4, <2>2, <2>3, <2>4 DEF NextCount, Attempt
<1> QED
  BY <1>1, <1>3, <1>4, LocalMoves DEF LocalMove

\* No step overdraws the attempts of a day unnoticed.
LEMMA SpentStep ==
  ASSUME SoleInv, OneProcess, [Next]_vars, NEW u \in Users
  PROVE  Spent(u)'
<1>1. /\ IInv
      /\ TypeOK
      /\ OwnInv
      /\ NextInv
      /\ Spent(u)
  BY DEF SoleInv, IInv, BudgetInv
<1>2. /\ doc[u] \in Docs
      /\ doc[u].count \in Nat
      /\ doc[u].attemptDay \in Int
  BY <1>1 DEF TypeOK, Docs, Times, Unset
<1>3. MaxAttempts \in Nat /\ MaxAttempts >= 1
  BY DailyAssumption DEF DailyAssumption, MaxAttempts
<1>4. CASE /\ Attempt(doc'[u]) = Attempt(doc[u])
           /\ u \in lapsed' <=> u \in lapsed
  BY <1>1, <1>4 DEF Spent, Attempt, MaxAttempts
<1>5. ASSUME NEW p \in Procs, Claim(p), cur[p] = u,
             doc'[u] = Claimed(doc[u], p)
      PROVE  Spent(u)'
  <2>1. /\ doc'[u].leaseUntil = started[p] + Lease
        /\ doc'[u].count = count[p]
    BY <1>2, <1>5, ClaimedFacts
  <2>2. doc'[u].leaseUntil # Unset
    BY <2>1, <1>1, DailyAssumption DEF DailyAssumption, TypeOK, Unset
  <2>3. /\ doc[u].finishedDay # Day(started[p])
        /\ count[p] = NextCount(doc[u], Day(started[p]))
    BY <1>1, <1>5 DEF Claim, Due, NextInv
  <2>4. CASE doc[u].attemptDay # Day(started[p])
    BY <2>1, <2>2, <2>3, <2>4, <1>3 DEF Spent, NextCount, MaxAttempts
  <2>5. CASE doc[u].attemptDay = Day(started[p])
    <3>1. doc'[u].count = doc[u].count + 1
      BY <2>1, <2>3, <2>5 DEF NextCount
    <3>2. u \in lapsed \/ doc[u].leaseUntil # Unset => u \in lapsed'
      BY <2>5, <1>5 DEF Claim
    <3>3. doc'[u].count > MaxAttempts => doc[u].count >= MaxAttempts
      BY <3>1, <1>2, <1>3
    <3>4. doc'[u].count > MaxAttempts => u \in lapsed'
      BY <3>2, <3>3, <2>3, <2>5, <1>1 DEF Spent
    <3> QED
      BY <3>4, <2>2 DEF Spent, MaxAttempts
  <2> QED
    BY <2>4, <2>5
<1>6. ASSUME NEW p \in Procs, Save(p), cur[p] = u,
             doc'[u] \in Outcomes(doc[u], p)
      PROVE  Spent(u)'
  <2>1. doc[u].count = count[p] /\ doc[u].attemptDay = Day(started[p])
    BY <1>1, <1>6 DEF Save, OwnInv, Owns
  <2>2. lapsed' = lapsed \cup {v \in {u} : ~doc[v].roster}
    BY <1>6 DEF Save
  <2>3. doc'[u].attemptDay = doc[u].attemptDay
    BY <1>2, <1>6, OutcomeFacts
  <2>4. \/ u \in lapsed'
        \/ /\ doc'[u].finishedDay = Day(started[p])
           /\ doc'[u].count = doc[u].count
        \/ doc'[u].count < MaxAttempts
        \/ doc'[u].count = doc[u].count - 1
    BY <1>2, <1>3, <1>6, <2>1, <2>2, OutcomeFacts
  <2>5. CASE doc'[u].count = doc[u].count - 1
    BY <2>2, <2>5, <1>1, <1>2, <1>3 DEF Spent, MaxAttempts
  <2>6. CASE /\ doc'[u].finishedDay = Day(started[p])
             /\ doc'[u].count = doc[u].count
    BY <2>1, <2>2, <2>3, <2>6, <1>1 DEF Spent, MaxAttempts
  <2>7. CASE doc'[u].count < MaxAttempts
    <3>1. doc'[u].count \in Int
      BY <1>2, <1>6, <2>1, OutcomeFacts
    <3> QED
      BY <2>7, <3>1, <1>3 DEF Spent, MaxAttempts
  <2>8. CASE u \in lapsed'
    BY <2>8 DEF Spent
  <2> QED
    BY <2>4, <2>5, <2>6, <2>7, <2>8
<1>7. ASSUME doc'[u] = Wiped(doc[u])
      PROVE  Spent(u)'
  <2>1. doc'[u].count = 0
    BY <1>2, <1>7, WipedFacts
  <2> QED
    BY <2>1, <1>3 DEF Spent, MaxAttempts
<1> QED
  BY <1>1, <1>4, <1>5, <1>6, <1>7, AttemptMoves

\* Before anything happened.
LEMMA SoleInit == Init => SoleInv
<1> SUFFICES ASSUME Init PROVE SoleInv
  OBVIOUS
<1>1. IInv
  BY InitInv
<1>2. SlotInv /\ OwnInv
  BY DEF Init, SlotInv, OwnInv, NewUser
<1>3. DayInv
  <2>1. Day(0) \in Nat
    BY DayType
  <2> QED
    BY <2>1 DEF Init, DayInv, NewUser, Unset, Actors
<1>4. NextInv
  BY DEF Init, NextInv, Actors
<1>5. \A u \in Users : Spent(u)
  <2>1. MaxAttempts \in Nat /\ MaxAttempts >= 1
    BY DailyAssumption DEF DailyAssumption, MaxAttempts
  <2> QED
    BY <2>1 DEF Init, Spent, NewUser
<1> QED
  BY <1>1, <1>2, <1>3, <1>4, <1>5 DEF SoleInv, BudgetInv

\* The strengthened invariant is kept by every step of one process.
LEMMA SoleStep == OneProcess /\ SoleInv /\ [Next]_vars => SoleInv'
<1> SUFFICES ASSUME OneProcess, SoleInv, [Next]_vars PROVE SoleInv'
  OBVIOUS
<1>1. IInv'
  BY InvStep DEF SoleInv
<1>2. SlotInv'
  BY SlotStep DEF SoleInv
<1>3. OwnInv' /\ DayInv' /\ NextInv'
  BY <1>1, OwnStep, DayStep, NextStep
<1>4. \A u \in Users : Spent(u)'
  BY SpentStep
<1> QED
  BY <1>1, <1>2, <1>3, <1>4 DEF SoleInv, BudgetInv

\* It holds in every state.
LEMMA SoleInvariant ==
  ASSUME OneProcess
  PROVE  Spec => []SoleInv
BY SoleInit, SoleStep, PTL DEF Spec

\* With the one process the bot is deployed as, no user has more attempts in a
\* day than the first and its retries, but for an attempt that was lost with
\* its worker or dropped with the last roster (README.md:30).
THEOREM AttemptsBounded ==
  ASSUME OneProcess
  PROVE  Spec => []ExtraAttemptOnlyAfterLoss
<1>1. SoleInv => ExtraAttemptOnlyAfterLoss
  BY DEF SoleInv, BudgetInv, Spent, ExtraAttemptOnlyAfterLoss
<1> QED
  BY <1>1, SoleInvariant, PTL

\* The step of CompletedDayStays.
DaySettled(u) ==
  doc[u].finishedDay = Day(clock) =>
    \/ Attempt(doc'[u]) = Attempt(doc[u])
    \/ \E c \in Commands : ResetBy(c, u)

\* A claim finds the day open and a save owns an attempt of an open day.
LEMMA SettledStep ==
  ASSUME SoleInv, [Next]_vars, NEW u \in Users
  PROVE  DaySettled(u)
<1>1. IInv /\ TypeOK /\ ClockInv /\ OwnInv /\ DayInv
  BY DEF SoleInv, IInv
<1>2. doc[u].finishedDay \in Int /\ clock \in Nat /\ Day(clock) \in Nat
  BY <1>1, DayType DEF TypeOK, Docs, Times, Unset
<1>3. ASSUME NEW p \in Procs, at[p] # "idle",
             doc[u].finishedDay # Day(started[p])
      PROVE  doc[u].finishedDay # Day(clock)
  <2>1. /\ Day(started[p]) \in Nat
        /\ Day(started[p]) <= Day(clock)
        /\ doc[u].finishedDay <= Day(started[p])
    BY <1>1, <1>2, <1>3, DayOrder, DayType DEF TypeOK, ClockInv, DayInv
  <2> QED
    BY <2>1, <1>2, <1>3
<1>4. ASSUME NEW p \in Procs, Claim(p), cur[p] = u
      PROVE  doc[u].finishedDay # Day(clock)
  BY <1>3, <1>4 DEF Claim, Due
<1>5. ASSUME NEW p \in Procs, Save(p), cur[p] = u
      PROVE  doc[u].finishedDay # Day(clock)
  <2>1. Owns(doc[u], p)
    BY <1>1, <1>5 DEF Save, OwnInv
  <2>2. doc[u].finishedDay # Day(started[p])
    BY <2>1, <1>1 DEF Owns, OwnInv
  <2> QED
    BY <2>2, <1>3, <1>5 DEF Save
<1> QED
  BY <1>1, <1>4, <1>5, AttemptMoves DEF DaySettled

\* With one process, whatever was due, late or failing when the day's refresh
\* completed leaves the user's daily state alone until midnight or a reset.
THEOREM DayStaysSettled ==
  ASSUME OneProcess
  PROVE  Spec => CompletedDayStays
<1>1. SoleInv /\ [Next]_vars => [\A u \in Users : DaySettled(u)]_vars
  BY SettledStep
<1>2. [\A u \in Users : DaySettled(u)]_vars =>
        [\A u \in Users : doc[u].finishedDay = Day(clock) =>
           \/ Attempt(doc'[u]) = Attempt(doc[u])
           \/ \E c \in Commands : ResetBy(c, u)]_vars
  BY DEF DaySettled
<1> QED
  BY <1>1, <1>2, SoleInvariant, PTL DEF Spec, CompletedDayStays
=============================================================================
