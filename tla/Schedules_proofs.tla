-------------------------- MODULE Schedules_proofs --------------------------
(***************************************************************************)
(* The types of the schedules, and the invariant the other proofs about    *)
(* them start from: how ticks, jobs and claims fit together. The notices   *)
(* and the weekly reset are two components that meet in the config of the  *)
(* guild; each keeps its own invariant, and what a step of either does to  *)
(* the config is summed up in GuildStep, so that the proofs about claims   *)
(* need no look at the schedulers.                                         *)
(***************************************************************************)
EXTENDS Schedules, FiniteSetTheorems, TLAPS

-----------------------------------------------------------------------------
\* Claims. The empty claim is one.
LEMMA NoClaimIsClaim ==
  IsClaim(NoClaim) /\ DOMAIN NoClaim.set = {} /\ DOMAIN NoClaim.was = {}
<1>1. <<>> \in [{} -> Nat] /\ <<>> \in [{} -> Key] /\ DOMAIN <<>> = {}
  OBVIOUS
<1>2. {} \in SUBSET Fields
  OBVIOUS
<1> QED
  BY <1>1, <1>2 DEF IsClaim, NoClaim

\* A claim remembers, for the fields it set, what was there before.
LEMMA ClaimParts ==
  ASSUME NEW c, IsClaim(c)
  PROVE  /\ c = [set |-> c.set, was |-> c.was]
         /\ DOMAIN c.set \subseteq Fields /\ DOMAIN c.was = DOMAIN c.set
         /\ \A f \in DOMAIN c.set : c.set[f] \in Nat /\ c.was[f] \in Key
  BY DEF IsClaim

\* What Claims writes down is a claim.
LEMMA MakeClaim ==
  ASSUME NEW s, NEW w, NEW F \in SUBSET Fields, s \in [F -> Nat], w \in [F -> Key]
  PROVE  IsClaim([set |-> s, was |-> w])
  BY DEF IsClaim

\* Days are natural numbers and grow with time.
LEMMA DayMono ==
  ASSUME NEW s \in Nat, NEW t \in Nat, s <= t
  PROVE  Day(s) \in Nat /\ Day(t) \in Nat /\ Day(s) <= Day(t)
  BY DayAssumption DEF Day

\* After the first day there is a day that is complete.
LEMMA PosDay ==
  ASSUME NEW t \in Nat, t >= SlotsPerDay
  PROVE  Target(t) \in Nat
  BY DayAssumption DEF Day, Target

\* What a scheduler may want to set.
ClaimSets == UNION {[F -> Nat] : F \in SUBSET Fields}

\* Setting or restoring keys keeps them keys.
LEMMA OverwriteType ==
  ASSUME keys \in [Fields -> Key], NEW s, \A f \in DOMAIN s : s[f] \in Key
  PROVE  Overwrite(keys, s) \in [Fields -> Key]
  BY DEF Overwrite

\* The history notes fields and keys.
LEMMA PairsType ==
  ASSUME NEW s, DOMAIN s \subseteq Fields, \A f \in DOMAIN s : s[f] \in Nat
  PROVE  Pairs(s) \subseteq Fields \X Nat
  BY DEF Pairs

\* Each operation of a claim, and each command of an admin, keeps the types.
LEMMA ClaimsType ==
  ASSUME GuildTypeOK, UNCHANGED clock, NEW a \in Claimers, NEW guard,
         NEW s \in ClaimSets, Claims(a, guard, s)
  PROVE  GuildTypeOK'
<1>1. PICK F \in SUBSET Fields : s \in [F -> Nat]
  BY DEF ClaimSets
<1>2. CASE UNCHANGED guildVars
  BY <1>2 DEF GuildTypeOK, guildVars, history, IsClaim
<1>3. CASE ~UNCHANGED guildVars
  <2>1. /\ keys' = Overwrite(keys, s)
        /\ reopened' = reopened \cup {f \in DOMAIN s : keys[f] > s[f]}
        /\ UNCHANGED <<config, served, repeated, edits>>
    BY <1>3 DEF Claims
  <2>2. keys' \in [Fields -> Key]
    BY <2>1, <1>1, OverwriteType DEF GuildTypeOK, Key
  <2>3. reopened' \subseteq Fields
    BY <2>1, <1>1 DEF GuildTypeOK
  <2>4. DOMAIN claim' = Claimers /\ \A b \in Claimers : IsClaim(claim'[b])
    <3> DEFINE w == [f \in DOMAIN s |-> keys[f]]
    <3>1. w \in [F -> Key]
      BY <1>1 DEF GuildTypeOK
    <3>2. IsClaim([set |-> s, was |-> w])
      BY <3>1, <1>1, MakeClaim
    <3>3. UNCHANGED claim \/ claim' = [claim EXCEPT ![a] = [set |-> s, was |-> w]]
      BY <1>3 DEF Claims
    <3> HIDE DEF w
    <3> QED
      BY <3>2, <3>3 DEF GuildTypeOK
  <2>5. lapsed' \subseteq Fields \X Nat /\ trouble' \in Nat
    <3>1. Pairs(s) \subseteq Fields \X Nat
      BY <1>1, PairsType
    <3> QED
      BY <3>1, <1>3 DEF Claims, GuildTypeOK
  <2> QED
    BY <2>1, <2>2, <2>3, <2>4, <2>5 DEF GuildTypeOK
<1> QED
  BY <1>2, <1>3

LEMMA ServeType ==
  ASSUME GuildTypeOK, UNCHANGED clock, NEW a \in Claimers, Serve(a)
  PROVE  GuildTypeOK'
<1>1. Pairs(claim[a].set) \subseteq Fields \X Nat
  BY ClaimParts, PairsType DEF GuildTypeOK
<1>2. DOMAIN claim' = Claimers /\ \A b \in Claimers : IsClaim(claim'[b])
  BY NoClaimIsClaim DEF Serve, GuildTypeOK
<1>3. repeated' \subseteq Fields
  BY <1>1 DEF Serve, GuildTypeOK
<1> QED
  BY <1>1, <1>2, <1>3 DEF Serve, GuildTypeOK

LEMMA RollbackType ==
  ASSUME GuildTypeOK, UNCHANGED clock, NEW a \in Claimers, Rollback(a)
  PROVE  GuildTypeOK'
<1>1. Pairs(claim[a].set) \subseteq Fields \X Nat
  BY ClaimParts, PairsType DEF GuildTypeOK
<1>2. DOMAIN claim' = Claimers /\ \A b \in Claimers : IsClaim(claim'[b])
  BY NoClaimIsClaim DEF Rollback, GuildTypeOK
<1>3. Overwrite(keys, claim[a].was) \in [Fields -> Key]
  BY ClaimParts, OverwriteType DEF GuildTypeOK
<1>4. reopened' \subseteq Fields
  BY DEF Rollback, GuildTypeOK, Fields
<1> QED
  BY <1>1, <1>2, <1>3, <1>4 DEF Rollback, GuildTypeOK

LEMMA DiesType ==
  ASSUME GuildTypeOK, UNCHANGED clock, NEW a \in Claimers, Dies(a)
  PROVE  GuildTypeOK'
<1>1. Pairs(claim[a].set) \subseteq Fields \X Nat
  BY ClaimParts, PairsType DEF GuildTypeOK
<1>2. DOMAIN claim' = Claimers /\ \A b \in Claimers : IsClaim(claim'[b])
  BY NoClaimIsClaim DEF Dies, GuildTypeOK
<1> QED
  BY <1>1, <1>2 DEF Dies, GuildTypeOK

LEMMA FailsType ==
  ASSUME GuildTypeOK, UNCHANGED clock, Fails
  PROVE  GuildTypeOK'
  BY DEF Fails, GuildTypeOK, history

LEMMA SameGuildType ==
  ASSUME GuildTypeOK, UNCHANGED clock, UNCHANGED guildVars
  PROVE  GuildTypeOK'
  BY DEF guildVars, GuildTypeOK, history

LEMMA EditType ==
  ASSUME GuildTypeOK, NEW new \in Config, Edit(new),
         keys' \in [Fields -> Key], lapsed' \subseteq Fields \X Nat
  PROVE  GuildTypeOK'
  BY DEF Edit, GuildTypeOK

LEMMA AdminType ==
  ASSUME GuildTypeOK, Admin
  PROVE  GuildTypeOK'
<1>1. CASE ClearChannel
  BY <1>1, EditType DEF ClearChannel, GuildTypeOK, Config
<1>2. CASE ScheduleOn
  <2>1. "cleanup" \in Fields
    BY DEF Fields
  <2>2. keys' \in [Fields -> Key] /\ lapsed' \subseteq Fields \X Nat
    BY <1>2, <2>1 DEF ScheduleOn, GuildTypeOK, Key
  <2> QED
    BY <1>2, <2>2, EditType DEF ScheduleOn, GuildTypeOK, Config
<1>3. CASE ScheduleOff
  BY <1>3, EditType DEF ScheduleOff, GuildTypeOK, Config
<1>4. ASSUME NEW c \in Channels, SetChannel(c) PROVE GuildTypeOK'
  BY <1>4, EditType DEF SetChannel, GuildTypeOK, Config
<1>5. ASSUME NEW r \in Reports, ToggleReport(r) PROVE GuildTypeOK'
  BY <1>5, EditType DEF ToggleReport, GuildTypeOK, Config
<1>6. ASSUME NEW r \in Reports, NEW c \in Channels \cup {NoChannel},
             SendReportTo(r, c)
      PROVE  GuildTypeOK'
  BY <1>6, EditType DEF SendReportTo, GuildTypeOK, Config
<1> QED
  BY <1>1, <1>2, <1>3, <1>4, <1>5, <1>6 DEF Admin

LEMMA PassType ==
  ASSUME GuildTypeOK, Pass
  PROVE  GuildTypeOK'
  BY DEF Pass, guildVars, GuildTypeOK, history

-----------------------------------------------------------------------------
\* What is claimed: one field, or the morning, which claims the cleanup of its
\* slot as well.
StateShape(s) ==
  \/ \E f \in Fields \ {"wakeup"} : DOMAIN s \subseteq {f}
  \/ /\ DOMAIN s = {"wakeup", "cleanup"}
     /\ s["wakeup"] = Day(s["cleanup"]) /\ Awake(s["cleanup"])

\* Nobody claims the cleanup of a slot that has not begun.
ClaimBound(c) ==
  "cleanup" \in DOMAIN c.set =>
    c.set["cleanup"] <= clock /\ c.was["cleanup"] <= clock

\* The invariant of the config and its claims.
GuildInv ==
  /\ GuildTypeOK /\ clock >= SlotsPerDay
  /\ keys["cleanup"] <= clock
  /\ \A a \in Claimers : StateShape(claim[a].set) /\ ClaimBound(claim[a])

\* Nobody else's claim changes.
OthersKept(a) == \A b \in Claimers \ {a} : claim'[b] = claim[b]

\* The fields by name.
LEMMA CleanupIsField ==
  {"cleanup", "wakeup", "bedtime", "daily", "weekly"} \subseteq Fields
  BY DEF Fields, Reports

\* The empty claim is a harmless one.
LEMMA NoClaimShape == StateShape(NoClaim.set) /\ ClaimBound(NoClaim)
<1>1. "daily" \in Fields \ {"wakeup"}
  BY CleanupIsField
<1> QED
  BY <1>1, NoClaimIsClaim DEF StateShape, ClaimBound

\* Each operation of a claim, and each command of an admin, keeps the
\* invariant of the config; those that hand a claim back leave none behind.
LEMMA ClaimsInv ==
  ASSUME GuildInv, UNCHANGED clock, NEW a \in Claimers, NEW guard,
         NEW s \in ClaimSets, Claims(a, guard, s), StateShape(s),
         "cleanup" \in DOMAIN s => s["cleanup"] <= clock
  PROVE  GuildInv' /\ OthersKept(a)
<1> USE DEF GuildInv
<1>1. GuildTypeOK'
  BY ClaimsType
<1>2. CASE UNCHANGED guildVars
  BY <1>1, <1>2 DEF guildVars, ClaimBound, OthersKept
<1>3. CASE ~UNCHANGED guildVars
  <2> DEFINE c == [set |-> s, was |-> [f \in DOMAIN s |-> keys[f]]]
  <2>1. keys' = Overwrite(keys, s) /\ claim' \in {claim, [claim EXCEPT ![a] = c]}
    BY <1>3 DEF Claims
  <2>2. keys'["cleanup"] <= clock
    BY <2>1, CleanupIsField DEF Overwrite
  <2>3. StateShape(c.set) /\ ClaimBound(c)
    BY DEF ClaimBound
  <2> HIDE DEF c
  <2>4. \A b \in Claimers : claim'[b] \in {claim[b], c}
    BY <2>1 DEF GuildTypeOK
  <2>5. OthersKept(a)
    BY <2>1 DEF GuildTypeOK, OthersKept
  <2> QED
    BY <1>1, <2>2, <2>3, <2>4, <2>5 DEF ClaimBound
<1> QED
  BY <1>2, <1>3

LEMMA ServeInv ==
  ASSUME GuildInv, UNCHANGED clock, NEW a \in Claimers, Serve(a)
  PROVE  GuildInv' /\ OthersKept(a) /\ claim'[a] = NoClaim
<1> USE DEF GuildInv
<1>1. GuildTypeOK'
  BY ServeType
<1>2. claim' = [claim EXCEPT ![a] = NoClaim] /\ keys' = keys
  BY DEF Serve
<1> QED
  BY <1>1, <1>2, NoClaimShape DEF GuildTypeOK, ClaimBound, OthersKept

LEMMA DiesInv ==
  ASSUME GuildInv, UNCHANGED clock, NEW a \in Claimers, Dies(a)
  PROVE  GuildInv' /\ OthersKept(a) /\ claim'[a] = NoClaim
<1> USE DEF GuildInv
<1>1. GuildTypeOK'
  BY DiesType
<1>2. claim' = [claim EXCEPT ![a] = NoClaim] /\ keys' = keys
  BY DEF Dies
<1> QED
  BY <1>1, <1>2, NoClaimShape DEF GuildTypeOK, ClaimBound, OthersKept

LEMMA RollbackInv ==
  ASSUME GuildInv, UNCHANGED clock, NEW a \in Claimers, Rollback(a)
  PROVE  GuildInv' /\ OthersKept(a) /\ claim'[a] = NoClaim
<1> USE DEF GuildInv
<1>1. GuildTypeOK'
  BY RollbackType
<1>2. claim' = [claim EXCEPT ![a] = NoClaim]
  BY DEF Rollback
<1>3. keys' = keys \/ keys' = Overwrite(keys, claim[a].was)
  BY DEF Rollback
<1>4. keys'["cleanup"] <= clock
  <2>1. DOMAIN claim[a].was = DOMAIN claim[a].set
    BY ClaimParts DEF GuildTypeOK
  <2> QED
    BY <1>3, <2>1, CleanupIsField DEF Overwrite, ClaimBound
<1> QED
  BY <1>1, <1>2, <1>4, NoClaimShape DEF GuildTypeOK, ClaimBound, OthersKept

LEMMA SameInv ==
  ASSUME GuildInv, UNCHANGED clock, Fails \/ UNCHANGED guildVars
  PROVE  GuildInv' /\ UNCHANGED claim
<1>1. GuildTypeOK' /\ UNCHANGED claim /\ UNCHANGED keys
  BY FailsType, SameGuildType DEF GuildInv, Fails, guildVars
<1> QED
  BY <1>1 DEF GuildInv, ClaimBound

LEMMA AdminInv ==
  ASSUME GuildInv, Admin
  PROVE  GuildInv' /\ UNCHANGED <<clock, claim>>
<1>1. GuildTypeOK'
  BY AdminType DEF GuildInv
<1>2. UNCHANGED <<clock, claim>>
  BY DEF Admin, ClearChannel, ScheduleOn, ScheduleOff, SetChannel,
         ToggleReport, SendReportTo, Edit
<1>3. keys'["cleanup"] <= clock
  <2>1. keys' = keys \/ keys' = [keys EXCEPT !["cleanup"] = clock]
    BY DEF Admin, ClearChannel, ScheduleOn, ScheduleOff, SetChannel,
           ToggleReport, SendReportTo
  <2> QED
    BY <2>1, CleanupIsField DEF GuildInv, GuildTypeOK
<1> QED
  BY <1>1, <1>2, <1>3 DEF GuildInv, ClaimBound

LEMMA PassInv ==
  ASSUME GuildInv, Pass
  PROVE  GuildInv' /\ UNCHANGED claim /\ clock' = clock + 1
<1>1. GuildTypeOK'
  BY PassType DEF GuildInv
<1>2. UNCHANGED <<keys, claim>> /\ clock' = clock + 1 /\ clock \in Nat
  BY DEF Pass, guildVars, GuildInv, GuildTypeOK
<1>3. keys'["cleanup"] <= clock'
  BY <1>2, CleanupIsField DEF GuildInv, GuildTypeOK, Key, NoKey
<1>4. ASSUME NEW a \in Claimers PROVE ClaimBound(claim[a])'
  <2>1. "cleanup" \in DOMAIN claim[a].set =>
          claim[a].set["cleanup"] \in Nat /\ claim[a].was["cleanup"] \in Key
    BY ClaimParts DEF GuildInv, GuildTypeOK
  <2> QED
    BY <2>1, <1>2 DEF GuildInv, ClaimBound, Key, NoKey
<1>5. clock' >= SlotsPerDay
  BY <1>2, DayAssumption DEF GuildInv
<1> QED
  BY <1>1, <1>2, <1>3, <1>4, <1>5 DEF GuildInv

-----------------------------------------------------------------------------
\* The notices. Where a tick holds a claim.
Holding == {"bedtime", "clean", "send", "resend", "release"}

\* A tick carries a time that has passed, and a claim is for something its
\* scheduler may claim at that time.
GoodTick(a, t) ==
  /\ t.at \notin {"off", "idle"} =>
       /\ t.now >= SlotsPerDay /\ t.now <= clock
       /\ a \in Reminders =>
            t.phase \in Reminded /\ t.now \in DOMAIN DueKeys[t.phase]
  /\ t.at = "claim" =>
       /\ a \in Sweepers \cup Reminders
       /\ a \in Sweepers => t.phase \in {"bedtime", "wakeup", "cleanup"}
       /\ t.phase = "wakeup" => Awake(t.now)

\* A scheduler holds a claim exactly while its tick says so.
Holds(a, at, held) == at \in held <=> claim[a] # NoClaim

\* The invariant of the notices.
NoticeInv ==
  /\ NoticeTypeOK /\ GuildInv
  /\ \A a \in Workers : GoodTick(a, task[a]) /\ Holds(a, task[a].at, Holding)

\* The parts of a tick have their types.
LEMMA WorkerTask ==
  ASSUME NoticeTypeOK, NEW a \in Workers
  PROVE  /\ a \in Claimers /\ task[a] \in Task /\ task[a].now \in Nat
         /\ task[a].phase \in Phases
         /\ task[a].channel \in Channels \cup {NoChannel}
         /\ task[a].to \in Channels \cup {NoChannel}
         /\ task[a].rides \in BOOLEAN
         /\ clock \in Nat
  BY WorkersAssumption DEF NoticeTypeOK, Task, GuildTypeOK

\* A step of one tick that ends in a good tick keeps the invariant, if the
\* claim it holds or does not hold afterwards fits.
LEMMA TaskMove ==
  ASSUME NoticeInv, NEW a \in Workers, NEW t \in Task,
         task' = [task EXCEPT ![a] = t], UNCHANGED clock, GuildInv',
         allDone' \in Key, OthersKept(a), GoodTick(a, t),
         t.at \in Holding <=> claim'[a] # NoClaim
  PROVE  NoticeInv'
<1>1. NoticeTypeOK'
  BY DEF NoticeInv, NoticeTypeOK, GuildInv
<1>2. ASSUME NEW b \in Workers
      PROVE  GoodTick(b, task[b])' /\ Holds(b, task[b].at, Holding)'
  <2>1. CASE b = a
    BY <2>1 DEF NoticeInv, NoticeTypeOK, GoodTick, Holds
  <2>2. CASE b # a
    BY <2>2, WorkersAssumption DEF NoticeInv, NoticeTypeOK, GoodTick, Holds, OthersKept
  <2> QED
    BY <2>1, <2>2
<1> QED
  BY <1>1, <1>2 DEF NoticeInv

\* A scheduler at rest is well-formed.
LEMMA IdleTask ==
  /\ Idle \in Task /\ Idle.at = "idle"
  /\ [Idle EXCEPT !.at = "off"] \in Task
  /\ \A a : GoodTick(a, Idle) /\ GoodTick(a, [Idle EXCEPT !.at = "off"])
  BY DEF Idle, Task, Steps, Phases, GoodTick

\* A step that ends a tick keeps the invariant.
LEMMA RestMove ==
  ASSUME NoticeInv, NEW a \in Workers, Rest(a), UNCHANGED <<clock, allDone>>,
         GuildInv', OthersKept(a), claim'[a] = NoClaim
  PROVE  NoticeInv'
<1>1. allDone' \in Key
  BY DEF NoticeInv, NoticeTypeOK
<1>2. Idle.at \notin Holding
  BY IdleTask DEF Holding
<1> QED
  BY <1>1, <1>2, IdleTask, TaskMove DEF Rest

\* A step that takes a tick further, to anywhere but a claim, keeps the
\* invariant.
LEMMA StepMove ==
  ASSUME NoticeInv, NEW a \in Workers, NEW step \in Steps \ {"claim", "off", "idle"},
         task[a].at \notin {"off", "idle"},
         Step(a, step), UNCHANGED <<clock, allDone>>, GuildInv', OthersKept(a),
         step \in Holding <=> claim'[a] # NoClaim
  PROVE  NoticeInv'
<1> DEFINE t == [task[a] EXCEPT !.at = step]
<1>1. t \in Task /\ t.at = step /\ t.now = task[a].now /\ t.phase = task[a].phase
  BY WorkerTask DEF NoticeInv, Task
<1>2. task' = [task EXCEPT ![a] = t]
  BY DEF Step, NoticeInv, NoticeTypeOK
<1>3. GoodTick(a, t)
  BY <1>1 DEF NoticeInv, GoodTick
<1>4. allDone' \in Key
  BY DEF NoticeInv, NoticeTypeOK
<1> QED
  BY <1>1, <1>2, <1>3, <1>4, TaskMove

\* What a scheduler claims has one of the two shapes and is not of the future.
LEMMA ClaimOfState ==
  ASSUME NEW phase \in Phases, NEW t \in Nat, t >= SlotsPerDay, t <= clock,
         phase \in Reminded => t \in DOMAIN DueKeys[phase],
         phase = "wakeup" => Awake(t)
  PROVE  /\ ClaimOf(phase, t) \in ClaimSets /\ StateShape(ClaimOf(phase, t))
         /\ "cleanup" \in DOMAIN ClaimOf(phase, t) =>
              ClaimOf(phase, t)["cleanup"] <= clock
<1> DEFINE F == {phase} \cup (IF phase = "wakeup" THEN {"cleanup"} ELSE {})
<1>1. F \subseteq Fields
  BY DEF Phases, Fields, Reports
<1>2. Day(t) \in Nat /\ Target(t) \in Nat
  BY DayMono, PosDay
<1>3. \A f \in F : KeyOf(f, t) \in Nat
  BY <1>2, ReminderAssumption DEF KeyOf, Phases, Reminded
<1>4. ClaimOf(phase, t) = [f \in F |-> KeyOf(f, t)]
  BY DEF ClaimOf
<1>5. ClaimOf(phase, t) \in [F -> Nat]
  BY <1>3, <1>4
<1>6. KeyOf("cleanup", t) = t /\ KeyOf("wakeup", t) = Day(t)
  BY DEF KeyOf, Reminded
<1>7. StateShape(ClaimOf(phase, t))
  <2>1. CASE phase = "wakeup"
    BY <2>1, <1>4, <1>6 DEF StateShape
  <2>2. CASE phase # "wakeup"
    BY <2>2, <1>4, <1>1 DEF StateShape
  <2> QED
    BY <2>1, <2>2
<1> QED
  BY <1>1, <1>4, <1>5, <1>6, <1>7 DEF ClaimSets

\* The steps of a tick that touch no claim, one by one.
LEMMA TickBeginInv ==
  ASSUME NoticeInv, NEW a \in Workers, TickBegin(a)
  PROVE  NoticeInv'
<1>1. UNCHANGED <<clock, guildVars, allDone>> /\ task[a].at = "idle"
  BY DEF TickBegin, Quietly
<1>2. PICK phase \in IF a \in Reminders THEN Due(a, clock) ELSE {"cleanup"} :
        task' = [task EXCEPT ![a].at = "scan", ![a].now = clock,
                   ![a].phase = phase]
  BY DEF TickBegin
<1> DEFINE t == [task[a] EXCEPT !.at = "scan", !.now = clock, !.phase = phase]
<1>3. a \in Reminders =>
        phase \in Reminded /\ clock \in DOMAIN DueKeys[phase]
  BY ReminderAssumption DEF Due
<1>4. phase \in Phases
  BY <1>3 DEF Phases
<1>5. t \in Task /\ t.at = "scan" /\ t.now = clock /\ t.phase = phase
  BY <1>4, WorkerTask DEF NoticeInv, Task, Steps
<1>6. task' = [task EXCEPT ![a] = t]
  BY <1>2 DEF NoticeInv, NoticeTypeOK
<1>7. GoodTick(a, t)
  BY <1>3, <1>5 DEF GoodTick, NoticeInv, GuildInv, GuildTypeOK
<1>8. GuildInv' /\ UNCHANGED claim
  BY <1>1, SameInv DEF NoticeInv
<1>9. claim[a] = NoClaim
  BY <1>1 DEF NoticeInv, Holds, Holding
<1> HIDE DEF t
<1> QED
  BY <1>1, <1>5, <1>6, <1>7, <1>8, <1>9, TaskMove
     DEF OthersKept, NoticeInv, NoticeTypeOK, Holding

\* The phase of a sweep.
LEMMA PhaseAtIs ==
  ASSUME NEW t
  PROVE  /\ PhaseAt(t) \in {"bedtime", "wakeup", "cleanup"}
         /\ PhaseAt(t) = "wakeup" => Awake(t)
  BY DEF PhaseAt

\* Without work left there is no claim.
LEMMA NotWorking ==
  ASSUME NoticeInv, NEW a \in Workers, task[a].at \notin Holding
  PROVE  claim[a] = NoClaim
  BY DEF NoticeInv, Holds

\* A look at the config keeps the invariant.
LEMMA ScanMove ==
  ASSUME NoticeInv, NEW a \in Workers, task[a].at \notin Holding,
         UNCHANGED <<clock, allDone>>,
         \/ Rest(a)
         \/ \E t \in Task : /\ task' = [task EXCEPT ![a] = t]
                            /\ GoodTick(a, t) /\ t.at \notin Holding,
         UNCHANGED guildVars \/ Fails
  PROVE  NoticeInv'
<1>1. GuildInv' /\ UNCHANGED claim
  BY SameInv DEF NoticeInv
<1>2. claim'[a] = NoClaim /\ OthersKept(a)
  BY <1>1, NotWorking DEF OthersKept
<1>3. CASE Rest(a)
  BY <1>1, <1>2, <1>3, RestMove
<1>4. CASE \E t \in Task : /\ task' = [task EXCEPT ![a] = t]
                           /\ GoodTick(a, t) /\ t.at \notin Holding
  <2>1. PICK t \in Task : /\ task' = [task EXCEPT ![a] = t]
                          /\ GoodTick(a, t) /\ t.at \notin Holding
    BY <1>4
  <2> QED
    BY <2>1, <1>1, <1>2, TaskMove DEF NoticeInv, NoticeTypeOK
<1> QED
  BY <1>3, <1>4

LEMMA SweepScanInv ==
  ASSUME NoticeInv, NEW a \in Workers, SweepScan(a)
  PROVE  NoticeInv'
<1> DEFINE now == task[a].now
           t == [at |-> "claim", now |-> now, phase |-> PhaseAt(now),
                 channel |-> config.channel, to |-> config.to["daily"],
                 rides |-> /\ config.on["daily"] /\ Rides(config)
                           /\ keys["daily"] # Target(now)]
<1>1. a \in Sweepers /\ task[a].at = "scan" /\ UNCHANGED <<clock, allDone>>
  BY DEF SweepScan
<1>2. \/ Rest(a) /\ (UNCHANGED guildVars \/ Fails)
      \/ task' = [task EXCEPT ![a] = t] /\ UNCHANGED guildVars
  BY DEF SweepScan
<1>3. t \in Task
  <2>1. config.channel \in Channels \cup {NoChannel}
    BY DEF NoticeInv, NoticeTypeOK, GuildTypeOK, Config
  <2>2. config.to["daily"] \in Channels \cup {NoChannel}
    BY DEF NoticeInv, NoticeTypeOK, GuildTypeOK, Config, Reports
  <2>3. now \in Nat /\ PhaseAt(now) \in Phases
    BY WorkerTask, PhaseAtIs DEF NoticeInv, Phases
  <2>4. t.rides \in BOOLEAN
    OBVIOUS
  <2> HIDE DEF now
  <2> QED
    BY <2>1, <2>2, <2>3 DEF Task, Steps
<1>4. GoodTick(a, t)
  <2>1. a \notin Reminders
    BY <1>1, WorkersAssumption
  <2>2. now >= SlotsPerDay /\ now <= clock
    BY <1>1 DEF NoticeInv, GoodTick
  <2> HIDE DEF now
  <2> QED
    BY <2>1, <2>2, <1>1, PhaseAtIs DEF GoodTick
<1>5. t.at \notin Holding /\ task[a].at \notin Holding
  BY <1>1 DEF Holding
<1> HIDE DEF t
<1> QED
  BY <1>1, <1>2, <1>3, <1>4, <1>5, ScanMove

LEMMA ReportScanInv ==
  ASSUME NoticeInv, NEW a \in Workers, ReportScan(a)
  PROVE  NoticeInv'
<1> DEFINE now == task[a].now
           t == [at |-> "summary", now |-> now, phase |-> "daily",
                 channel |-> config.channel, to |-> config.to["daily"],
                 rides |-> FALSE]
<1>1. a \in Reporters /\ task[a].at = "scan" /\ UNCHANGED <<clock, allDone>>
  BY DEF ReportScan
<1>2. \/ Rest(a) /\ (UNCHANGED guildVars \/ Fails)
      \/ task' = [task EXCEPT ![a] = t] /\ UNCHANGED guildVars
  BY DEF ReportScan
<1>3. t \in Task
  <2>1. config.channel \in Channels \cup {NoChannel}
    BY DEF NoticeInv, NoticeTypeOK, GuildTypeOK, Config
  <2>2. config.to["daily"] \in Channels \cup {NoChannel}
    BY DEF NoticeInv, NoticeTypeOK, GuildTypeOK, Config, Reports
  <2>3. now \in Nat
    BY WorkerTask DEF NoticeInv
  <2> HIDE DEF now
  <2> QED
    BY <2>1, <2>2, <2>3 DEF Task, Steps, Phases
<1>4. GoodTick(a, t)
  <2>1. a \notin Reminders
    BY <1>1, WorkersAssumption
  <2>2. now >= SlotsPerDay /\ now <= clock
    BY <1>1 DEF NoticeInv, GoodTick
  <2> HIDE DEF now
  <2> QED
    BY <2>1, <2>2 DEF GoodTick
<1>5. t.at \notin Holding /\ task[a].at \notin Holding
  BY <1>1 DEF Holding
<1> HIDE DEF t
<1> QED
  BY <1>1, <1>2, <1>3, <1>4, <1>5, ScanMove

LEMMA RemindScanInv ==
  ASSUME NoticeInv, NEW a \in Workers, RemindScan(a)
  PROVE  NoticeInv'
<1> DEFINE kind == task[a].phase
           t == [task[a] EXCEPT !.at = "claim", !.channel = config.channel,
                                !.to = config.to[kind]]
<1>1. a \in Reminders /\ task[a].at = "scan" /\ UNCHANGED <<clock, allDone>>
  BY DEF RemindScan
<1>2. kind \in Reminded /\ task[a].now >= SlotsPerDay /\ task[a].now <= clock
      /\ task[a].now \in DOMAIN DueKeys[kind]
  BY <1>1 DEF NoticeInv, GoodTick
<1>3. \/ Rest(a) /\ (UNCHANGED guildVars \/ Fails)
      \/ task' = [task EXCEPT ![a] = t] /\ UNCHANGED guildVars
  <2>1. \/ Rest(a) /\ (UNCHANGED guildVars \/ Fails)
        \/ /\ task' = [task EXCEPT ![a].at = "claim",
                ![a].channel = config.channel, ![a].to = config.to[kind]]
           /\ UNCHANGED guildVars
    BY DEF RemindScan
  <2> QED
    BY <2>1 DEF NoticeInv, NoticeTypeOK
<1>4. t \in Task /\ t.at = "claim" /\ t.now = task[a].now /\ t.phase = kind
  <2>1. config.channel \in Channels \cup {NoChannel}
    BY DEF NoticeInv, NoticeTypeOK, GuildTypeOK, Config
  <2>2. config.to[kind] \in Channels \cup {NoChannel}
    BY <1>2 DEF NoticeInv, NoticeTypeOK, GuildTypeOK, Config, Reports
  <2>3. task[a] \in Task
    BY WorkerTask DEF NoticeInv
  <2> QED
    BY <2>1, <2>2, <2>3 DEF Task, Steps
<1>5. a \notin Sweepers /\ kind # "wakeup"
  BY <1>1, <1>2, WorkersAssumption DEF Reminded
<1> HIDE DEF t, kind
<1>6. GoodTick(a, t)
  BY <1>1, <1>2, <1>4, <1>5 DEF GoodTick
<1>7. t.at \notin Holding /\ task[a].at \notin Holding
  BY <1>1, <1>4 DEF Holding
<1> QED
  BY <1>1, <1>3, <1>4, <1>6, <1>7, ScanMove

\* A claim, taken or not, keeps the invariant if the tick goes on with it and
\* ends without it.
LEMMA ClaimMove ==
  ASSUME NoticeInv, NEW a \in Workers, task[a].at \notin Holding,
         task[a].at \notin {"off", "idle"}, UNCHANGED <<clock, allDone>>,
         NEW guard, NEW s \in ClaimSets, StateShape(s),
         "cleanup" \in DOMAIN s => s["cleanup"] <= clock,
         Claims(a, guard, s) \/ Fails, NEW step \in Holding,
         IF claim'[a] # NoClaim THEN Step(a, step) ELSE Rest(a)
  PROVE  NoticeInv'
<1>1. GuildInv' /\ OthersKept(a)
  BY ClaimsInv, SameInv, WorkersAssumption DEF NoticeInv, OthersKept
<1>2. CASE claim'[a] = NoClaim
  BY <1>1, <1>2, RestMove
<1>3. CASE claim'[a] # NoClaim
  <2>1. step \in Steps \ {"claim", "off", "idle"}
    BY DEF Holding, Steps
  <2> QED
    BY <1>1, <1>3, <2>1, StepMove
<1> QED
  BY <1>2, <1>3

LEMMA SweepClaimInv ==
  ASSUME NoticeInv, NEW a \in Workers, SweepClaim(a)
  PROVE  NoticeInv'
<1> DEFINE phase == task[a].phase
           now == task[a].now
           guard == /\ config.sweeping
                    /\ config.channel = task[a].channel
                    /\ keys[phase] # KeyOf(phase, now)
           step == IF phase = "bedtime" THEN "bedtime" ELSE "clean"
<1>1. /\ a \in Sweepers /\ task[a].at = "claim" /\ UNCHANGED <<clock, allDone>>
      /\ Claims(a, guard, ClaimOf(phase, now)) \/ Fails
      /\ IF claim'[a] # NoClaim THEN Step(a, step) ELSE Rest(a)
  BY DEF SweepClaim
<1>2. /\ now >= SlotsPerDay /\ now <= clock /\ now \in Nat
      /\ phase \in {"bedtime", "wakeup", "cleanup"}
      /\ phase = "wakeup" => Awake(now)
  BY <1>1, WorkerTask DEF NoticeInv, GoodTick
<1>3. phase \in Phases /\ phase \notin Reminded
  BY <1>2 DEF Phases, Reminded
<1>4. step \in Holding /\ task[a].at \notin Holding
  BY <1>1 DEF Holding
<1> HIDE DEF phase, now, guard, step
<1> QED
  BY <1>1, <1>2, <1>3, <1>4, ClaimOfState, ClaimMove

LEMMA ClaimReportInv ==
  ASSUME NoticeInv, NEW a \in Workers, ClaimReport(a)
  PROVE  NoticeInv'
<1> DEFINE now == task[a].now
           guard == /\ keys["daily"] # Target(now)
                    /\ config.on["daily"]
                    /\ config.channel = task[a].channel
                    /\ config.to["daily"] = task[a].to
<1>1. /\ task[a].at = "claimReport" /\ UNCHANGED <<clock, allDone>>
      /\ Claims(a, guard, ClaimOf("daily", now)) \/ Fails
      /\ IF claim'[a] # NoClaim THEN Step(a, "send") ELSE Rest(a)
  BY DEF ClaimReport
<1>2. now >= SlotsPerDay /\ now <= clock /\ now \in Nat
  BY <1>1, WorkerTask DEF NoticeInv, GoodTick
<1>3. "daily" \in Phases /\ "daily" \notin Reminded
  BY DEF Phases, Reminded
<1>4. "send" \in Holding /\ task[a].at \notin Holding
  BY <1>1 DEF Holding
<1> HIDE DEF now, guard
<1> QED
  BY <1>1, <1>2, <1>3, <1>4, ClaimOfState, ClaimMove

LEMMA RemindClaimInv ==
  ASSUME NoticeInv, NEW a \in Workers, RemindClaim(a)
  PROVE  NoticeInv'
<1> DEFINE kind == task[a].phase
           now == task[a].now
           guard == /\ keys[kind] # KeyOf(kind, now)
                    /\ config.on[kind]
                    /\ config.channel = task[a].channel
                    /\ config.to[kind] = task[a].to
<1>1. /\ a \in Reminders /\ task[a].at = "claim"
      /\ UNCHANGED <<clock, allDone>>
      /\ Claims(a, guard, ClaimOf(kind, now)) \/ Fails
      /\ IF claim'[a] # NoClaim THEN Step(a, "send") ELSE Rest(a)
  BY DEF RemindClaim
<1>2. /\ now >= SlotsPerDay /\ now <= clock /\ now \in Nat
      /\ kind \in Reminded /\ now \in DOMAIN DueKeys[kind]
  BY <1>1, WorkerTask DEF NoticeInv, GoodTick
<1>3. kind \in Phases /\ kind # "wakeup"
  BY <1>2 DEF Phases, Reminded
<1>4. "send" \in Holding /\ task[a].at \notin Holding
  BY <1>1 DEF Holding
<1> HIDE DEF kind, now, guard
<1> QED
  BY <1>1, <1>2, <1>3, <1>4, ClaimOfState, ClaimMove

\* The work of a claim, done, failed or handed back, keeps the invariant.
LEMMA EndMove ==
  ASSUME NoticeInv, NEW a \in Workers, UNCHANGED <<clock, allDone>>,
         task[a].at \in Holding, NEW step \in Holding \cup {"summary"},
         \/ Serve(a) /\ Rest(a)
         \/ Serve(a) /\ step = "summary" /\ Step(a, step)
         \/ Fails /\ step # "summary" /\ Step(a, step)
  PROVE  NoticeInv'
<1> USE DEF NoticeInv
<1>1. a \in Claimers /\ step \in Steps \ {"claim", "off", "idle"}
      /\ task[a].at \notin {"off", "idle"}
  BY WorkersAssumption DEF Holding, Steps
<1>2. "summary" \notin Holding
  BY DEF Holding
<1>3. CASE Serve(a)
  <2>1. GuildInv' /\ OthersKept(a) /\ claim'[a] = NoClaim
    BY <1>1, <1>3, ServeInv
  <2>2. ~Fails \/ UNCHANGED claim
    BY DEF Fails
  <2>3. CASE Rest(a)
    BY <2>1, <2>3, RestMove
  <2>4. CASE step = "summary" /\ Step(a, step)
    BY <2>1, <2>4, <1>1, <1>2, StepMove
  <2>5. CASE Fails /\ step # "summary" /\ Step(a, step)
    BY <2>1, <2>2, <2>5 DEF Holds
  <2> QED
    BY <2>3, <2>4, <2>5
<1>4. CASE Fails /\ step # "summary" /\ Step(a, step)
  <2>1. GuildInv' /\ OthersKept(a) /\ UNCHANGED claim
    BY <1>4, SameInv DEF OthersKept
  <2>2. claim[a] # NoClaim
    BY DEF Holds
  <2> QED
    BY <1>1, <1>4, <2>1, <2>2, StepMove
<1> QED
  BY <1>3, <1>4

LEMMA BedtimeInv ==
  ASSUME NoticeInv, NEW a \in Workers, Bedtime(a)
  PROVE  NoticeInv'
  BY EndMove DEF Bedtime, Holding

LEMMA CleanInv ==
  ASSUME NoticeInv, NEW a \in Workers, Clean(a)
  PROVE  NoticeInv'
  BY EndMove DEF Clean, Holding

LEMMA SendInv ==
  ASSUME NoticeInv, NEW a \in Workers, Send(a)
  PROVE  NoticeInv'
  BY EndMove DEF Send, Holding

LEMMA ReleaseInv ==
  ASSUME NoticeInv, NEW a \in Workers, Release(a)
  PROVE  NoticeInv'
  BY RollbackInv, RestMove, WorkersAssumption DEF Release, NoticeInv

LEMMA WorkerDiesInv ==
  ASSUME NoticeInv, NEW a \in Workers, WorkerDies(a)
  PROVE  NoticeInv'
  BY DiesInv, RestMove, WorkersAssumption DEF WorkerDies, NoticeInv

LEMMA SummaryInv ==
  ASSUME NoticeInv, NEW a \in Workers, Summary(a)
  PROVE  NoticeInv'
<1>1. /\ task[a].at = "summary" /\ UNCHANGED <<clock, guildVars, allDone>>
      /\ Step(a, "claimReport") \/ Rest(a)
  BY DEF Summary, Quietly
<1>2. claim[a] = NoClaim
  BY <1>1, NotWorking DEF Holding
<1>3. GuildInv' /\ UNCHANGED claim
  BY <1>1, SameInv DEF NoticeInv
<1>4. "claimReport" \in Steps \ {"claim", "off", "idle"}
      /\ "claimReport" \notin Holding
  BY DEF Steps, Holding
<1> QED
  BY <1>1, <1>2, <1>3, <1>4, RestMove, StepMove DEF OthersKept

\* What happens elsewhere keeps the invariant of the notices.
LEMMA TasksKept ==
  ASSUME NoticeInv, UNCHANGED task, allDone' \in Key, GuildInv',
         clock' >= clock, \A a \in Workers : claim'[a] = claim[a]
  PROVE  NoticeInv'
<1>1. clock \in Nat /\ clock' \in Nat /\ SlotsPerDay \in Nat
  BY DayAssumption DEF NoticeInv, GuildInv, GuildTypeOK
<1>2. ASSUME NEW a \in Workers
      PROVE  GoodTick(a, task[a])' /\ Holds(a, task[a].at, Holding)'
  <2>1. task[a].now \in Nat
    BY WorkerTask DEF NoticeInv
  <2> QED
    BY <1>1, <2>1 DEF NoticeInv, GoodTick, Holds
<1> QED
  BY <1>1, <1>2 DEF NoticeInv, NoticeTypeOK, GuildInv

LEMMA UsersFinishInv ==
  ASSUME NoticeInv, UsersFinish
  PROVE  NoticeInv'
<1>1. UNCHANGED <<clock, guildVars, task>>
  BY DEF UsersFinish
<1>2. allDone' \in Key
  BY PosDay DEF UsersFinish, NoticeInv, GuildInv, GuildTypeOK, Key
<1>3. GuildInv' /\ UNCHANGED claim
  BY <1>1, SameInv DEF NoticeInv
<1>4. clock' >= clock
  BY <1>1 DEF NoticeInv, NoticeTypeOK, GuildTypeOK
<1> QED
  BY <1>1, <1>2, <1>3, <1>4, TasksKept

\* Every step of the notices keeps their invariant.
LEMMA NoticeNextInv ==
  ASSUME NoticeInv, NoticeNext
  PROVE  NoticeInv'
  BY UsersFinishInv, TickBeginInv, SweepScanInv, SweepClaimInv, BedtimeInv,
     CleanInv, ReportScanInv, SummaryInv, ClaimReportInv, RemindScanInv,
     RemindClaimInv, SendInv, ReleaseInv, WorkerDiesInv
     DEF NoticeNext, WorkerStep

-----------------------------------------------------------------------------
\* The raid documents and the weekly job. Where a job holds a claim.
JobHolding == {"send", "release"}

\* A job works on documents that exist.
GoodJob(r) ==
  r.todo \subseteq DOMAIN doc /\ (r.at = "save" => r.user \in DOMAIN doc)

\* The invariant of the weekly reset.
WeekInv ==
  /\ WeekTypeOK /\ GuildInv
  /\ \A j \in Jobs : /\ GoodJob(job[j])
                     /\ Holds(j, job[j].at, JobHolding)
  /\ \A x \in Writers :
       writer[x].at # "off" => writer[x].task.user \in DOMAIN doc

\* Weeks and week starts are natural numbers.
LEMMA WeekType ==
  ASSUME NEW t \in Nat
  PROVE  Week(t) \in Nat /\ WeekStart(t) \in Nat /\ StartOf(Week(t)) \in Nat
         /\ WeekStart(t) <= t
  BY WeekAssumption DEF Week, WeekStart, StartOf

LEMMA AnyModeType == AnyMode \in Modes
  BY ModeAssumption DEF AnyMode

LEMMA EmptyDocType == EmptyDoc \in Doc
  BY AnyModeType DEF EmptyDoc, Doc, Never

\* What a writer does to a document leaves a document.
LEMMA RollType ==
  ASSUME NEW d \in Doc, NEW start \in Nat
  PROVE  Roll(d, start) \in Doc /\ Roll(d, start).week = d.week
  BY DEF Roll, Doc, Never

LEMMA FreshType ==
  ASSUME NEW d \in Doc, NEW t \in Nat
  PROVE  Fresh(d, t) \in Doc /\ Fresh(d, t).week = Week(t)
<1>1. Roll(d, WeekStart(t)) \in Doc /\ Week(t) \in Nat
  BY RollType, WeekType
<1> HIDE DEF Week
<1> QED
  BY <1>1 DEF Fresh, Doc

LEMMA InModeType ==
  ASSUME NEW d \in Doc, NEW m \in Modes
  PROVE  InMode(d, m) \in Doc
  BY DEF InMode, Doc, Never

LEMMA StampType ==
  ASSUME NEW d \in Doc, NEW gates, NEW at \in Nat, NEW of \in Nat
  PROVE  Stamp(d, gates, at, of) \in Doc
  BY DEF Stamp, Doc

LEMMA MarkType ==
  ASSUME NEW d \in Doc, NEW m \in Modes, NEW gates, NEW at \in Nat, NEW of \in Nat
  PROVE  Mark(d, m, gates, at, of) \in Doc
  BY InModeType, StampType DEF Mark

LEMMA ChooseModeType ==
  ASSUME NEW d \in Doc, NEW m \in Modes
  PROVE  ChooseMode(d, m) \in Doc
<1>1. InMode(d, m) \in Doc
  BY InModeType
<1> QED
  BY <1>1 DEF ChooseMode, Doc

LEMMA ReconcileType ==
  ASSUME NEW d \in Doc, NEW l \in Fight
  PROVE  Reconcile(d, l) \in Doc
  BY InModeType, StampType DEF Reconcile, Fight, Never

LEMMA ChangeType ==
  ASSUME NEW k \in Tasks, NEW d \in Doc, clock \in Nat
  PROVE  Change(k, d) \in Doc
<1>1. k.mode \in Modes /\ Never \in Nat
  BY DEF Tasks, Never
<1>2. ChooseGold(d, clock) \in Doc
  BY DEF ChooseGold, Doc
<1> QED
  BY <1>1, <1>2, MarkType, StampType, ChooseModeType DEF Change, Unmark

\* Documents, writers and jobs by their fields.
LEMMA RecordTypes ==
  ASSUME WeekTypeOK
  PROVE  /\ \A x \in Writers : writer[x] \in Writer /\ writer[x].task \in Tasks
         /\ \A j \in Jobs : job[j] \in Job /\ j \in Claimers
         /\ \A u \in DOMAIN doc : doc[u] \in Doc /\ u \in Users
         /\ clock \in Nat
  BY JobsAssumption DEF WeekTypeOK, Writer, GuildTypeOK

LEMMA IdleWriterType ==
  ASSUME NEW k \in Tasks
  PROVE  /\ IdleWriter(k) \in Writer /\ IdleWriter(k).task = k
         /\ [IdleWriter(k) EXCEPT !.at = "off"] \in Writer
         /\ [IdleWriter(k) EXCEPT !.at = "off"].at = "off"
  BY EmptyDocType DEF IdleWriter, Writer

LEMMA IdleJobType ==
  /\ IdleJob \in Job /\ IdleJob.at = "idle" /\ IdleJob.todo = {}
  /\ [IdleJob EXCEPT !.at = "off"] \in Job
  BY EmptyDocType DEF IdleJob, Job

\* What happens elsewhere keeps the invariant of the weekly reset.
LEMMA DocsKept ==
  ASSUME WeekInv, GuildInv', UNCHANGED weekVars, \A j \in Jobs : claim'[j] = claim[j]
  PROVE  WeekInv'
  BY DEF WeekInv, WeekTypeOK, weekVars, GuildInv, Holds, GoodJob

\* A step of one writer that stores nothing keeps the invariant.
LEMMA WriterMove ==
  ASSUME WeekInv, NEW x \in Writers, NEW w \in Writer,
         writer' = [writer EXCEPT ![x] = w], UNCHANGED <<clock, guildVars, doc, job>>,
         \/ w.at = "off"
         \/ w.task.user = writer[x].task.user /\ writer[x].at # "off"
  PROVE  WeekInv'
<1>1. GuildInv' /\ UNCHANGED claim
  BY SameInv DEF WeekInv
<1>2. writer' \in [Writers -> Writer]
  BY DEF WeekInv, WeekTypeOK
<1>3. ASSUME NEW y \in Writers, writer'[y].at # "off"
      PROVE  writer'[y].task.user \in DOMAIN doc
  BY <1>3 DEF WeekInv, WeekTypeOK
<1> QED
  BY <1>1, <1>2, <1>3 DEF WeekInv, WeekTypeOK, GuildInv, Holds, GoodJob

\* A writer that gives up keeps it.
LEMMA DoneMove ==
  ASSUME WeekInv, NEW x \in Writers, Done(x),
         UNCHANGED <<clock, guildVars, doc, job>>
  PROVE  WeekInv'
<1> DEFINE w == [IdleWriter(writer[x].task) EXCEPT !.at = "off"]
<1>1. writer[x].task \in Tasks
  BY RecordTypes DEF WeekInv
<1>2. w \in Writer /\ w.at = "off"
  BY <1>1, IdleWriterType
<1>3. writer' = [writer EXCEPT ![x] = w]
  BY DEF Done, WriterTask
<1> HIDE DEF w
<1> QED
  BY <1>2, <1>3, WriterMove

\* What a scan may find is a set of fights.
LEMMA LogsType ==
  ASSUME NEW t \in Nat, t >= 1, NEW logs \in Logs(t)
  PROVE  logs \in SUBSET Fight
  BY DEF Logs, Fight, Never

LEMMA GatherInv ==
  ASSUME WeekInv, NEW x \in Writers, Gather(x)
  PROVE  WeekInv'
<1>1. UNCHANGED <<clock, guildVars, doc, job>> /\ writer[x].at # "off"
  BY DEF Gather
<1>2. clock \in Nat /\ clock >= 1
  BY DayAssumption DEF WeekInv, GuildInv, GuildTypeOK
<1>3. writer[x] \in Writer
  BY RecordTypes DEF WeekInv
<1>4. ASSUME NEW step \in {"gather", "load"}, FixWeek(x, step)
      PROVE  WeekInv'
  <2> DEFINE w == [writer[x] EXCEPT !.at = step, !.since = WeekStart(clock)]
  <2>1. w \in Writer /\ w.task = writer[x].task
    BY <1>2, <1>3, WeekType DEF Writer
  <2>2. writer' = [writer EXCEPT ![x] = w]
    BY <1>4 DEF FixWeek, WeekInv, WeekTypeOK
  <2> HIDE DEF w
  <2> QED
    BY <1>1, <2>1, <2>2, WriterMove
<1>5. ASSUME NEW step \in {"gather", "load"}, Scan(x, step)
      PROVE  WeekInv'
  <2>1. PICK logs \in Logs(clock) :
          writer' = [writer EXCEPT ![x].at = step, ![x].logs = logs]
    BY <1>5 DEF Scan
  <2> DEFINE w == [writer[x] EXCEPT !.at = step, !.logs = logs]
  <2>2. w \in Writer /\ w.task = writer[x].task
    BY <1>2, <1>3, LogsType DEF Writer
  <2>3. writer' = [writer EXCEPT ![x] = w]
    BY <2>1 DEF WeekInv, WeekTypeOK
  <2> HIDE DEF w
  <2> QED
    BY <1>1, <2>2, <2>3, WriterMove
<1> QED
  BY <1>4, <1>5 DEF Gather

\* What is to be applied is part of what was read.
LEMMA ItemsType ==
  ASSUME NEW x \in Writers, writer[x] \in Writer, NEW d
  PROVE  Items(x, d) \subseteq writer[x].logs
  BY DEF Items, Buckets

LEMMA LoadInv ==
  ASSUME WeekInv, NEW x \in Writers, Load(x)
  PROVE  WeekInv'
<1> DEFINE k == writer[x].task
           stored == doc[k.user]
           d == Fresh(stored, clock)
           draft == Change(k, d)
           w == [writer[x] EXCEPT !.at = "apply",
                 !.now = clock, !.draft = draft, !.valid = TRUE,
                 !.left = Items(x, d),
                 !.dirty = \/ draft # d
                           \/ k.kind = "logs"
                           \/ k.kind = "mode" /\ draft # stored]
<1>1. UNCHANGED <<clock, guildVars, doc, job>> /\ writer[x].at = "load"
  BY DEF Load
<1>2. CASE Done(x)
  BY <1>1, <1>2, DoneMove
<1>3. CASE ~Done(x)
  <2>1. writer' = [writer EXCEPT ![x] = w]
    BY <1>3 DEF Load, WriterTask, WeekInv, WeekTypeOK
  <2>2. writer[x] \in Writer /\ k \in Tasks /\ clock \in Nat
    BY RecordTypes DEF WeekInv
  <2>3. stored \in Doc
    BY <1>1, RecordTypes DEF WeekInv
  <2>4. draft \in Doc
    BY <2>2, <2>3, FreshType, ChangeType
  <2>5. Items(x, d) \subseteq Fight
    BY <2>2, ItemsType DEF Writer
  <2>6. w \in Writer /\ w.task = k
    <3> HIDE DEF draft, d, stored
    <3> QED BY <2>2, <2>4, <2>5 DEF Writer
  <2> HIDE DEF w
  <2> QED
    BY <1>1, <2>1, <2>6, WriterMove
<1> QED
  BY <1>2, <1>3

LEMMA ApplyInv ==
  ASSUME WeekInv, NEW x \in Writers, Apply(x)
  PROVE  WeekInv'
<1>1. UNCHANGED <<clock, guildVars, doc, job>> /\ writer[x].at = "apply"
  BY DEF Apply
<1>2. PICK l \in writer[x].left :
        writer' = [writer EXCEPT
          ![x].draft = IF writer[x].task.kind = "logs"
                         THEN Reconcile(writer[x].draft, l)
                         ELSE Mark(writer[x].draft, l.mode, 1..l.gate,
                                   writer[x].now, l.at),
          ![x].left = @ \ {l},
          ![x].dirty = @ \/ (IF writer[x].task.kind = "logs"
                         THEN Reconcile(writer[x].draft, l)
                         ELSE Mark(writer[x].draft, l.mode, 1..l.gate,
                                   writer[x].now, l.at)) # writer[x].draft]
  BY DEF Apply
<1> DEFINE d == IF writer[x].task.kind = "logs"
                  THEN Reconcile(writer[x].draft, l)
                  ELSE Mark(writer[x].draft, l.mode, 1..l.gate,
                            writer[x].now, l.at)
           w == [writer[x] EXCEPT !.draft = d, !.left = @ \ {l},
                                  !.dirty = @ \/ d # writer[x].draft]
<1>3. writer[x] \in Writer
  BY RecordTypes DEF WeekInv
<1>4. l \in Fight /\ writer[x].draft \in Doc /\ writer[x].now \in Nat
  BY <1>3 DEF Writer
<1>5. d \in Doc
  BY <1>4, ReconcileType, MarkType DEF Fight
<1>6. writer' = [writer EXCEPT ![x] = w]
  BY <1>2 DEF WeekInv, WeekTypeOK
<1>7. w \in Writer /\ w.task = writer[x].task
  <2> HIDE DEF d
  <2> QED BY <1>3, <1>5 DEF Writer
<1> HIDE DEF w
<1> QED
  BY <1>1, <1>6, <1>7, WriterMove

\* A save that voids the other copies keeps the invariant.
LEMMA SavedMove ==
  ASSUME WeekInv, NEW u \in DOMAIN doc, NEW d \in Doc, Stored(u, d),
         UNCHANGED <<clock, guildVars>>,
         writer' \in [Writers -> Writer], job' \in [Jobs -> Job],
         \A x \in Writers : /\ writer'[x].task = writer[x].task
                            /\ writer'[x].at \in {writer[x].at, "off"},
         \A j \in Jobs : /\ GoodJob(job'[j])
                         /\ job'[j].at \in JobHolding <=> job[j].at \in JobHolding
  PROVE  WeekInv'
<1>1. GuildInv' /\ UNCHANGED claim
  BY SameInv DEF WeekInv
<1>2. DOMAIN doc' = DOMAIN doc /\ doc' \in [DOMAIN doc -> Doc]
  BY DEF Stored, WeekInv, WeekTypeOK
<1> QED
  BY <1>1, <1>2 DEF WeekInv, WeekTypeOK, GuildInv, Holds, GoodJob

\* A voided copy keeps its type, its place and its user.
LEMMA VoidTypes ==
  ASSUME WeekInv, NEW u
  PROVE  /\ VoidWriters(u) \in [Writers -> Writer]
         /\ \A x \in Writers : /\ VoidWriters(u)[x].task = writer[x].task
                               /\ VoidWriters(u)[x].at = writer[x].at
         /\ VoidJobs(u) \in [Jobs -> Job]
         /\ \A j \in Jobs : /\ VoidJobs(u)[j].todo = job[j].todo
                            /\ VoidJobs(u)[j].at = job[j].at
                            /\ VoidJobs(u)[j].user = job[j].user
<1>1. ASSUME NEW x \in Writers
      PROVE  /\ VoidWriters(u)[x] \in Writer
             /\ VoidWriters(u)[x].task = writer[x].task
             /\ VoidWriters(u)[x].at = writer[x].at
  <2>1. writer[x] \in Writer
    BY RecordTypes DEF WeekInv
  <2> QED
    BY <2>1 DEF VoidWriters, Writer
<1>2. ASSUME NEW j \in Jobs
      PROVE  /\ VoidJobs(u)[j] \in Job /\ VoidJobs(u)[j].todo = job[j].todo
             /\ VoidJobs(u)[j].at = job[j].at
             /\ VoidJobs(u)[j].user = job[j].user
  <2>1. job[j] \in Job
    BY RecordTypes DEF WeekInv
  <2> QED
    BY <2>1 DEF VoidJobs, Job
<1> QED
  BY <1>1, <1>2 DEF VoidWriters, VoidJobs

LEMMA SaveInv ==
  ASSUME WeekInv, NEW x \in Writers, Save(x)
  PROVE  WeekInv'
<1> DEFINE k == writer[x].task
           off == [IdleWriter(k) EXCEPT !.at = "off"]
<1>1. UNCHANGED <<clock, guildVars>> /\ writer[x].at = "apply"
  BY DEF Save
<1>2. k \in Tasks /\ writer[x].draft \in Doc /\ k.user \in DOMAIN doc
      /\ writer[x] \in Writer
  BY <1>1, RecordTypes DEF WeekInv, Writer
<1>3. /\ off \in Writer /\ off.task = k /\ off.at = "off"
      /\ IdleWriter(k) \in Writer /\ IdleWriter(k).task = k
  BY <1>2, IdleWriterType DEF IdleWriter
<1>4. CASE /\ Stored(k.user, writer[x].draft) /\ job' = VoidJobs(k.user)
           /\ writer' = [VoidWriters(k.user) EXCEPT ![x] = off]
  <2> HIDE DEF off
  <2>1. writer' \in [Writers -> Writer] /\ job' \in [Jobs -> Job]
    BY <1>3, <1>4, VoidTypes
  <2>2. \A y \in Writers : writer'[y].task = writer[y].task
                           /\ writer'[y].at \in {writer[y].at, "off"}
    BY <1>3, <1>4, VoidTypes
  <2>3. \A j \in Jobs : GoodJob(job'[j]) /\ job'[j].at = job[j].at
    BY <1>4, VoidTypes DEF WeekInv, GoodJob
  <2> QED
    BY <1>1, <1>2, <1>4, <2>1, <2>2, <2>3, SavedMove
<1>5. CASE Done(x) /\ UNCHANGED <<doc, job>>
  BY <1>1, <1>5, DoneMove
<1>6. CASE /\ writer' = [writer EXCEPT ![x] =
                [IdleWriter(k) EXCEPT !.at = "load",
                   !.since = writer[x].since, !.logs = writer[x].logs]]
           /\ UNCHANGED <<doc, job>>
  <2> DEFINE w == [IdleWriter(k) EXCEPT !.at = "load",
                     !.since = writer[x].since, !.logs = writer[x].logs]
  <2>1. w \in Writer /\ w.task = k
    BY <1>2, <1>3 DEF Writer
  <2> HIDE DEF w
  <2> QED
    BY <1>1, <1>6, <2>1, WriterMove DEF w
<1> QED
  BY <1>4, <1>5, <1>6 DEF Save, WriterTask

\* A step of one job that stores nothing keeps the invariant.
LEMMA JobMove ==
  ASSUME WeekInv, NEW j \in Jobs, NEW r \in Job, job' = [job EXCEPT ![j] = r],
         UNCHANGED <<clock, doc, writer>>, GuildInv', OthersKept(j),
         GoodJob(r), r.at \in JobHolding <=> claim'[j] # NoClaim
  PROVE  WeekInv'
<1>1. ASSUME NEW i \in Jobs
      PROVE  GoodJob(job[i])' /\ Holds(i, job[i].at, JobHolding)'
  <2>1. CASE i = j
    BY <2>1 DEF WeekInv, WeekTypeOK, Holds, GoodJob
  <2>2. CASE i # j
    BY <2>2, JobsAssumption DEF WeekInv, WeekTypeOK, Holds, OthersKept, GoodJob
  <2> QED
    BY <2>1, <2>2
<1> QED
  BY <1>1 DEF WeekInv, WeekTypeOK, GuildInv

LEMMA JobAtMove ==
  ASSUME WeekInv, NEW j \in Jobs, NEW step \in {"scan", "claim", "send", "release"},
         JobAt(j, step), UNCHANGED <<clock, doc, writer>>, GuildInv',
         OthersKept(j), step \in JobHolding <=> claim'[j] # NoClaim
  PROVE  WeekInv'
<1> DEFINE r == [job[j] EXCEPT !.at = step]
<1>1. job[j] \in Job
  BY RecordTypes DEF WeekInv
<1>2. r \in Job /\ r.at = step /\ r.todo = job[j].todo
  BY <1>1 DEF Job
<1>3. job' = [job EXCEPT ![j] = r]
  BY DEF JobAt, WeekInv, WeekTypeOK
<1> HIDE DEF r
<1> QED
  BY <1>2, <1>3, JobMove DEF WeekInv, GoodJob

LEMMA JobRestsMove ==
  ASSUME WeekInv, NEW j \in Jobs, JobRests(j), UNCHANGED <<clock, doc, writer>>,
         GuildInv', OthersKept(j), claim'[j] = NoClaim
  PROVE  WeekInv'
  BY IdleJobType, JobMove DEF JobRests, JobHolding, GoodJob

\* Without an announcement on its way a job holds no claim.
LEMMA JobNotWorking ==
  ASSUME WeekInv, NEW j \in Jobs, job[j].at \notin JobHolding
  PROVE  claim[j] = NoClaim
  BY DEF WeekInv, Holds

LEMMA JobBeginInv ==
  ASSUME WeekInv, NEW j \in Jobs, JobBegin(j)
  PROVE  WeekInv'
<1> DEFINE r == [job[j] EXCEPT !.at = "find", !.now = clock]
<1>1. UNCHANGED <<clock, guildVars, doc, writer>> /\ job[j].at = "idle"
  BY DEF JobBegin
<1>2. job[j] \in Job /\ clock \in Nat
  BY RecordTypes DEF WeekInv
<1>3. r \in Job /\ r.at = "find" /\ r.todo = job[j].todo
  BY <1>2 DEF Job
<1>4. job' = [job EXCEPT ![j] = r]
  BY DEF JobBegin, WeekInv, WeekTypeOK
<1>5. GuildInv' /\ UNCHANGED claim
  BY <1>1, SameInv DEF WeekInv
<1>6. claim[j] = NoClaim
  BY <1>1, JobNotWorking DEF JobHolding
<1> HIDE DEF r
<1> QED
  BY <1>1, <1>3, <1>4, <1>5, <1>6, JobMove
     DEF WeekInv, OthersKept, JobHolding, GoodJob

LEMMA JobFindInv ==
  ASSUME WeekInv, NEW j \in Jobs, JobFind(j)
  PROVE  WeekInv'
<1> DEFINE todo == {u \in DOMAIN doc : Stale(u, job[j].now)}
           r == [job[j] EXCEPT !.at = "next", !.todo = todo]
<1>1. /\ UNCHANGED <<clock, doc, writer>> /\ job[j].at = "find"
      /\ UNCHANGED guildVars \/ Fails
      /\ job' = [job EXCEPT ![j].at = "next", ![j].todo = todo] \/ JobRests(j)
  BY DEF JobFind
<1>2. job[j] \in Job /\ todo \subseteq DOMAIN doc /\ todo \subseteq Users
  BY RecordTypes DEF WeekInv
<1>3. r \in Job /\ r.at = "next" /\ r.todo = todo
  <2> HIDE DEF todo
  <2> QED BY <1>2 DEF Job
<1>4. GuildInv' /\ UNCHANGED claim
  BY <1>1, SameInv DEF WeekInv
<1>5. claim[j] = NoClaim
  BY <1>1, JobNotWorking DEF JobHolding
<1>6. JobRests(j) \/ job' = [job EXCEPT ![j] = r]
  BY <1>1 DEF WeekInv, WeekTypeOK
<1> HIDE DEF r
<1> QED
  BY <1>1, <1>2, <1>3, <1>4, <1>5, <1>6, JobMove, JobRestsMove
     DEF OthersKept, JobHolding, GoodJob

LEMMA JobLoadInv ==
  ASSUME WeekInv, NEW j \in Jobs, JobLoad(j)
  PROVE  WeekInv'
<1>1. /\ UNCHANGED <<clock, doc, writer>> /\ job[j].at = "next"
      /\ UNCHANGED guildVars \/ Fails
  BY DEF JobLoad
<1>2. PICK u \in job[j].todo :
        \/ job' = [job EXCEPT ![j].todo = @ \ {u}]
        \/ job' = [job EXCEPT ![j].at = "save", ![j].user = u,
                     ![j].draft = Fresh(doc[u], job[j].now), ![j].valid = TRUE]
  BY DEF JobLoad
<1> DEFINE f == Fresh(doc[u], job[j].now)
           q == [job[j] EXCEPT !.todo = @ \ {u}]
           r == [job[j] EXCEPT !.at = "save", !.user = u, !.draft = f,
                               !.valid = TRUE]
<1>3. job[j] \in Job /\ u \in DOMAIN doc /\ u \in Users /\ doc[u] \in Doc
      /\ job[j].now \in Nat
  BY RecordTypes DEF WeekInv, Job, GoodJob
<1>4. f \in Doc
  BY <1>3, FreshType
<1>5. q \in Job /\ q.at = "next" /\ q.todo \subseteq job[j].todo
  BY <1>1, <1>3 DEF Job
<1>6. r \in Job /\ r.at = "save" /\ r.todo = job[j].todo /\ r.user = u
  <2> HIDE DEF f
  <2> QED BY <1>3, <1>4 DEF Job
<1>7. GuildInv' /\ UNCHANGED claim
  BY <1>1, SameInv DEF WeekInv
<1>8. claim[j] = NoClaim
  BY <1>1, JobNotWorking DEF JobHolding
<1>9. job' = [job EXCEPT ![j] = q] \/ job' = [job EXCEPT ![j] = r]
  BY <1>2 DEF WeekInv, WeekTypeOK
<1>10. job[j].todo \subseteq DOMAIN doc
  BY DEF WeekInv, GoodJob
<1> HIDE DEF f, q, r
<1> QED
  BY <1>1, <1>5, <1>6, <1>7, <1>8, <1>9, <1>10, JobMove
     DEF OthersKept, JobHolding, GoodJob

LEMMA JobSaveInv ==
  ASSUME WeekInv, NEW j \in Jobs, JobSave(j)
  PROVE  WeekInv'
<1> DEFINE u == job[j].user
           next(todo, modified) ==
             [job[j] EXCEPT !.at = "next", !.todo = todo, !.user = NoUser,
                !.draft = EmptyDoc, !.valid = FALSE, !.modified = modified]
<1>1. UNCHANGED <<clock, guildVars>> /\ job[j].at = "save"
  BY DEF JobSave
<1>2. job[j] \in Job /\ job[j].todo \subseteq DOMAIN doc /\ u \in DOMAIN doc
  BY <1>1, RecordTypes DEF WeekInv, GoodJob
<1>3. ASSUME NEW todo \in SUBSET job[j].todo, NEW m \in BOOLEAN
      PROVE  /\ next(todo, m) \in Job /\ next(todo, m).at = "next"
             /\ next(todo, m).todo = todo
  BY <1>2, EmptyDocType DEF Job
<1>4. CASE /\ job[j].valid /\ Stored(u, job[j].draft)
           /\ writer' = VoidWriters(u)
           /\ job' = [VoidJobs(u) EXCEPT ![j] = next(job[j].todo \ {u}, TRUE)]
  <2> DEFINE r == next(job[j].todo \ {u}, TRUE)
  <2>1. r \in Job /\ r.at = "next" /\ r.todo \subseteq job[j].todo
    BY <1>3
  <2>6. job' = [VoidJobs(u) EXCEPT ![j] = r] /\ writer' = VoidWriters(u)
    BY <1>4
  <2> HIDE DEF r, next
  <2>2. writer' \in [Writers -> Writer] /\ job' \in [Jobs -> Job]
    BY <2>6, <2>1, VoidTypes
  <2>3. \A x \in Writers :
          writer'[x].task = writer[x].task /\ writer'[x].at = writer[x].at
    BY <1>4, VoidTypes
  <2>4. ASSUME NEW i \in Jobs
        PROVE  /\ GoodJob(job'[i])
               /\ job'[i].at \in JobHolding <=> job[i].at \in JobHolding
    <3>1. CASE i = j
      BY <1>1, <1>2, <2>6, <2>1, <3>1, VoidTypes DEF GoodJob, JobHolding
    <3>2. CASE i # j
      BY <1>4, <3>2, VoidTypes DEF GoodJob, WeekInv
    <3> QED
      BY <3>1, <3>2
  <2>5. job[j].draft \in Doc
    BY <1>2 DEF Job
  <2> QED
    BY <1>1, <1>2, <1>4, <2>2, <2>3, <2>4, <2>5, SavedMove
<1>5. CASE /\ ~job[j].valid
           /\ \E todo \in {job[j].todo, job[j].todo \ {u}} :
                job' = [job EXCEPT ![j] = next(todo, job[j].modified)]
           /\ UNCHANGED <<doc, writer>>
  <2>1. PICK todo \in {job[j].todo, job[j].todo \ {u}} :
          job' = [job EXCEPT ![j] = next(todo, job[j].modified)]
    BY <1>5
  <2>2. GuildInv' /\ UNCHANGED claim
    BY <1>1, SameInv DEF WeekInv
  <2>3. claim[j] = NoClaim
    BY <1>1, JobNotWorking DEF JobHolding
  <2>4. todo \subseteq job[j].todo /\ job[j].modified \in BOOLEAN
    BY <1>2 DEF Job
  <2>5. /\ next(todo, job[j].modified) \in Job
        /\ next(todo, job[j].modified).at = "next"
        /\ next(todo, job[j].modified).todo = todo
    BY <1>3, <2>4
  <2> HIDE DEF next
  <2> QED
    BY <1>1, <1>2, <1>5, <2>1, <2>2, <2>3, <2>4, <2>5, JobMove
       DEF OthersKept, JobHolding, GoodJob
<1> QED
  BY <1>4, <1>5 DEF JobSave

LEMMA JobCheckInv ==
  ASSUME WeekInv, NEW j \in Jobs, JobCheck(j)
  PROVE  WeekInv'
<1>1. /\ UNCHANGED <<clock, guildVars, doc, writer>> /\ job[j].at = "next"
      /\ JobAt(j, "scan") \/ JobRests(j)
  BY DEF JobCheck
<1>2. GuildInv' /\ UNCHANGED claim /\ claim[j] = NoClaim
  BY <1>1, SameInv, JobNotWorking DEF WeekInv, JobHolding
<1> QED
  BY <1>1, <1>2, JobAtMove, JobRestsMove DEF OthersKept, JobHolding

LEMMA JobScanInv ==
  ASSUME WeekInv, NEW j \in Jobs, JobScan(j)
  PROVE  WeekInv'
<1> DEFINE r == [job[j] EXCEPT !.at = "claim", !.channel = config.channel,
                               !.to = config.to["weekly"]]
<1>1. /\ UNCHANGED <<clock, doc, writer>> /\ job[j].at = "scan"
      /\ UNCHANGED guildVars \/ Fails
      /\ \/ JobRests(j)
         \/ job' = [job EXCEPT ![j].at = "claim",
              ![j].channel = config.channel, ![j].to = config.to["weekly"]]
  BY DEF JobScan
<1>2. GuildInv' /\ UNCHANGED claim /\ claim[j] = NoClaim
  BY <1>1, SameInv, JobNotWorking DEF WeekInv, JobHolding
<1>3. job[j] \in Job /\ config.channel \in Channels \cup {NoChannel}
      /\ config.to["weekly"] \in Channels \cup {NoChannel}
  BY RecordTypes DEF WeekInv, GuildInv, GuildTypeOK, Config, Reports
<1>4. r \in Job /\ r.at = "claim" /\ r.todo = job[j].todo
  BY <1>3 DEF Job
<1>5. JobRests(j) \/ job' = [job EXCEPT ![j] = r]
  BY <1>1 DEF WeekInv, WeekTypeOK
<1> HIDE DEF r
<1> QED
  BY <1>1, <1>2, <1>4, <1>5, JobMove, JobRestsMove
     DEF OthersKept, JobHolding, GoodJob, WeekInv

\* The week a job claims.
LEMMA WeeklyState ==
  ASSUME NEW t \in Nat
  PROVE  /\ [f \in {"weekly"} |-> Week(t)] \in ClaimSets
         /\ StateShape([f \in {"weekly"} |-> Week(t)])
         /\ "cleanup" \notin DOMAIN [f \in {"weekly"} |-> Week(t)]
<1>1. {"weekly"} \in SUBSET Fields /\ Week(t) \in Nat
  BY CleanupIsField, WeekType
<1>2. [f \in {"weekly"} |-> Week(t)] \in [{"weekly"} -> Nat]
  BY <1>1
<1>3. "weekly" \in Fields \ {"wakeup"}
  BY CleanupIsField
<1> QED
  BY <1>1, <1>2, <1>3 DEF ClaimSets, StateShape

LEMMA JobClaimInv ==
  ASSUME WeekInv, NEW j \in Jobs, JobClaim(j)
  PROVE  WeekInv'
<1> DEFINE s == [f \in {"weekly"} |-> Week(job[j].now)]
           guard == /\ keys["weekly"] # Week(job[j].now)
                    /\ config.on["weekly"]
                    /\ config.channel = job[j].channel
                    /\ config.to["weekly"] = job[j].to
<1>1. /\ UNCHANGED <<clock, doc, writer>> /\ job[j].at = "claim"
      /\ Claims(j, guard, s) \/ Fails
      /\ IF claim'[j] # NoClaim THEN JobAt(j, "send") ELSE JobRests(j)
  BY DEF JobClaim
<1>2. j \in Claimers /\ job[j].now \in Nat
  BY RecordTypes DEF WeekInv, Job
<1>3. s \in ClaimSets /\ StateShape(s) /\ "cleanup" \notin DOMAIN s
  BY <1>2, WeeklyState
<1> HIDE DEF s, guard
<1>4. GuildInv' /\ OthersKept(j)
  BY <1>1, <1>2, <1>3, ClaimsInv, SameInv DEF WeekInv, OthersKept
<1> QED
  BY <1>1, <1>4, JobAtMove, JobRestsMove DEF JobHolding

LEMMA JobSendInv ==
  ASSUME WeekInv, NEW j \in Jobs, JobSend(j)
  PROVE  WeekInv'
<1>1. UNCHANGED <<clock, doc, writer>> /\ job[j].at = "send" /\ j \in Claimers
  BY JobsAssumption DEF JobSend
<1>2. CASE Serve(j) /\ JobRests(j)
  BY <1>1, <1>2, ServeInv, JobRestsMove DEF WeekInv
<1>3. CASE Fails /\ JobAt(j, "release")
  <2>1. claim[j] # NoClaim
    BY <1>1 DEF WeekInv, Holds, JobHolding
  <2> QED
    BY <1>1, <1>3, <2>1, SameInv, JobAtMove DEF WeekInv, OthersKept, JobHolding
<1> QED
  BY <1>2, <1>3 DEF JobSend

LEMMA JobReleaseInv ==
  ASSUME WeekInv, NEW j \in Jobs, JobRelease(j)
  PROVE  WeekInv'
  BY RollbackInv, JobRestsMove, JobsAssumption DEF JobRelease, WeekInv

LEMMA JobDiesInv ==
  ASSUME WeekInv, NEW j \in Jobs, JobDies(j)
  PROVE  WeekInv'
  BY DiesInv, JobRestsMove, JobsAssumption DEF JobDies, WeekInv

\* Every step of the weekly reset keeps its invariant.
LEMMA WeekNextInv ==
  ASSUME WeekInv, WeekNext
  PROVE  WeekInv'
  BY GatherInv, LoadInv, ApplyInv, SaveInv, JobBeginInv, JobFindInv, JobLoadInv,
     JobSaveInv, JobCheckInv, JobScanInv, JobClaimInv, JobSendInv,
     JobReleaseInv, JobDiesInv DEF WeekNext, JobStep

-----------------------------------------------------------------------------
\* What all of them do to the config. A claim is for keys that do not stand in
\* the config; only a morning may find the cleanup of its slot done.
NewKeys(s) ==
  \A f \in DOMAIN s :
    keys[f] = s[f] => /\ f = "cleanup" /\ "wakeup" \in DOMAIN s
                      /\ keys["wakeup"] # s["wakeup"]

\* Whoever is about to clean up by day knows that the morning of the day has
\* been said.
MorningKnown(t) ==
  Awake(t) /\ "cleanup" \notin reopened => keys["wakeup"] >= Day(t)

SweepersKnow ==
  \A a \in Sweepers :
    task[a].at = "claim" /\ task[a].phase = "cleanup" => MorningKnown(task[a].now)

\* A guarded claim that its guard lets pass.
Takes(a, s) ==
  /\ claim[a] = NoClaim /\ StateShape(s) /\ NewKeys(s)
  /\ "cleanup" \in DOMAIN s => s["cleanup"] <= clock
  /\ SweepersKnow /\ DOMAIN s = {"cleanup"} => MorningKnown(s["cleanup"])
  /\ Claims(a, TRUE, s)

\* A step of a scheduler or of a weekly job, as the config sees it.
GuildStep(a) ==
  \/ UNCHANGED guildVars \/ Fails
  \/ \E s \in ClaimSets : Takes(a, s)
  \/ Serve(a) \/ Rollback(a) \/ Dies(a)

\* A guarded update is such a step.
LEMMA ClaimsTakes ==
  ASSUME NEW a, NEW guard, NEW s \in ClaimSets, claim[a] = NoClaim,
         StateShape(s), guard => NewKeys(s),
         "cleanup" \in DOMAIN s => s["cleanup"] <= clock,
         SweepersKnow /\ DOMAIN s = {"cleanup"} => MorningKnown(s["cleanup"]),
         Claims(a, guard, s) \/ Fails
  PROVE  GuildStep(a)
<1>1. Claims(a, guard, s) => UNCHANGED guildVars \/ (guard /\ Claims(a, TRUE, s))
  BY DEF Claims
<1> QED
  BY <1>1 DEF GuildStep, Takes

\* The fields and keys of a claim.
LEMMA ClaimOfIs ==
  ASSUME NEW phase \in Phases, NEW t \in Nat
  PROVE  /\ phase # "wakeup" => DOMAIN ClaimOf(phase, t) = {phase}
         /\ DOMAIN ClaimOf("wakeup", t) = {"wakeup", "cleanup"}
         /\ ClaimOf(phase, t)[phase] = KeyOf(phase, t)
         /\ KeyOf("cleanup", t) = t /\ KeyOf("daily", t) = Target(t)
<1>1. ClaimOf(phase, t)[phase] = KeyOf(phase, t)
      /\ (phase # "wakeup" => DOMAIN ClaimOf(phase, t) = {phase})
      /\ DOMAIN ClaimOf("wakeup", t) = {"wakeup", "cleanup"}
  BY DEF ClaimOf
<1>2. KeyOf("cleanup", t) = t
  BY DEF KeyOf, Reminded
<1>3. KeyOf("daily", t) = Target(t)
  BY DEF KeyOf, Reminded
<1> QED
  BY <1>1, <1>2, <1>3

\* The guard on a phase's key covers what is claimed with it.
LEMMA NewKeysOf ==
  ASSUME NEW phase \in Phases, NEW t \in Nat, keys[phase] # KeyOf(phase, t)
  PROVE  NewKeys(ClaimOf(phase, t))
<1>0. ClaimOf(phase, t)[phase] = KeyOf(phase, t)
  BY ClaimOfIs
<1>1. CASE phase = "wakeup"
  <2>1. DOMAIN ClaimOf(phase, t) = {"wakeup", "cleanup"}
    BY <1>1, ClaimOfIs
  <2> QED
    BY <1>0, <1>1, <2>1 DEF NewKeys
<1>2. CASE phase # "wakeup"
  <2>1. DOMAIN ClaimOf(phase, t) = {phase}
    BY <1>2, ClaimOfIs
  <2> QED
    BY <1>0, <2>1 DEF NewKeys
<1> QED
  BY <1>1, <1>2

\* Every step of a scheduler is one of these.
LEMMA WorkerGuildStep ==
  ASSUME NoticeInv, NEW a \in Workers,
         TickBegin(a) \/ WorkerStep(a) \/ WorkerDies(a)
  PROVE  GuildStep(a) /\ UNCHANGED clock
<1>1. CASE TickBegin(a) \/ SweepScan(a) \/ ReportScan(a) \/ RemindScan(a)
           \/ Summary(a)
  BY <1>1 DEF TickBegin, SweepScan, ReportScan, RemindScan, Summary, Quietly,
              GuildStep
<1>2. CASE Bedtime(a) \/ Clean(a) \/ Send(a) \/ Release(a) \/ WorkerDies(a)
  BY <1>2 DEF Bedtime, Clean, Send, Release, WorkerDies, GuildStep
<1>3. CASE SweepClaim(a)
  <2> DEFINE phase == task[a].phase
             now == task[a].now
             guard == /\ config.sweeping
                      /\ config.channel = task[a].channel
                      /\ keys[phase] # KeyOf(phase, now)
  <2>1. /\ a \in Sweepers /\ task[a].at = "claim" /\ UNCHANGED clock
        /\ Claims(a, guard, ClaimOf(phase, now)) \/ Fails
    BY <1>3 DEF SweepClaim
  <2>2. /\ now >= SlotsPerDay /\ now <= clock /\ now \in Nat
        /\ phase \in {"bedtime", "wakeup", "cleanup"}
        /\ phase = "wakeup" => Awake(now)
    BY <2>1, WorkerTask DEF NoticeInv, GoodTick
  <2>3. phase \in Phases /\ phase \notin Reminded
    BY <2>2 DEF Phases, Reminded
  <2>4. claim[a] = NoClaim
    BY <2>1, NotWorking DEF Holding
  <2>5. guard => NewKeys(ClaimOf(phase, now))
    BY <2>2, <2>3, NewKeysOf
  <2>6. SweepersKnow /\ DOMAIN ClaimOf(phase, now) = {"cleanup"} =>
          MorningKnown(ClaimOf(phase, now)["cleanup"])
    <3>1. CASE phase = "cleanup"
      <4>1. SweepersKnow => MorningKnown(now)
        BY <2>1, <3>1 DEF SweepersKnow
      <4>2. ClaimOf(phase, now)[phase] = KeyOf(phase, now)
        BY <2>2, <2>3, ClaimOfIs
      <4>3. KeyOf(phase, now) = now
        BY <2>2, <2>3, <3>1, ClaimOfIs
      <4> QED
        BY <3>1, <4>1, <4>2, <4>3
    <3>2. CASE phase # "cleanup"
      <4>1. phase # "wakeup" => DOMAIN ClaimOf(phase, now) = {phase}
        BY <2>2, <2>3, ClaimOfIs
      <4>2. phase = "wakeup" => DOMAIN ClaimOf(phase, now) = {"wakeup", "cleanup"}
        BY <2>2, <2>3, ClaimOfIs
      <4> QED
        BY <3>2, <4>1, <4>2
    <3> QED
      BY <3>1, <3>2
  <2> HIDE DEF guard, phase, now
  <2> QED
    BY <2>1, <2>2, <2>3, <2>4, <2>5, <2>6, ClaimOfState, ClaimsTakes
<1>4. CASE ClaimReport(a)
  <2> DEFINE now == task[a].now
             guard == /\ keys["daily"] # Target(now)
                      /\ config.on["daily"]
                      /\ config.channel = task[a].channel
                      /\ config.to["daily"] = task[a].to
  <2>1. /\ task[a].at = "claimReport" /\ UNCHANGED clock
        /\ Claims(a, guard, ClaimOf("daily", now)) \/ Fails
    BY <1>4 DEF ClaimReport
  <2>2. now >= SlotsPerDay /\ now <= clock /\ now \in Nat
    BY <2>1, WorkerTask DEF NoticeInv, GoodTick
  <2>3. "daily" \in Phases /\ "daily" \notin Reminded
    BY DEF Phases, Reminded
  <2>4. claim[a] = NoClaim
    BY <2>1, NotWorking DEF Holding
  <2>5. KeyOf("daily", now) = Target(now)
    BY <2>2, <2>3, ClaimOfIs
  <2>6. guard => NewKeys(ClaimOf("daily", now))
    BY <2>2, <2>3, <2>5, NewKeysOf
  <2>7. DOMAIN ClaimOf("daily", now) # {"cleanup"}
    <3>1. DOMAIN ClaimOf("daily", now) = {"daily"}
      BY <2>2, <2>3, ClaimOfIs
    <3> QED
      BY <3>1
  <2> HIDE DEF guard, now
  <2> QED
    BY <2>1, <2>2, <2>3, <2>4, <2>6, <2>7, ClaimOfState, ClaimsTakes
<1>5. CASE RemindClaim(a)
  <2> DEFINE kind == task[a].phase
             now == task[a].now
             guard == /\ keys[kind] # KeyOf(kind, now)
                      /\ config.on[kind]
                      /\ config.channel = task[a].channel
                      /\ config.to[kind] = task[a].to
  <2>1. /\ a \in Reminders /\ task[a].at = "claim" /\ UNCHANGED clock
        /\ Claims(a, guard, ClaimOf(kind, now)) \/ Fails
    BY <1>5 DEF RemindClaim
  <2>2. /\ now >= SlotsPerDay /\ now <= clock /\ now \in Nat
        /\ kind \in Reminded /\ now \in DOMAIN DueKeys[kind]
    BY <2>1, WorkerTask DEF NoticeInv, GoodTick
  <2>3. kind \in Phases /\ kind # "wakeup" /\ kind # "cleanup"
    BY <2>2 DEF Phases, Reminded
  <2>4. claim[a] = NoClaim
    BY <2>1, NotWorking DEF Holding
  <2>5. guard => NewKeys(ClaimOf(kind, now))
    BY <2>2, <2>3, NewKeysOf
  <2>6. DOMAIN ClaimOf(kind, now) # {"cleanup"}
    <3>1. DOMAIN ClaimOf(kind, now) = {kind}
      BY <2>2, <2>3, ClaimOfIs
    <3> QED
      BY <2>3, <3>1
  <2> HIDE DEF guard, now, kind
  <2> QED
    BY <2>1, <2>2, <2>3, <2>4, <2>5, <2>6, ClaimOfState, ClaimsTakes
<1> QED
  BY <1>1, <1>2, <1>3, <1>4, <1>5 DEF WorkerStep

\* So is every step of a weekly job.
LEMMA JobGuildStep ==
  ASSUME WeekInv, NEW j \in Jobs, JobBegin(j) \/ JobStep(j) \/ JobDies(j)
  PROVE  GuildStep(j) /\ UNCHANGED clock
<1>1. CASE JobClaim(j)
  <2> DEFINE s == [f \in {"weekly"} |-> Week(job[j].now)]
             guard == /\ keys["weekly"] # Week(job[j].now)
                      /\ config.on["weekly"]
                      /\ config.channel = job[j].channel
                      /\ config.to["weekly"] = job[j].to
  <2>1. /\ UNCHANGED clock /\ job[j].at = "claim"
        /\ Claims(j, guard, s) \/ Fails
    BY <1>1 DEF JobClaim
  <2>2. job[j].now \in Nat
    BY RecordTypes DEF WeekInv, Job
  <2>3. s \in ClaimSets /\ StateShape(s) /\ "cleanup" \notin DOMAIN s
    BY <2>2, WeeklyState
  <2>4. guard => NewKeys(s)
    BY DEF NewKeys
  <2>5. claim[j] = NoClaim
    BY <2>1, JobNotWorking DEF JobHolding
  <2> HIDE DEF s, guard
  <2> QED
    BY <2>1, <2>3, <2>4, <2>5, ClaimsTakes
<1>2. CASE JobBegin(j) \/ JobFind(j) \/ JobLoad(j) \/ JobSave(j) \/ JobCheck(j)
           \/ JobScan(j)
  BY <1>2 DEF JobBegin, JobFind, JobLoad, JobSave, JobCheck, JobScan, GuildStep
<1>3. CASE JobSend(j) \/ JobRelease(j) \/ JobDies(j)
  BY <1>3 DEF JobSend, JobRelease, JobDies, GuildStep
<1> QED
  BY <1>1, <1>2, <1>3 DEF JobStep

\* None of them touches another one's claim.
LEMMA GuildStepKeeps ==
  ASSUME GuildTypeOK, NEW a \in Claimers, GuildStep(a)
  PROVE  OthersKept(a)
  BY DEF GuildStep, OthersKept, GuildTypeOK, guildVars, Fails, Takes, Claims,
         Serve, Rollback, Dies

-----------------------------------------------------------------------------
\* The whole system.
StateInv == NoticeInv /\ WeekInv

\* It holds initially.
LEMMA InitInv ==
  ASSUME Init
  PROVE  StateInv
<1>1. PICK w \in Workloads : ClaimInit(w) /\ NoticeInit(w) /\ WeekInit(w)
  BY DEF Init
<1>2. /\ w.from \in Nat /\ w.trouble \in Nat /\ w.edits \in Nat
      /\ w.from >= SlotsPerDay /\ w.config \in Config /\ w.users \subseteq Users
      /\ w.week \in Nat \cup {NoWeek}
      /\ \A x \in DOMAIN w.tasks :
           w.tasks[x] \in Tasks /\ w.tasks[x].user \in w.users
  BY WorkloadAssumption
<1>3. GuildTypeOK
  BY <1>1, <1>2, NoClaimIsClaim DEF ClaimInit, GuildTypeOK, Key
<1>4. GuildInv
  <2>1. keys["cleanup"] <= clock
    BY <1>1, <1>2, CleanupIsField DEF ClaimInit, NoKey
  <2>2. \A a \in Claimers : StateShape(claim[a].set) /\ ClaimBound(claim[a])
    BY <1>1, NoClaimShape DEF ClaimInit
  <2> QED
    BY <1>1, <1>2, <1>3, <2>1, <2>2 DEF GuildInv, ClaimInit
<1>5. NoticeInv
  <2>1. \A a \in Workers : task[a] \in {Idle, [Idle EXCEPT !.at = "off"]}
    BY <1>1 DEF NoticeInit
  <2>2. \A a \in Workers : claim[a] = NoClaim
    BY <1>1, WorkersAssumption DEF ClaimInit
  <2>3. Idle.at \notin Holding /\ [Idle EXCEPT !.at = "off"].at \notin Holding
    BY DEF Idle, Holding
  <2>4. task \in [Workers -> Task]
    BY <1>1, IdleTask DEF NoticeInit
  <2>5. allDone \in Key
    BY <1>1 DEF NoticeInit, Key
  <2> QED
    BY <1>3, <1>4, <2>1, <2>2, <2>3, <2>4, <2>5, IdleTask
       DEF NoticeInv, NoticeTypeOK, Holds
<1>6. WeekInv
  <2>1. DOMAIN doc = w.users /\ \A u \in DOMAIN doc : doc[u] \in Doc
    BY <1>1, <1>2, EmptyDocType DEF WeekInit, Doc
  <2>2. NoTask \in Tasks
    BY ModeAssumption, AnyModeType DEF NoTask, Tasks
  <2>3. ASSUME NEW x \in Writers
        PROVE  /\ writer[x] \in Writer
               /\ writer[x].at # "off" => writer[x].task.user \in DOMAIN doc
    <3>1. CASE x \in DOMAIN w.tasks
      <4>1. writer[x] = IdleWriter(w.tasks[x])
        BY <1>1, <3>1 DEF WeekInit
      <4>2. w.tasks[x] \in Tasks /\ w.tasks[x].user \in DOMAIN doc
        BY <1>2, <2>1, <3>1
      <4>3. IdleWriter(w.tasks[x]) \in Writer
            /\ IdleWriter(w.tasks[x]).task = w.tasks[x]
        BY <4>2, IdleWriterType
      <4> QED
        BY <4>1, <4>2, <4>3
    <3>2. CASE x \notin DOMAIN w.tasks
      <4>1. writer[x] = [IdleWriter(NoTask) EXCEPT !.at = "off"]
        BY <1>1, <3>2 DEF WeekInit
      <4> QED
        BY <2>2, <4>1, IdleWriterType
    <3> QED
      BY <3>1, <3>2
  <2>4. ASSUME NEW j \in Jobs
        PROVE  /\ job[j] \in Job /\ GoodJob(job[j])
               /\ Holds(j, job[j].at, JobHolding)
    <3>1. job[j] \in {IdleJob, [IdleJob EXCEPT !.at = "off"]}
      BY <1>1 DEF WeekInit
    <3>2. claim[j] = NoClaim
      BY <1>1, JobsAssumption DEF ClaimInit
    <3>3. job[j] \in Job /\ job[j].at \in {"idle", "off"} /\ job[j].todo = {}
      BY <3>1, IdleJobType DEF IdleJob
    <3> QED
      BY <3>2, <3>3 DEF GoodJob, Holds, JobHolding
  <2>5. writer \in [Writers -> Writer] /\ job \in [Jobs -> Job]
    BY <1>1, <2>3, <2>4 DEF WeekInit
  <2>6. doc \in [DOMAIN doc -> Doc] /\ DOMAIN doc \subseteq Users
    BY <1>1, <1>2, <2>1 DEF WeekInit
  <2> QED
    BY <1>3, <1>4, <2>3, <2>4, <2>5, <2>6 DEF WeekInv, WeekTypeOK
<1> QED
  BY <1>5, <1>6 DEF StateInv

\* Every step keeps it.
LEMMA NextInv ==
  ASSUME StateInv, [Next]_vars
  PROVE  StateInv'
<1> USE DEF StateInv
<1>1. CASE UNCHANGED vars
  <2>1. UNCHANGED <<clock, guildVars, noticeVars, weekVars>>
    BY <1>1 DEF vars
  <2>2. GuildInv' /\ UNCHANGED claim
    BY <2>1, SameInv DEF NoticeInv
  <2>3. allDone' \in Key /\ clock' >= clock
    BY <2>1 DEF NoticeInv, NoticeTypeOK, noticeVars, GuildTypeOK
  <2> QED
    BY <2>1, <2>2, <2>3, TasksKept, DocsKept DEF noticeVars
<1>2. CASE (Pass \/ Admin) /\ UNCHANGED <<noticeVars, weekVars>>
  <2>1. GuildInv' /\ UNCHANGED claim /\ clock' >= clock
    BY <1>2, PassInv, AdminInv DEF NoticeInv, GuildInv, GuildTypeOK
  <2>2. allDone' \in Key /\ UNCHANGED task
    BY <1>2 DEF NoticeInv, NoticeTypeOK, noticeVars
  <2> QED
    BY <1>2, <2>1, <2>2, TasksKept, DocsKept
<1>3. CASE NoticeNext /\ UNCHANGED weekVars
  <2>1. NoticeInv'
    BY <1>3, NoticeNextInv
  <2>2. \A j \in Jobs : claim'[j] = claim[j]
    <3>1. CASE UsersFinish
      BY <3>1 DEF UsersFinish, guildVars
    <3>2. ASSUME NEW a \in Workers, TickBegin(a) \/ WorkerStep(a) \/ WorkerDies(a)
          PROVE  \A j \in Jobs : claim'[j] = claim[j]
      <4>1. OthersKept(a)
        BY <3>2, WorkerGuildStep, GuildStepKeeps, WorkersAssumption
           DEF NoticeInv, GuildInv
      <4> QED
        BY <4>1, ActorsAssumption, JobsAssumption DEF OthersKept
    <3> QED
      BY <1>3, <3>1, <3>2 DEF NoticeNext
  <2> QED
    BY <1>3, <2>1, <2>2, DocsKept DEF NoticeInv
<1>4. CASE WeekNext /\ UNCHANGED noticeVars
  <2>1. WeekInv'
    BY <1>4, WeekNextInv
  <2>2. clock' = clock /\ \A a \in Workers : claim'[a] = claim[a]
    <3>1. ASSUME NEW x \in Writers, Gather(x) \/ Load(x) \/ Apply(x) \/ Save(x)
          PROVE  clock' = clock /\ \A a \in Workers : claim'[a] = claim[a]
      BY <3>1 DEF Gather, Load, Apply, Save, guildVars
    <3>2. ASSUME NEW j \in Jobs, JobBegin(j) \/ JobStep(j) \/ JobDies(j)
          PROVE  clock' = clock /\ \A a \in Workers : claim'[a] = claim[a]
      <4>1. OthersKept(j) /\ UNCHANGED clock
        BY <3>2, JobGuildStep, GuildStepKeeps, JobsAssumption
           DEF WeekInv, GuildInv
      <4> QED
        BY <4>1, ActorsAssumption, WorkersAssumption DEF OthersKept
    <3> QED
      BY <1>4, <3>1, <3>2 DEF WeekNext
  <2>3. clock' >= clock /\ allDone' \in Key /\ UNCHANGED task
    BY <1>4, <2>2 DEF NoticeInv, NoticeTypeOK, GuildTypeOK, noticeVars
  <2> QED
    BY <2>1, <2>2, <2>3, TasksKept DEF WeekInv
<1> QED
  BY <1>1, <1>2, <1>3, <1>4 DEF Next

\* In every reachable state the ticks, the jobs and the claims fit together: a
\* scheduler or a weekly job holds a claim exactly while its tick has work of
\* it left, for keys of the present or the past, on documents that exist.
THEOREM StateInductive == Spec => []StateInv
<1>1. Init => StateInv
  BY InitInv
<1>2. StateInv /\ [Next]_vars => StateInv'
  BY NextInv
<1> QED
  BY <1>1, <1>2, PTL DEF Spec

\* The variables of the notices and of the weekly reset have their types, for
\* every set of processes, users, documents and commands, every length of day
\* and week and without a bound on time or failures: no rollback, replaced
\* document or voided copy leaves something malformed behind.
THEOREM SchedulesTypes == Spec => []TypeOK
<1>1. StateInv => TypeOK
  BY DEF StateInv, NoticeInv, WeekInv, TypeOK
<1> QED
  BY <1>1, StateInductive, PTL
=============================================================================
