------------------------- MODULE GuildClaims_proofs -------------------------
(***************************************************************************)
(* What the claims of a guild's posts guarantee. That no key is forgotten  *)
(* is shown by counting the claims that set and that replaced it; that no  *)
(* work is done twice by the order of the keys, which only grow as long as *)
(* nobody that has fallen behind claims an older key and no morning is     *)
(* handed back.                                                            *)
(***************************************************************************)
EXTENDS Schedules_proofs

\* Of whom the config has a key, whose claims would bring it back, and who has
\* already been dealt with.
Sets(a, f, v) == f \in DOMAIN claim[a].set /\ claim[a].set[f] = v
Replaced(a, f, v) == f \in DOMAIN claim[a].set /\ claim[a].was[f] = v
Holders(f, v) == {a \in Claimers : Sets(a, f, v)}
Over(f, v) == {a \in Claimers : Replaced(a, f, v)}
Bit(b) == IF b THEN 1 ELSE 0

GivenUp(f, v) == <<f, v>> \in served \cup lapsed

\* What one actor adds to the account of a key.
Balance(a, f, v) ==
  Bit(Sets(a, f, v)) - Bit(Replaced(a, f, v)) - Bit(keys[f] = v)

\* The account of a key that was neither served nor given up: at least as many
\* claims set it as replaced it, and one more while it stands in the config.
Balanced(f, v) ==
  GivenUp(f, v) \/
    Cardinality(Holders(f, v)) >= Cardinality(Over(f, v)) + Bit(keys[f] = v)

CountInv == \A f \in Fields, v \in Nat : Balanced(f, v)

-----------------------------------------------------------------------------
\* Counting. One actor more or less in a set.
LEMMA CountOne ==
  ASSUME NEW S, IsFiniteSet(S), NEW a
  PROVE  /\ IsFiniteSet(S \ {a}) /\ Cardinality(S \ {a}) \in Nat
         /\ Cardinality(S) = Cardinality(S \ {a}) + Bit(a \in S)
<1>1. CASE a \in S
  <2>1. IsFiniteSet(S \ {a}) /\ Cardinality(S \ {a}) = Cardinality(S) - 1
    BY <1>1, FS_RemoveElement
  <2>2. Cardinality(S) \in Nat /\ Cardinality(S \ {a}) \in Nat
    BY <2>1, FS_CardinalityType
  <2>3. Bit(a \in S) = 1
    BY <1>1 DEF Bit
  <2> QED
    BY <2>1, <2>2, <2>3
<1>2. CASE a \notin S
  <2>1. S \ {a} = S
    BY <1>2
  <2>2. Cardinality(S) \in Nat
    BY FS_CardinalityType
  <2>3. Bit(a \in S) = 0
    BY <1>2 DEF Bit
  <2>4. Cardinality(S \ {a}) = Cardinality(S)
    BY <2>1, Zenon
  <2>5. IsFiniteSet(S \ {a})
    BY <2>1, Zenon
  <2> QED
    BY <2>2, <2>3, <2>4, <2>5
<1> QED
  BY <1>1, <1>2

\* If an actor does not lower its share and the others keep theirs, the account
\* is kept.
LEMMA BalanceKept ==
  ASSUME NEW a \in Claimers, OthersKept(a), NEW f \in Fields, NEW v \in Nat,
         Balanced(f, v),
         GivenUp(f, v) => GivenUp(f, v)',
         GivenUp(f, v)' \/ Balance(a, f, v)' >= Balance(a, f, v)
  PROVE  Balanced(f, v)'
<1>1. CASE GivenUp(f, v)'
  BY <1>1 DEF Balanced
<1>2. CASE ~GivenUp(f, v)'
  <2> DEFINE h == Cardinality(Holders(f, v) \ {a})
             o == Cardinality(Over(f, v) \ {a})
  <2>1. IsFiniteSet(Holders(f, v)) /\ IsFiniteSet(Over(f, v))
        /\ IsFiniteSet(Holders(f, v)') /\ IsFiniteSet(Over(f, v)')
    BY ActorsAssumption, FS_Subset DEF Holders, Over
  <2>2. h \in Nat /\ o \in Nat
    BY <2>1, CountOne
  <2>3. Holders(f, v)' \ {a} = Holders(f, v) \ {a}
        /\ Over(f, v)' \ {a} = Over(f, v) \ {a}
    BY DEF Holders, Over, Sets, Replaced, OthersKept
  <2>4. /\ Cardinality(Holders(f, v)) = h + Bit(a \in Holders(f, v))
        /\ Cardinality(Over(f, v)) = o + Bit(a \in Over(f, v))
    BY <2>1, CountOne
  <2>5. /\ Cardinality(Holders(f, v)') = h + Bit(a \in Holders(f, v)')
        /\ Cardinality(Over(f, v)') = o + Bit(a \in Over(f, v)')
    <3>1. /\ Cardinality(Holders(f, v)')
               = Cardinality(Holders(f, v)' \ {a}) + Bit(a \in Holders(f, v)')
          /\ Cardinality(Over(f, v)')
               = Cardinality(Over(f, v)' \ {a}) + Bit(a \in Over(f, v)')
      BY <2>1, CountOne
    <3> QED
      BY <2>3, <3>1
  <2>6. /\ a \in Holders(f, v) <=> Sets(a, f, v)
        /\ a \in Over(f, v) <=> Replaced(a, f, v)
        /\ a \in Holders(f, v)' <=> Sets(a, f, v)'
        /\ a \in Over(f, v)' <=> Replaced(a, f, v)'
    BY DEF Holders, Over
  <2>7. h + Bit(Sets(a, f, v)) >= o + Bit(Replaced(a, f, v)) + Bit(keys[f] = v)
    BY <1>2, <2>4, <2>6 DEF Balanced, Bit
  <2>8. Balance(a, f, v)' >= Balance(a, f, v)
    BY <1>2
  <2> HIDE DEF h, o
  <2>9. h + Bit(Sets(a, f, v))' >= o + Bit(Replaced(a, f, v))' + Bit(keys'[f] = v)
    BY <2>2, <2>7, <2>8 DEF Balance, Bit
  <2> QED
    BY <2>5, <2>6, <2>9 DEF Balanced, Bit
<1> QED
  BY <1>1, <1>2

\* Who has no claim is in no account.
LEMMA NoneOfIt ==
  ASSUME NEW a, claim[a] = NoClaim, NEW f, NEW v
  PROVE  Bit(Sets(a, f, v)) = 0 /\ Bit(Replaced(a, f, v)) = 0
  BY NoClaimIsClaim DEF Sets, Replaced, Bit

LEMMA NoneOfItNext ==
  ASSUME NEW a, claim'[a] = NoClaim, NEW f, NEW v
  PROVE  Bit(Sets(a, f, v))' = 0 /\ Bit(Replaced(a, f, v))' = 0
  BY NoClaimIsClaim DEF Sets, Replaced, Bit

LEMMA PairIn ==
  ASSUME NEW s, NEW f \in DOMAIN s
  PROVE  <<f, s[f]>> \in Pairs(s)
  BY DEF Pairs

LEMMA SameCount ==
  ASSUME CountInv, UNCHANGED <<keys, claim, served, lapsed>>
  PROVE  CountInv'
  BY DEF CountInv, Balanced, GivenUp, Holders, Over, Sets, Replaced

\* A step whose actor does not lower its own share keeps the accounts.
LEMMA CountOf ==
  ASSUME GuildTypeOK, CountInv, NEW a \in Claimers, GuildStep(a),
         served \subseteq served', lapsed \subseteq lapsed',
         \A f \in Fields, v \in Nat :
           GivenUp(f, v)' \/ Balance(a, f, v)' >= Balance(a, f, v)
  PROVE  CountInv'
<1>1. OthersKept(a)
  BY GuildStepKeeps
<1>2. ASSUME NEW f \in Fields, NEW v \in Nat
      PROVE  Balanced(f, v)'
  <2>1. Balanced(f, v)
    BY DEF CountInv
  <2>2. GivenUp(f, v) => GivenUp(f, v)'
    BY DEF GivenUp
  <2>3. GivenUp(f, v)' \/ Balance(a, f, v)' >= Balance(a, f, v)
    OBVIOUS
  <2> QED
    BY <1>1, <2>1, <2>2, <2>3, BalanceKept
<1> QED
  BY <1>2 DEF CountInv

\* A claim: what was standing is replaced, what was set stands.
LEMMA TakesCount ==
  ASSUME GuildTypeOK, CountInv, NEW a \in Claimers, NEW s \in ClaimSets,
         Takes(a, s)
  PROVE  CountInv'
<1>1. GuildStep(a) /\ claim[a] = NoClaim
  BY DEF GuildStep, Takes
<1>2. \A f \in DOMAIN s : f \in Fields /\ s[f] \in Nat
  BY DEF ClaimSets
<1> DEFINE c == [set |-> s, was |-> [f \in DOMAIN s |-> keys[f]]]
<1>3. CASE UNCHANGED guildVars
  BY <1>3, SameCount DEF guildVars, history
<1>4. CASE /\ keys' = Overwrite(keys, s) /\ UNCHANGED <<served, lapsed>>
           /\ claim' = [claim EXCEPT ![a] = c]
  <2>1. ASSUME NEW f \in Fields, NEW v \in Nat
        PROVE  Balance(a, f, v)' >= Balance(a, f, v)
    <3>1. Balance(a, f, v) = 0 - Bit(keys[f] = v)
      BY <1>1, NoneOfIt DEF Balance, Bit
    <3>2. claim'[a].set = s /\ DOMAIN claim'[a].was = DOMAIN s
          /\ \A g \in DOMAIN s : claim'[a].was[g] = keys[g]
      BY <1>4 DEF GuildTypeOK
    <3>3. keys'[f] = IF f \in DOMAIN s THEN s[f] ELSE keys[f]
      BY <1>4 DEF Overwrite
    <3>4. CASE f \in DOMAIN s
      <4>1. /\ Bit(Sets(a, f, v))' = Bit(keys'[f] = v)
            /\ Bit(Replaced(a, f, v))' = Bit(keys[f] = v)
        BY <3>2, <3>3, <3>4 DEF Sets, Replaced, Bit
      <4> QED
        BY <3>1, <4>1 DEF Balance, Bit
    <3>5. CASE f \notin DOMAIN s
      <4>1. /\ Bit(Sets(a, f, v))' = 0 /\ Bit(Replaced(a, f, v))' = 0
        BY <3>2, <3>5 DEF Sets, Replaced, Bit
      <4> QED
        BY <3>1, <3>3, <3>5, <4>1 DEF Balance, Bit
    <3> QED
      BY <3>4, <3>5
  <2> QED
    BY <1>1, <1>4, <2>1, CountOf
<1>5. CASE /\ keys' = Overwrite(keys, s) /\ UNCHANGED <<served, claim>>
           /\ lapsed' = lapsed \cup Pairs(s)
  <2>1. ASSUME NEW f \in Fields, NEW v \in Nat, ~GivenUp(f, v)'
        PROVE  Balance(a, f, v)' >= Balance(a, f, v)
    <3>1. claim'[a] = NoClaim
      BY <1>1, <1>5
    <3>2. Balance(a, f, v) = 0 - Bit(keys[f] = v)
      BY <1>1, NoneOfIt DEF Balance, Bit
    <3>3. Balance(a, f, v)' = 0 - Bit(keys'[f] = v)
      BY <3>1, NoneOfItNext DEF Balance, Bit
    <3>4. f \in DOMAIN s => s[f] # v
      BY <1>5, <2>1, PairIn DEF GivenUp
    <3>5. keys'[f] = IF f \in DOMAIN s THEN s[f] ELSE keys[f]
      BY <1>5 DEF Overwrite
    <3> QED
      BY <3>2, <3>3, <3>4, <3>5 DEF Bit
  <2> QED
    BY <1>1, <1>5, <2>1, CountOf
<1> QED
  BY <1>3, <1>4, <1>5 DEF Takes, Claims

\* A claim that is served or given up.
LEMMA GivesBackCount ==
  ASSUME GuildTypeOK, CountInv, NEW a \in Claimers, GuildStep(a),
         served \subseteq served', lapsed \subseteq lapsed',
         UNCHANGED keys, claim'[a] = NoClaim,
         Pairs(claim[a].set) \subseteq served' \cup lapsed'
  PROVE  CountInv'
<1>1. ASSUME NEW f \in Fields, NEW v \in Nat, ~GivenUp(f, v)'
      PROVE  Balance(a, f, v)' >= Balance(a, f, v)
  <2>1. ~Sets(a, f, v)
    BY <1>1, PairIn DEF Sets, GivenUp
  <2>2. Balance(a, f, v)' = 0 - Bit(keys[f] = v)
    BY NoneOfItNext DEF Balance, Bit
  <2> QED
    BY <2>1, <2>2 DEF Balance, Bit
<1> QED
  BY <1>1, CountOf

\* A rollback takes back what stands and brings back what was replaced.
LEMMA RestoreCount ==
  ASSUME GuildTypeOK, CountInv, NEW a \in Claimers, GuildStep(a),
         UNCHANGED <<served, lapsed>>, claim'[a] = NoClaim,
         \A f \in DOMAIN claim[a].set : keys[f] = claim[a].set[f],
         keys' = Overwrite(keys, claim[a].was)
  PROVE  CountInv'
<1>1. ASSUME NEW f \in Fields, NEW v \in Nat
      PROVE  Balance(a, f, v)' >= Balance(a, f, v)
  <2>1. Balance(a, f, v)' = 0 - Bit(keys'[f] = v)
    BY NoneOfItNext DEF Balance, Bit
  <2>2. DOMAIN claim[a].was = DOMAIN claim[a].set
    BY ClaimParts DEF GuildTypeOK
  <2>3. CASE f \in DOMAIN claim[a].set
    <3>1. keys'[f] = claim[a].was[f]
      BY <2>2, <2>3 DEF Overwrite
    <3>2. /\ Bit(Sets(a, f, v)) = Bit(keys[f] = v)
          /\ Bit(Replaced(a, f, v)) = Bit(keys'[f] = v)
      BY <2>3, <3>1 DEF Sets, Replaced, Bit
    <3> QED
      BY <2>1, <3>2 DEF Balance, Bit
  <2>4. CASE f \notin DOMAIN claim[a].set
    <3>1. keys'[f] = keys[f]
      BY <2>2, <2>4 DEF Overwrite
    <3> QED
      BY <2>1, <2>4, <3>1 DEF Balance, Sets, Replaced, Bit
  <2> QED
    BY <2>3, <2>4
<1> QED
  BY <1>1, CountOf

\* Every step of a scheduler or job keeps the accounts.
LEMMA StepCount ==
  ASSUME GuildTypeOK, CountInv, NEW a \in Claimers, GuildStep(a)
  PROVE  CountInv'
<1>1. CASE UNCHANGED guildVars \/ Fails
  BY <1>1, SameCount DEF guildVars, Fails, history
<1>2. CASE \E s \in ClaimSets : Takes(a, s)
  BY <1>2, TakesCount
<1>3. CASE Serve(a)
  BY <1>3, GivesBackCount DEF Serve, GuildTypeOK
<1>4. CASE Dies(a)
  BY <1>4, GivesBackCount DEF Dies, GuildTypeOK
<1>5. CASE Rollback(a)
  <2>1. claim'[a] = NoClaim /\ UNCHANGED served
    BY <1>5 DEF Rollback, GuildTypeOK
  <2>2. \/ UNCHANGED keys /\ lapsed' = lapsed \cup Pairs(claim[a].set)
        \/ /\ \A f \in DOMAIN claim[a].set : keys[f] = claim[a].set[f]
           /\ keys' = Overwrite(keys, claim[a].was) /\ UNCHANGED lapsed
    BY <1>5 DEF Rollback
  <2> QED
    BY <2>1, <2>2, GivesBackCount, RestoreCount
<1> QED
  BY <1>1, <1>2, <1>3, <1>4, <1>5 DEF GuildStep

\* An admin that switches the sweep on gives up the running slot, and of any
\* other cleanup at most the one that stood is taken off its account.
LEMMA AdminCount ==
  ASSUME GuildTypeOK, CountInv, Admin
  PROVE  CountInv'
<1>1. UNCHANGED <<claim, served>>
  BY DEF Admin, ClearChannel, ScheduleOn, ScheduleOff, SetChannel,
         ToggleReport, SendReportTo, Edit
<1>2. CASE UNCHANGED <<keys, lapsed>>
  BY <1>1, <1>2, SameCount
<1>3. CASE ScheduleOn
  <2>1. /\ keys' = [keys EXCEPT !["cleanup"] = clock]
        /\ lapsed' = lapsed \cup {<<"cleanup", clock>>}
    BY <1>3 DEF ScheduleOn
  <2>2. ASSUME NEW f \in Fields, NEW v \in Nat
        PROVE  Balanced(f, v)'
    <3>1. Balanced(f, v)
      BY DEF CountInv
    <3>2. GivenUp(f, v)' <=> GivenUp(f, v) \/ (f = "cleanup" /\ v = clock)
      BY <1>1, <2>1 DEF GivenUp
    <3>3. Holders(f, v)' = Holders(f, v) /\ Over(f, v)' = Over(f, v)
      BY <1>1 DEF Holders, Over, Sets, Replaced
    <3>4. Cardinality(Over(f, v)) \in Nat /\ Cardinality(Holders(f, v)) \in Nat
      BY ActorsAssumption, FS_Subset, FS_CardinalityType DEF Holders, Over
    <3>5. ~GivenUp(f, v)' => Bit(keys'[f] = v) <= Bit(keys[f] = v)
      BY <2>1, <3>2 DEF Bit, GuildTypeOK
    <3>6. Bit(keys'[f] = v) \in Nat /\ Bit(keys[f] = v) \in Nat
      BY DEF Bit
    <3>7. ~GivenUp(f, v)' =>
            Cardinality(Holders(f, v)) >= Cardinality(Over(f, v)) + Bit(keys[f] = v)
      BY <3>1, <3>2 DEF Balanced
    <3>8. ~GivenUp(f, v)' =>
            Cardinality(Holders(f, v)) >= Cardinality(Over(f, v)) + Bit(keys'[f] = v)
      BY <3>4, <3>5, <3>6, <3>7
    <3> QED
      BY <3>3, <3>8 DEF Balanced
  <2> QED
    BY <2>2 DEF CountInv
<1> QED
  BY <1>2, <1>3 DEF Admin, ClearChannel, ScheduleOff, SetChannel, ToggleReport,
                    SendReportTo

\* What a step of the system does to the config.
LEMMA NextSteps ==
  ASSUME StateInv, [Next]_vars
  PROVE  \/ UNCHANGED guildVars
         \/ UNCHANGED clock /\ Admin
         \/ UNCHANGED clock /\ \E a \in Claimers : GuildStep(a)
  BY WorkerGuildStep, JobGuildStep, WorkersAssumption, JobsAssumption
     DEF StateInv, Next, vars, Pass, Admin, NoticeNext, WeekNext, UsersFinish,
         Gather, Load, Apply, Save, Edit, SetChannel, ClearChannel, ScheduleOn,
         ScheduleOff, ToggleReport, SendReportTo

LEMMA CountNext ==
  ASSUME StateInv, CountInv, [Next]_vars
  PROVE  CountInv'
<1>1. CASE UNCHANGED guildVars
  BY <1>1, SameCount DEF guildVars, history
<1>2. GuildTypeOK
  BY DEF StateInv, NoticeInv, GuildInv
<1> QED
  BY <1>1, <1>2, NextSteps, AdminCount, StepCount

LEMMA CountInit ==
  ASSUME Init
  PROVE  CountInv
<1>1. keys = [f \in Fields |-> NoKey] /\ claim = [a \in Claimers |-> NoClaim]
  BY DEF Init, ClaimInit
<1>2. ASSUME NEW f \in Fields, NEW v \in Nat
      PROVE  Balanced(f, v)
  <2>1. Holders(f, v) = {} /\ Over(f, v) = {}
    BY <1>1, NoClaimIsClaim DEF Holders, Over, Sets, Replaced
  <2>2. Bit(keys[f] = v) = 0
    BY <1>1 DEF NoKey, Bit
  <2>3. Cardinality({}) = 0
    BY FS_EmptySet
  <2>4. Cardinality(Holders(f, v)) = 0 /\ Cardinality(Over(f, v)) = 0
    BY <2>1, <2>3
  <2> QED
    BY <2>2, <2>4 DEF Balanced
<1> QED
  BY <1>2 DEF CountInv

\* A key that stands and is neither served nor given up has been set by more
\* claims than replaced it, so somebody holds one.
LEMMA CountExplains ==
  ASSUME GuildTypeOK, CountInv
  PROVE  KeysExplained
<1>1. SUFFICES ASSUME NEW f \in Fields, keys[f] # NoKey,
                      <<f, keys[f]>> \notin served \cup lapsed
               PROVE  <<f, keys[f]>> \in InWork
  BY DEF KeysExplained
<1> DEFINE v == keys[f]
<1>2. v \in Nat
  BY <1>1 DEF GuildTypeOK, Key
<1>3. Cardinality(Holders(f, v)) >= Cardinality(Over(f, v)) + 1
  BY <1>1, <1>2 DEF CountInv, Balanced, GivenUp, Bit
<1>4. Cardinality(Over(f, v)) \in Nat
  BY ActorsAssumption, FS_Subset, FS_CardinalityType DEF Over
<1>5. Holders(f, v) # {}
  <2>1. SUFFICES ASSUME Holders(f, v) = {} PROVE FALSE
    OBVIOUS
  <2>2. Cardinality(Holders(f, v)) = 0
    BY <2>1, FS_EmptySet
  <2> QED
    BY <1>3, <1>4, <2>2
<1>6. PICK a \in Claimers : Sets(a, f, v)
  BY <1>5 DEF Holders
<1>7. <<f, v>> \in Pairs(claim[a].set)
  BY <1>6, PairIn DEF Sets
<1> QED
  BY <1>7 DEF InWork

\* Nothing is lost to a failure that was handled: a key that stands in the
\* config was served, is still somebody's work, or was given up on one of the
\* known ways, for any number of processes that claim over, crash with and
\* roll back each other's keys.
THEOREM Explained == Spec => []KeysExplained
<1>1. Init => CountInv
  BY CountInit
<1>2. StateInv /\ CountInv /\ [Next]_vars => CountInv'
  BY CountNext
<1>3. Spec => []CountInv
  BY <1>1, <1>2, StateInductive, PTL DEF Spec
<1>4. StateInv /\ CountInv => KeysExplained
  BY CountExplains DEF StateInv, NoticeInv, GuildInv
<1> QED
  BY <1>3, <1>4, StateInductive, PTL

-----------------------------------------------------------------------------
\* Order. The claim of an actor on a field.
Has(a, f) == f \in DOMAIN claim[a].set
Set(a, f) == claim[a].set[f]
Was(a, f) == claim[a].was[f]

\* As long as a field is not reopened, its keys only grow: whatever was served
\* or is claimed lies below the key that stands, no claim spans a key that was
\* served, and two claims span different stretches.
ServedBelow(f) == \A k \in Nat : <<f, k>> \in served => k <= keys[f]
ClaimedBelow(f) ==
  \A a \in Claimers : Has(a, f) => Was(a, f) <= Set(a, f) /\ Set(a, f) <= keys[f]
ServedApart(f) ==
  \A a \in Claimers, k \in Nat :
    Has(a, f) /\ <<f, k>> \in served =>
      k # Set(a, f) /\ (k <= Was(a, f) \/ k > Set(a, f))
ClaimsApart(f) ==
  \A a, b \in Claimers :
    a # b /\ Has(a, f) /\ Has(b, f) =>
      /\ Set(a, f) # Set(b, f)
      /\ Set(a, f) <= Was(b, f) \/ Set(b, f) <= Was(a, f)
InOrder(f) ==
  ServedBelow(f) /\ ClaimedBelow(f) /\ ServedApart(f) /\ ClaimsApart(f)

OrderInv == \A f \in Fields : f \in reopened \/ InOrder(f)

\* A cleanup by day comes after the morning of the day, so a morning that
\* claims its slot finds the slot untouched.
MorningFirst ==
  "cleanup" \notin reopened =>
    \A t \in Nat :
      Awake(t) /\ <<"cleanup", t>> \in served \cup InWork =>
        keys["wakeup"] >= Day(t)

\* The morning that stands was said no later than some cleanup t, and no claim
\* of a lone cleanup would take the key back behind t.
Protects(t) ==
  /\ Day(t) >= keys["wakeup"] /\ t <= keys["cleanup"]
  /\ \A a \in Claimers : DOMAIN claim[a].set = {"cleanup"} =>
       Was(a, "cleanup") >= t \/ Set(a, "cleanup") < t
\* So a morning yet to come is of no earlier day.
LastMorning ==
  "cleanup" \notin reopened =>
    keys["wakeup"] = NoKey \/ \E t \in Nat : Protects(t)

\* The inductive invariant.
OnceInv ==
  OrderInv /\ MorningFirst /\ LastMorning /\ SweepersKnow /\ OncePerKey

\* The types of claims and keys.
LEMMA ClaimTypes ==
  ASSUME GuildTypeOK, NEW a \in Claimers, NEW f, Has(a, f)
  PROVE  /\ f \in Fields /\ Set(a, f) \in Nat /\ Was(a, f) \in Int
         /\ Was(a, f) >= -1
  BY ClaimParts DEF GuildTypeOK, Has, Set, Was, Key, NoKey

LEMMA KeyTypes ==
  ASSUME GuildTypeOK, NEW f \in Fields
  PROVE  keys[f] \in Int /\ keys[f] >= -1
  BY DEF GuildTypeOK, Key, NoKey

LEMMA NoneHas ==
  ASSUME NEW a, claim[a] = NoClaim, NEW f
  PROVE  ~Has(a, f)
  BY NoClaimIsClaim DEF Has

LEMMA NoneHasNext ==
  ASSUME NEW a, claim'[a] = NoClaim, NEW f
  PROVE  ~Has(a, f)'
  BY NoClaimIsClaim DEF Has

LEMMA WorkOf ==
  ASSUME NEW a \in Claimers, NEW f, Has(a, f)
  PROVE  <<f, Set(a, f)>> \in InWork
  BY DEF Has, Set, InWork, Pairs

\* A claim of the morning, or of a cleanup alone.
LEMMA ShapeCases ==
  ASSUME NEW s, StateShape(s)
  PROVE  /\ "wakeup" \in DOMAIN s =>
              /\ DOMAIN s = {"wakeup", "cleanup"}
              /\ s["wakeup"] = Day(s["cleanup"]) /\ Awake(s["cleanup"])
         /\ "wakeup" \notin DOMAIN s /\ "cleanup" \in DOMAIN s =>
              DOMAIN s = {"cleanup"}
  BY DEF StateShape

\* A slot no earlier than the last cleanup is of no earlier day than the last
\* morning.
LEMMA LastMorningBound ==
  ASSUME GuildTypeOK, LastMorning, "cleanup" \notin reopened,
         NEW t \in Nat, keys["cleanup"] <= t
  PROVE  keys["wakeup"] <= Day(t) /\ Day(t) \in Nat
<1>1. Day(t) \in Nat
  BY DayMono
<1>2. CASE keys["wakeup"] = NoKey
  BY <1>1, <1>2 DEF NoKey
<1>3. CASE keys["wakeup"] # NoKey
  <2>1. PICK u \in Nat : Protects(u)
    BY <1>3 DEF LastMorning
  <2>2. Day(u) \in Int /\ Day(u) >= keys["wakeup"] /\ u <= keys["cleanup"]
    BY <2>1, DayMono DEF Protects
  <2>3. keys["cleanup"] \in Int /\ keys["wakeup"] \in Int
    BY KeyTypes, CleanupIsField
  <2>4. u <= t
    BY <2>2, <2>3
  <2>5. Day(u) <= Day(t)
    BY <2>4, DayMono
  <2> QED
    BY <1>1, <2>2, <2>3, <2>5
<1> QED
  BY <1>2, <1>3

-----------------------------------------------------------------------------
\* The steps. A claim is for a later key than the one that stands, or it is a
\* morning whose slot nobody has cleaned up.
LEMMA NothingTwice ==
  ASSUME GuildTypeOK, OnceInv, NEW s \in ClaimSets, StateShape(s), NewKeys(s),
         NEW f \in DOMAIN s, f \notin reopened, keys[f] <= s[f]
  PROVE  \/ keys[f] < s[f]
         \/ /\ <<f, s[f]>> \notin served
            /\ \A b \in Claimers : Has(b, f) => Set(b, f) # s[f]
<1>1. f \in Fields /\ s[f] \in Nat
  BY DEF ClaimSets
<1>2. SUFFICES ASSUME keys[f] = s[f]
               PROVE  /\ <<f, s[f]>> \notin served
                      /\ \A b \in Claimers : Has(b, f) => Set(b, f) # s[f]
  BY <1>1, KeyTypes
<1>3. f = "cleanup" /\ "wakeup" \in DOMAIN s /\ keys["wakeup"] # s["wakeup"]
  BY <1>2 DEF NewKeys
<1>4. s["wakeup"] = Day(s[f]) /\ Awake(s[f])
  BY <1>3, ShapeCases
<1>5. keys["wakeup"] <= Day(s[f]) /\ Day(s[f]) \in Nat
  BY <1>1, <1>2, <1>3, LastMorningBound DEF OnceInv
<1>6. keys["wakeup"] \in Int
  BY KeyTypes, CleanupIsField
<1>7. ~(keys["wakeup"] >= Day(s[f]))
  BY <1>3, <1>4, <1>5, <1>6
<1>8. <<f, s[f]>> \notin served \cup InWork
  BY <1>1, <1>3, <1>4, <1>7 DEF OnceInv, MorningFirst
<1> QED
  BY <1>8, WorkOf

\* Each step keeps the order.
LEMMA TakesOrder ==
  ASSUME GuildTypeOK, GuildTypeOK', OnceInv, NEW a \in Claimers, NEW s \in ClaimSets,
         StateShape(s), NewKeys(s), claim[a] = NoClaim, OthersKept(a),
         keys' = Overwrite(keys, s), UNCHANGED served,
         reopened' = reopened \cup {f \in DOMAIN s : keys[f] > s[f]},
         \/ claim'[a] = [set |-> s, was |-> [f \in DOMAIN s |-> keys[f]]]
         \/ claim'[a] = NoClaim
  PROVE  OrderInv'
<1>1. SUFFICES ASSUME NEW f \in Fields, f \notin reopened'
               PROVE  InOrder(f)'
  BY DEF OrderInv
<1>2. f \notin reopened /\ InOrder(f)
  BY <1>1 DEF OnceInv, OrderInv
<1>3. ASSUME NEW b \in Claimers, b # a
      PROVE  /\ Has(b, f)' <=> Has(b, f)
             /\ Set(b, f)' = Set(b, f) /\ Was(b, f)' = Was(b, f)
  BY <1>3 DEF OthersKept, Has, Set, Was
<1>4. ~Has(a, f)
  BY NoneHas
<1>5. keys[f] \in Int
  BY KeyTypes
<1>6. CASE f \in DOMAIN s
  <2>1. s[f] \in Nat /\ keys[f] <= s[f] /\ keys'[f] = s[f]
    BY <1>1, <1>5, <1>6 DEF ClaimSets, Overwrite
  <2>2. \/ keys[f] < s[f]
        \/ /\ <<f, s[f]>> \notin served
           /\ \A b \in Claimers : Has(b, f) => Set(b, f) # s[f]
    BY <1>2, <1>6, <2>1, NothingTwice
  <2>3. Has(a, f)' => Set(a, f)' = s[f] /\ Was(a, f)' = keys[f]
    BY NoneHasNext DEF Has, Set, Was
  <2>4. ServedBelow(f)'
    BY <1>2, <1>5, <2>1 DEF InOrder, ServedBelow
  <2>5. ClaimedBelow(f)'
    <3>1. ASSUME NEW b \in Claimers, Has(b, f)'
          PROVE  Was(b, f)' <= Set(b, f)' /\ Set(b, f)' <= keys'[f]
      <4>1. CASE b = a
        BY <3>1, <4>1, <2>1, <2>3
      <4>2. CASE b # a
        <5>1. Has(b, f) /\ Set(b, f)' = Set(b, f) /\ Was(b, f)' = Was(b, f)
          BY <1>3, <3>1, <4>2
        <5>2. Set(b, f) \in Nat
          BY <5>1, ClaimTypes
        <5>3. Was(b, f) <= Set(b, f) /\ Set(b, f) <= keys[f]
          BY <1>2, <5>1 DEF InOrder, ClaimedBelow
        <5> QED
          BY <1>5, <2>1, <5>1, <5>2, <5>3
      <4> QED
        BY <4>1, <4>2
    <3> QED
      BY <3>1 DEF ClaimedBelow
  <2>6. ServedApart(f)'
    <3>1. ASSUME NEW b \in Claimers, NEW k \in Nat, Has(b, f)', <<f, k>> \in served
          PROVE  k # Set(b, f)' /\ (k <= Was(b, f)' \/ k > Set(b, f)')
      <4>1. CASE b = a
        <5>1. k <= keys[f]
          BY <1>2, <3>1 DEF InOrder, ServedBelow
        <5> QED
          BY <1>5, <2>1, <2>2, <2>3, <3>1, <4>1, <5>1
      <4>2. CASE b # a
        BY <1>2, <1>3, <3>1, <4>2 DEF InOrder, ServedApart
      <4> QED
        BY <4>1, <4>2
    <3> QED
      BY <3>1 DEF ServedApart
  <2>7. ClaimsApart(f)'
    <3>1. ASSUME NEW b \in Claimers, b # a, Has(b, f)', Has(a, f)'
          PROVE  Set(b, f)' # Set(a, f)' /\ Set(b, f)' <= Was(a, f)'
      <4>1. Has(b, f) /\ Set(b, f)' = Set(b, f)
        BY <1>3, <3>1
      <4>2. Set(b, f) \in Nat /\ Set(b, f) <= keys[f]
        BY <1>2, <4>1, ClaimTypes DEF InOrder, ClaimedBelow
      <4> QED
        BY <1>5, <2>1, <2>2, <2>3, <3>1, <4>1, <4>2
    <3>2. ASSUME NEW b \in Claimers, NEW c \in Claimers, b # a, c # a, b # c,
                 Has(b, f)', Has(c, f)'
          PROVE  /\ Set(b, f)' # Set(c, f)'
                 /\ Set(b, f)' <= Was(c, f)' \/ Set(c, f)' <= Was(b, f)'
      BY <1>2, <1>3, <3>2 DEF InOrder, ClaimsApart
    <3> QED
      BY <3>1, <3>2 DEF ClaimsApart
  <2> QED
    BY <2>4, <2>5, <2>6, <2>7 DEF InOrder
<1>7. CASE f \notin DOMAIN s
  <2>1. keys'[f] = keys[f] /\ ~Has(a, f)'
    BY <1>7, NoneHasNext DEF Overwrite, Has
  <2>2. ASSUME NEW b \in Claimers, Has(b, f)'
        PROVE  Has(b, f) /\ Set(b, f)' = Set(b, f) /\ Was(b, f)' = Was(b, f)
    BY <1>3, <2>1, <2>2
  <2> QED
    BY <1>2, <2>1, <2>2 DEF InOrder, ServedBelow, ClaimedBelow, ServedApart,
                            ClaimsApart
<1> QED
  BY <1>6, <1>7

LEMMA GivesBackOrder ==
  ASSUME GuildTypeOK, OnceInv, NEW a \in Claimers, OthersKept(a),
         claim'[a] = NoClaim, UNCHANGED <<keys, served>>,
         reopened \subseteq reopened'
  PROVE  OrderInv'
<1>1. SUFFICES ASSUME NEW f \in Fields, f \notin reopened'
               PROVE  InOrder(f)'
  BY DEF OrderInv
<1>2. InOrder(f)
  BY <1>1 DEF OnceInv, OrderInv
<1>3. ASSUME NEW b \in Claimers, Has(b, f)'
      PROVE  /\ Has(b, f) /\ Set(b, f)' = Set(b, f) /\ Was(b, f)' = Was(b, f)
  BY <1>3, NoneHasNext DEF OthersKept, Has, Set, Was
<1> QED
  BY <1>2, <1>3 DEF InOrder, ServedBelow, ClaimedBelow, ServedApart, ClaimsApart

LEMMA ServeOrder ==
  ASSUME GuildTypeOK, OnceInv, NEW a \in Claimers, OthersKept(a),
         claim'[a] = NoClaim, UNCHANGED <<keys, reopened>>,
         served' = served \cup Pairs(claim[a].set)
  PROVE  OrderInv'
<1>1. SUFFICES ASSUME NEW f \in Fields, f \notin reopened
               PROVE  InOrder(f)'
  BY DEF OrderInv
<1>2. InOrder(f)
  BY <1>1 DEF OnceInv, OrderInv
<1>3. ASSUME NEW b \in Claimers, Has(b, f)'
      PROVE  /\ b # a /\ Has(b, f) /\ Set(b, f)' = Set(b, f)
             /\ Was(b, f)' = Was(b, f)
  BY <1>3, NoneHasNext DEF OthersKept, Has, Set, Was
<1>4. ASSUME NEW k \in Nat, <<f, k>> \in served'
      PROVE  <<f, k>> \in served \/ (Has(a, f) /\ k = Set(a, f))
  BY <1>4 DEF Pairs, Has, Set
<1>5. keys[f] \in Int
  BY KeyTypes
<1>6. ServedBelow(f)'
  BY <1>2, <1>4 DEF InOrder, ServedBelow, ClaimedBelow
<1>7. ClaimedBelow(f)' /\ ClaimsApart(f)'
  BY <1>2, <1>3 DEF InOrder, ClaimedBelow, ClaimsApart
<1>8. ServedApart(f)'
  <2>1. ASSUME NEW b \in Claimers, NEW k \in Nat, Has(b, f)', <<f, k>> \in served'
        PROVE  k # Set(b, f)' /\ (k <= Was(b, f)' \/ k > Set(b, f)')
    <3>1. b # a /\ Has(b, f) /\ Set(b, f)' = Set(b, f) /\ Was(b, f)' = Was(b, f)
      BY <1>3, <2>1
    <3>2. CASE <<f, k>> \in served
      BY <1>2, <3>1, <3>2 DEF InOrder, ServedApart
    <3>3. CASE Has(a, f) /\ k = Set(a, f)
      <4>1. /\ Set(a, f) # Set(b, f)
            /\ Set(a, f) <= Was(b, f) \/ Set(b, f) <= Was(a, f)
            /\ Was(a, f) <= Set(a, f)
        BY <1>2, <3>1, <3>3 DEF InOrder, ClaimsApart, ClaimedBelow
      <4>2. Set(a, f) \in Nat /\ Set(b, f) \in Nat /\ Was(a, f) \in Int
            /\ Was(b, f) \in Int
        BY <3>1, <3>3, ClaimTypes
      <4> QED
        BY <3>1, <3>3, <4>1, <4>2
    <3> QED
      BY <1>4, <2>1, <3>2, <3>3
  <2> QED
    BY <2>1 DEF ServedApart
<1> QED
  BY <1>6, <1>7, <1>8 DEF InOrder

LEMMA RestoreOrder ==
  ASSUME GuildTypeOK, OnceInv, NEW a \in Claimers, OthersKept(a),
         claim'[a] = NoClaim, UNCHANGED served, reopened \subseteq reopened',
         \A f \in DOMAIN claim[a].set : keys[f] = claim[a].set[f],
         keys' = Overwrite(keys, claim[a].was)
  PROVE  OrderInv'
<1>1. SUFFICES ASSUME NEW f \in Fields, f \notin reopened'
               PROVE  InOrder(f)'
  BY DEF OrderInv
<1>2. InOrder(f)
  BY <1>1 DEF OnceInv, OrderInv
<1>3. ASSUME NEW b \in Claimers, Has(b, f)'
      PROVE  /\ b # a /\ Has(b, f) /\ Set(b, f)' = Set(b, f)
             /\ Was(b, f)' = Was(b, f)
  BY <1>3, NoneHasNext DEF OthersKept, Has, Set, Was
<1>4. DOMAIN claim[a].was = DOMAIN claim[a].set
  BY ClaimParts DEF GuildTypeOK
<1>5. ServedApart(f)' /\ ClaimsApart(f)'
  BY <1>2, <1>3 DEF InOrder, ServedApart, ClaimsApart
<1>6. CASE Has(a, f)
  <2>1. keys[f] = Set(a, f) /\ keys'[f] = Was(a, f)
    BY <1>4, <1>6 DEF Has, Set, Was, Overwrite
  <2>2. Set(a, f) \in Nat /\ Was(a, f) \in Int
    BY <1>6, ClaimTypes
  <2>3. ServedBelow(f)'
    BY <1>2, <1>6, <2>1, <2>2 DEF InOrder, ServedBelow, ServedApart
  <2>4. ClaimedBelow(f)'
    <3>1. ASSUME NEW b \in Claimers, Has(b, f)'
          PROVE  Was(b, f)' <= Set(b, f)' /\ Set(b, f)' <= keys'[f]
      <4>1. b # a /\ Has(b, f) /\ Set(b, f)' = Set(b, f) /\ Was(b, f)' = Was(b, f)
        BY <1>3, <3>1
      <4>2. /\ Was(b, f) <= Set(b, f) /\ Set(b, f) <= Set(a, f)
            /\ Set(a, f) # Set(b, f)
            /\ Set(a, f) <= Was(b, f) \/ Set(b, f) <= Was(a, f)
        BY <1>2, <1>6, <2>1, <4>1 DEF InOrder, ClaimedBelow, ClaimsApart
      <4>3. Set(b, f) \in Nat /\ Was(b, f) \in Int
        BY <4>1, ClaimTypes
      <4> QED
        BY <2>1, <2>2, <4>1, <4>2, <4>3
    <3> QED
      BY <3>1 DEF ClaimedBelow
  <2> QED
    BY <1>5, <2>3, <2>4 DEF InOrder
<1>7. CASE ~Has(a, f)
  <2>1. keys'[f] = keys[f]
    BY <1>4, <1>7 DEF Has, Overwrite
  <2>2. ServedBelow(f)' /\ ClaimedBelow(f)'
    BY <1>2, <1>3, <2>1 DEF InOrder, ServedBelow, ClaimedBelow
  <2> QED
    BY <1>5, <2>2 DEF InOrder
<1> QED
  BY <1>6, <1>7

LEMMA AdminOrder ==
  ASSUME GuildInv, OnceInv, UNCHANGED <<claim, served, reopened>>,
         keys' = keys \/ keys' = [keys EXCEPT !["cleanup"] = clock]
  PROVE  OrderInv'
<1>1. SUFFICES ASSUME NEW f \in Fields, f \notin reopened
               PROVE  InOrder(f)'
  BY DEF OrderInv
<1>2. InOrder(f)
  BY <1>1 DEF OnceInv, OrderInv
<1>3. keys[f] <= keys'[f] /\ keys[f] \in Int /\ keys'[f] \in Int
  BY KeyTypes DEF GuildInv, GuildTypeOK
<1>4. ServedApart(f)' /\ ClaimsApart(f)'
  BY <1>2 DEF InOrder, ServedApart, ClaimsApart, Has, Set, Was
<1>5. ServedBelow(f)'
  BY <1>2, <1>3 DEF InOrder, ServedBelow
<1>6. ClaimedBelow(f)'
  <2>1. ASSUME NEW a \in Claimers, Has(a, f)
        PROVE  Was(a, f) <= Set(a, f) /\ Set(a, f) <= keys'[f]
    <3>1. Set(a, f) \in Nat /\ Set(a, f) <= keys[f] /\ Was(a, f) <= Set(a, f)
      BY <1>2, <2>1, ClaimTypes DEF InOrder, ClaimedBelow, GuildInv
    <3> QED
      BY <1>3, <3>1
  <2> QED
    BY <2>1 DEF ClaimedBelow, Has, Set, Was
<1> QED
  BY <1>4, <1>5, <1>6 DEF InOrder

\* What a claim and a rollback do.
LEMMA TakesFacts ==
  ASSUME GuildTypeOK, NEW a \in Claimers, NEW s \in ClaimSets, Takes(a, s)
  PROVE  \/ UNCHANGED guildVars
         \/ /\ keys' = Overwrite(keys, s) /\ UNCHANGED <<served, repeated>>
            /\ reopened' = reopened \cup {f \in DOMAIN s : keys[f] > s[f]}
            /\ \/ claim'[a] = [set |-> s, was |-> [f \in DOMAIN s |-> keys[f]]]
               \/ claim'[a] = NoClaim
  BY DEF Takes, Claims, GuildTypeOK

LEMMA RollbackFacts ==
  ASSUME GuildTypeOK, NEW a \in Claimers, Rollback(a)
  PROVE  /\ claim'[a] = NoClaim /\ UNCHANGED <<served, repeated>>
         /\ reopened \subseteq reopened'
         /\ \/ UNCHANGED keys
            \/ /\ \A f \in DOMAIN claim[a].set : keys[f] = claim[a].set[f]
               /\ keys' = Overwrite(keys, claim[a].was)
               /\ "wakeup" \in DOMAIN claim[a].set => "cleanup" \in reopened'
  BY DEF Rollback, GuildTypeOK

LEMMA NewClaim ==
  ASSUME NEW a, NEW s, claim'[a] = [set |-> s, was |-> [f \in DOMAIN s |-> keys[f]]]
  PROVE  /\ claim'[a].set = s /\ DOMAIN claim'[a].was = DOMAIN s
         /\ \A f \in DOMAIN s : claim'[a].was[f] = keys[f]
  OBVIOUS

LEMMA TakenKeys ==
  ASSUME NEW s, keys' = Overwrite(keys, s),
         reopened' = reopened \cup {g \in DOMAIN s : keys[g] > s[g]},
         NEW f \in Fields
  PROVE  /\ f \in DOMAIN s => keys'[f] = s[f]
         /\ f \notin DOMAIN s => keys'[f] = keys[f]
         /\ f \in DOMAIN s /\ f \notin reopened' => ~(keys[f] > s[f])
  BY DEF Overwrite

\* A morning that is claimed in order.
LEMMA TakenMorning ==
  ASSUME GuildTypeOK, OnceInv, NEW s \in ClaimSets, StateShape(s),
         keys' = Overwrite(keys, s),
         reopened' = reopened \cup {f \in DOMAIN s : keys[f] > s[f]},
         "wakeup" \in DOMAIN s, "cleanup" \notin reopened'
  PROVE  /\ s["cleanup"] \in Nat /\ keys["cleanup"] <= s["cleanup"]
         /\ Awake(s["cleanup"]) /\ keys'["wakeup"] = Day(s["cleanup"])
         /\ keys'["cleanup"] = s["cleanup"] /\ keys["wakeup"] <= Day(s["cleanup"])
         /\ Day(s["cleanup"]) \in Nat /\ DOMAIN s = {"wakeup", "cleanup"}
<1>1. /\ DOMAIN s = {"wakeup", "cleanup"}
      /\ s["wakeup"] = Day(s["cleanup"]) /\ Awake(s["cleanup"])
  BY ShapeCases
<1>2. s["cleanup"] \in Nat
  BY <1>1 DEF ClaimSets
<1>3. ~(keys["cleanup"] > s["cleanup"]) /\ "cleanup" \notin reopened
  BY <1>1, TakenKeys, CleanupIsField
<1>4. keys["cleanup"] <= s["cleanup"]
  BY <1>2, <1>3, KeyTypes, CleanupIsField
<1>5. keys["wakeup"] <= Day(s["cleanup"]) /\ Day(s["cleanup"]) \in Nat
  BY <1>2, <1>3, <1>4, LastMorningBound DEF OnceInv
<1>6. keys'["wakeup"] = s["wakeup"] /\ keys'["cleanup"] = s["cleanup"]
  BY <1>1, TakenKeys, CleanupIsField
<1> QED
  BY <1>1, <1>2, <1>4, <1>5, <1>6

\* Unless the cleanups are reopened, mornings only go forward.
LEMMA WakeupGrows ==
  ASSUME GuildInv, OnceInv, NEW a \in Claimers, GuildStep(a),
         "cleanup" \notin reopened'
  PROVE  keys["wakeup"] <= keys'["wakeup"] /\ "cleanup" \notin reopened
<1>0. GuildTypeOK /\ keys["wakeup"] \in Int
  BY KeyTypes, CleanupIsField DEF GuildInv
<1>1. CASE UNCHANGED guildVars \/ Fails
  BY <1>0, <1>1 DEF guildVars, Fails, history
<1>2. ASSUME NEW s \in ClaimSets, Takes(a, s), ~UNCHANGED guildVars
      PROVE  keys["wakeup"] <= keys'["wakeup"] /\ "cleanup" \notin reopened
  <2>1. /\ keys' = Overwrite(keys, s)
        /\ reopened' = reopened \cup {f \in DOMAIN s : keys[f] > s[f]}
    BY <1>0, <1>2, TakesFacts
  <2>2. CASE "wakeup" \in DOMAIN s
    BY <1>0, <1>2, <2>1, <2>2, TakenMorning DEF Takes
  <2>3. CASE "wakeup" \notin DOMAIN s
    <3>1. keys'["wakeup"] = keys["wakeup"]
      BY <2>1, <2>3, TakenKeys, CleanupIsField
    <3> QED
      BY <1>0, <2>1, <3>1
  <2> QED
    BY <2>2, <2>3
<1>3. CASE Serve(a)
  BY <1>0, <1>3 DEF Serve
<1>4. CASE Dies(a)
  BY <1>0, <1>4 DEF Dies
<1>5. CASE Rollback(a)
  <2>1. \/ UNCHANGED keys
        \/ /\ keys' = Overwrite(keys, claim[a].was)
           /\ "wakeup" \notin DOMAIN claim[a].set
    BY <1>0, <1>5, RollbackFacts
  <2>2. DOMAIN claim[a].was = DOMAIN claim[a].set
    BY <1>0, ClaimParts DEF GuildTypeOK
  <2>3. keys'["wakeup"] = keys["wakeup"]
    BY <2>1, <2>2, CleanupIsField DEF Overwrite
  <2> QED
    BY <1>0, <1>5, <2>3, RollbackFacts
<1> QED
  BY <1>1, <1>2, <1>3, <1>4, <1>5 DEF GuildStep

\* Work is only added by the actor that moves.
LEMMA WorkNext ==
  ASSUME GuildTypeOK, NEW a \in Claimers, OthersKept(a), NEW p \in InWork'
  PROVE  p \in InWork \/ p \in Pairs(claim'[a].set)
<1>1. PICK b \in Claimers : p \in Pairs(claim'[b].set)
  BY DEF InWork
<1>2. CASE b = a
  BY <1>1, <1>2
<1>3. CASE b # a
  BY <1>1, <1>3 DEF InWork, OthersKept
<1> QED
  BY <1>2, <1>3

LEMMA NoPairs ==
  ASSUME NEW a, claim'[a] = NoClaim
  PROVE  Pairs(claim'[a].set) = {}
  BY NoClaimIsClaim DEF Pairs

\* Cleanups go on to come after their mornings.
LEMMA MorningFirstNext ==
  ASSUME GuildInv, GuildTypeOK', OnceInv, NEW a \in Claimers, GuildStep(a)
  PROVE  MorningFirst'
<1>0. GuildTypeOK /\ OthersKept(a)
  BY GuildStepKeeps DEF GuildInv
<1>1. SUFFICES ASSUME "cleanup" \notin reopened', NEW t \in Nat, Awake(t),
                      <<"cleanup", t>> \in served' \cup InWork'
               PROVE  keys'["wakeup"] >= Day(t)
  BY DEF MorningFirst
<1>2. keys["wakeup"] <= keys'["wakeup"] /\ "cleanup" \notin reopened
  BY <1>1, WakeupGrows
<1>3. keys["wakeup"] \in Int /\ keys'["wakeup"] \in Int /\ Day(t) \in Nat
  BY <1>0, KeyTypes, CleanupIsField, DayMono DEF GuildTypeOK, Key, NoKey
<1>4. ASSUME <<"cleanup", t>> \in served \cup InWork
      PROVE  keys'["wakeup"] >= Day(t)
  BY <1>1, <1>2, <1>3, <1>4 DEF OnceInv, MorningFirst
<1>5. CASE UNCHANGED guildVars \/ Fails
  BY <1>1, <1>4, <1>5 DEF guildVars, Fails, history, InWork
<1>6. CASE Serve(a)
  <2>1. Pairs(claim[a].set) \subseteq InWork
    BY DEF InWork
  <2>2. claim'[a] = NoClaim /\ served' = served \cup Pairs(claim[a].set)
    BY <1>0, <1>6 DEF Serve, GuildTypeOK
  <2>3. InWork' \subseteq InWork
    BY <1>0, <2>2, WorkNext, NoPairs
  <2> QED
    BY <1>1, <1>4, <2>1, <2>2, <2>3
<1>7. CASE Dies(a) \/ Rollback(a)
  <2>1. claim'[a] = NoClaim /\ served' = served
    BY <1>0, <1>7 DEF Dies, Rollback, GuildTypeOK
  <2>2. InWork' \subseteq InWork
    BY <1>0, <2>1, WorkNext, NoPairs
  <2> QED
    BY <1>1, <1>4, <2>1, <2>2
<1>8. ASSUME NEW s \in ClaimSets, Takes(a, s), ~UNCHANGED guildVars
      PROVE  keys'["wakeup"] >= Day(t)
  <2>1. /\ keys' = Overwrite(keys, s) /\ served' = served
        /\ reopened' = reopened \cup {f \in DOMAIN s : keys[f] > s[f]}
        /\ \/ claim'[a] = [set |-> s, was |-> [f \in DOMAIN s |-> keys[f]]]
           \/ claim'[a] = NoClaim
    BY <1>0, <1>8, TakesFacts
  <2>2. <<"cleanup", t>> \in served \cup InWork
        \/ ("cleanup" \in DOMAIN s /\ t = s["cleanup"])
    <3>1. Pairs(claim'[a].set) \subseteq Pairs(s)
      BY <2>1, NewClaim, NoPairs
    <3>2. <<"cleanup", t>> \in served \cup InWork \cup Pairs(s)
      BY <1>0, <1>1, <2>1, <3>1, WorkNext
    <3> QED
      BY <3>2 DEF Pairs
  <2>3. CASE "cleanup" \in DOMAIN s /\ t = s["cleanup"]
    <3>1. CASE "wakeup" \in DOMAIN s
      <4>1. keys'["wakeup"] = Day(t)
        BY <1>0, <1>1, <1>8, <2>1, <2>3, <3>1, TakenMorning DEF Takes
      <4> QED
        BY <1>3, <4>1
    <3>2. CASE "wakeup" \notin DOMAIN s
      <4>1. DOMAIN s = {"cleanup"}
        BY <1>8, <2>3, <3>2, ShapeCases DEF Takes
      <4>2. MorningKnown(t)
        BY <1>8, <2>3, <4>1 DEF Takes, OnceInv
      <4> QED
        BY <1>1, <1>2, <1>3, <4>2 DEF MorningKnown
    <3> QED
      BY <3>1, <3>2
  <2> QED
    BY <1>4, <2>2, <2>3
<1> QED
  BY <1>5, <1>6, <1>7, <1>8 DEF GuildStep

LEMMA ProtectsKept ==
  ASSUME NEW t \in Nat, Protects(t), keys'["wakeup"] = keys["wakeup"],
         t <= keys'["cleanup"], NEW a \in Claimers, OthersKept(a),
         DOMAIN claim'[a].set = {"cleanup"} =>
           Was(a, "cleanup")' >= t \/ Set(a, "cleanup")' < t
  PROVE  Protects(t)'
<1>1. ASSUME NEW b \in Claimers, DOMAIN claim'[b].set = {"cleanup"}
      PROVE  Was(b, "cleanup")' >= t \/ Set(b, "cleanup")' < t
  BY <1>1 DEF Protects, OthersKept, Set, Was
<1>2. Day(t) >= keys'["wakeup"]
  BY DEF Protects
<1> QED
  BY <1>1, <1>2 DEF Protects

\* The last morning goes on to be protected.
LEMMA LastMorningNext ==
  ASSUME GuildInv, GuildTypeOK', OnceInv, NEW a \in Claimers, GuildStep(a)
  PROVE  LastMorning'
<1>0. GuildTypeOK /\ OthersKept(a)
  BY GuildStepKeeps DEF GuildInv
<1>1. SUFFICES ASSUME "cleanup" \notin reopened', keys'["wakeup"] # NoKey
               PROVE  \E t \in Nat : Protects(t)'
  BY DEF LastMorning
<1>2. "cleanup" \notin reopened
  BY <1>1, WakeupGrows
<1>3. keys["cleanup"] \in Int /\ keys["wakeup"] \in Int
  BY <1>0, KeyTypes, CleanupIsField
<1>4. keys["wakeup"] # NoKey => \E t \in Nat : Protects(t)
  BY <1>2 DEF OnceInv, LastMorning
<1>5. ASSUME UNCHANGED keys, claim'[a] = NoClaim \/ claim'[a] = claim[a]
      PROVE  \E t \in Nat : Protects(t)'
  <2>1. PICK t \in Nat : Protects(t)
    BY <1>1, <1>4, <1>5
  <2>2. DOMAIN claim'[a].set = {"cleanup"} =>
           Was(a, "cleanup")' >= t \/ Set(a, "cleanup")' < t
    BY <1>5, <2>1, NoClaimIsClaim DEF Protects, Was, Set
  <2>3. t <= keys'["cleanup"]
    BY <1>5, <2>1 DEF Protects
  <2> QED
    BY <1>0, <1>5, <2>1, <2>2, <2>3, ProtectsKept
<1>6. CASE UNCHANGED guildVars \/ Fails \/ Serve(a) \/ Dies(a)
  BY <1>0, <1>5, <1>6 DEF guildVars, Fails, Serve, Dies, history, GuildTypeOK
<1>7. CASE Rollback(a)
  <2>1. claim'[a] = NoClaim
    BY <1>0, <1>7, RollbackFacts
  <2>2. CASE UNCHANGED keys
    BY <1>5, <2>1, <2>2
  <2>3. CASE ~UNCHANGED keys
    <3>1. /\ \A f \in DOMAIN claim[a].set : keys[f] = claim[a].set[f]
          /\ keys' = Overwrite(keys, claim[a].was)
          /\ "wakeup" \notin DOMAIN claim[a].set
      BY <1>0, <1>1, <1>7, <2>3, RollbackFacts
    <3>2. DOMAIN claim[a].was = DOMAIN claim[a].set
      BY <1>0, ClaimParts DEF GuildTypeOK
    <3>3. keys'["wakeup"] = keys["wakeup"]
      BY <3>1, <3>2, CleanupIsField DEF Overwrite
    <3>4. PICK t \in Nat : Protects(t)
      BY <1>1, <1>4, <3>3
    <3>5. t <= keys'["cleanup"]
      <4>1. CASE "cleanup" \in DOMAIN claim[a].set
        <5>1. DOMAIN claim[a].set = {"cleanup"}
          BY <3>1, <4>1, ShapeCases DEF GuildInv
        <5>2. /\ Set(a, "cleanup") = keys["cleanup"]
              /\ keys'["cleanup"] = Was(a, "cleanup")
          BY <3>1, <3>2, <4>1, CleanupIsField DEF Overwrite, Set, Was
        <5>3. Was(a, "cleanup") \in Int
          BY <1>0, <4>1, ClaimTypes DEF Has
        <5> QED
          BY <1>3, <3>4, <5>1, <5>2, <5>3 DEF Protects
      <4>2. CASE "cleanup" \notin DOMAIN claim[a].set
        <5>1. keys'["cleanup"] = keys["cleanup"]
          BY <3>1, <3>2, <4>2, CleanupIsField DEF Overwrite
        <5> QED
          BY <3>4, <5>1 DEF Protects
      <4> QED
        BY <4>1, <4>2
    <3>6. DOMAIN claim'[a].set # {"cleanup"}
      BY <2>1, NoClaimIsClaim
    <3> QED
      BY <1>0, <3>3, <3>4, <3>5, <3>6, ProtectsKept
  <2> QED
    BY <2>2, <2>3
<1>8. ASSUME NEW s \in ClaimSets, Takes(a, s), ~UNCHANGED guildVars
      PROVE  \E t \in Nat : Protects(t)'
  <2>1. /\ keys' = Overwrite(keys, s)
        /\ reopened' = reopened \cup {f \in DOMAIN s : keys[f] > s[f]}
        /\ \/ claim'[a] = [set |-> s, was |-> [f \in DOMAIN s |-> keys[f]]]
           \/ claim'[a] = NoClaim
    BY <1>0, <1>8, TakesFacts
  <2>2. StateShape(s) /\ NewKeys(s) /\ claim[a] = NoClaim
    BY <1>8 DEF Takes
  <2>3. CASE "wakeup" \in DOMAIN s
    <3> DEFINE t == s["cleanup"]
    <3>1. /\ t \in Nat /\ keys["cleanup"] <= t /\ keys'["wakeup"] = Day(t)
          /\ keys'["cleanup"] = t /\ Day(t) \in Nat
          /\ DOMAIN s = {"wakeup", "cleanup"}
      BY <1>0, <1>1, <2>1, <2>2, <2>3, TakenMorning
    <3>2. \/ keys["cleanup"] < t
          \/ \A b \in Claimers : Has(b, "cleanup") => Set(b, "cleanup") # t
      BY <1>0, <1>2, <2>2, <3>1, NothingTwice
    <3>3. ASSUME NEW b \in Claimers, DOMAIN claim'[b].set = {"cleanup"}
          PROVE  Set(b, "cleanup")' < t
      <4>1. b # a
        BY <2>1, <3>1, <3>3, NewClaim, NoClaimIsClaim
      <4>2. Has(b, "cleanup") /\ Set(b, "cleanup")' = Set(b, "cleanup")
        BY <1>0, <3>3, <4>1 DEF OthersKept, Has, Set
      <4>3. Set(b, "cleanup") <= keys["cleanup"]
        BY <1>2, <4>2, CleanupIsField DEF OnceInv, OrderInv, InOrder, ClaimedBelow
      <4>4. Set(b, "cleanup") \in Nat
        BY <1>0, <4>2, ClaimTypes
      <4> QED
        BY <1>3, <3>1, <3>2, <4>2, <4>3, <4>4
    <3> HIDE DEF t
    <3>4. Protects(t)'
      BY <3>1, <3>3 DEF Protects
    <3> QED
      BY <3>1, <3>4
  <2>4. CASE "wakeup" \notin DOMAIN s
    <3>1. keys'["wakeup"] = keys["wakeup"]
      BY <2>1, <2>4, TakenKeys, CleanupIsField
    <3>2. PICK t \in Nat : Protects(t)
      BY <1>1, <1>4, <3>1
    <3>3. CASE "cleanup" \in DOMAIN s
      <4>1. keys'["cleanup"] = s["cleanup"] /\ ~(keys["cleanup"] > s["cleanup"])
            /\ s["cleanup"] \in Nat
        BY <1>1, <2>1, <3>3, TakenKeys, CleanupIsField DEF ClaimSets
      <4>2. t <= keys["cleanup"]
        BY <3>2 DEF Protects
      <4>3. t <= keys'["cleanup"]
        BY <1>3, <4>1, <4>2
      <4>4. DOMAIN claim'[a].set = {"cleanup"} => Was(a, "cleanup")' >= t
        <5>1. CASE claim'[a] = NoClaim
          BY <5>1, NoClaimIsClaim
        <5>2. CASE claim'[a] = [set |-> s, was |-> [f \in DOMAIN s |-> keys[f]]]
          <6>1. claim'[a].was["cleanup"] = keys["cleanup"]
            BY <3>3, <5>2, NewClaim
          <6> QED
            BY <1>3, <4>2, <6>1 DEF Was
        <5> QED
          BY <2>1, <5>1, <5>2
      <4> QED
        BY <1>0, <3>1, <3>2, <4>3, <4>4, ProtectsKept
    <3>4. CASE "cleanup" \notin DOMAIN s
      <4>1. keys'["cleanup"] = keys["cleanup"]
        BY <2>1, <3>4, TakenKeys, CleanupIsField
      <4>2. DOMAIN claim'[a].set # {"cleanup"}
        BY <2>1, <3>4, NewClaim, NoClaimIsClaim
      <4>3. t <= keys'["cleanup"]
        BY <3>2, <4>1 DEF Protects
      <4> QED
        BY <1>0, <3>1, <3>2, <4>2, <4>3, ProtectsKept
    <3> QED
      BY <3>3, <3>4
  <2> QED
    BY <2>3, <2>4
<1> QED
  BY <1>6, <1>7, <1>8 DEF GuildStep

\* Only a look at the config brings a sweeper to a claim.
LEMMA SweeperWaits ==
  ASSUME StateInv, [Next]_vars, NEW b \in Sweepers, task'[b].at = "claim"
  PROVE  task'[b] = task[b] \/ (SweepScan(b) /\ UNCHANGED guildVars)
<1>0. task \in [Workers -> Task] /\ b \in Workers /\ b \notin Reporters \cup Reminders
  BY WorkersAssumption DEF StateInv, NoticeInv, NoticeTypeOK, Workers
<1>1. CASE UNCHANGED task
  BY <1>1
<1>2. ASSUME NEW a \in Workers, TickBegin(a) \/ WorkerStep(a) \/ WorkerDies(a), a # b
      PROVE  task'[b] = task[b]
  BY <1>0, <1>2
     DEF TickBegin, WorkerStep, WorkerDies, SweepScan, SweepClaim, Bedtime, Clean,
         ReportScan, Summary, ClaimReport, RemindScan, RemindClaim, Send, Release,
         Step, Rest
<1>3. CASE TickBegin(b) \/ WorkerStep(b) \/ WorkerDies(b)
  <2>1. ~(TickBegin(b) \/ SweepClaim(b) \/ Bedtime(b) \/ Clean(b) \/ Summary(b)
          \/ ClaimReport(b) \/ Send(b) \/ Release(b) \/ WorkerDies(b))
    <3>1. ~Rest(b) /\ ~\E s : Step(b, s) /\ s # "claim"
      <4>1. Rest(b) => task'[b].at = "idle"
        BY <1>0 DEF Rest, Idle
      <4>2. ASSUME NEW s, Step(b, s) PROVE task'[b].at = s
        BY <1>0, <4>2 DEF Step, Task
      <4> QED
        BY <4>1, <4>2
    <3>2. ~(Summary(b) \/ WorkerDies(b) \/ Release(b))
      BY <3>1 DEF WorkerDies, Summary, Release
    <3>3. ~TickBegin(b)
      BY <1>0 DEF TickBegin, Task
    <3>4. ~(SweepClaim(b) \/ ClaimReport(b))
      <4>1. ~Step(b, IF task[b].phase = "bedtime" THEN "bedtime" ELSE "clean")
        BY <3>1
      <4> QED
        <5>1. ~Step(b, "send") /\ ~Rest(b)
          BY <3>1
        <5>2. ~SweepClaim(b)
          BY <4>1, <5>1 DEF SweepClaim
        <5>3. ~ClaimReport(b)
          BY <5>1 DEF ClaimReport
        <5> QED
          BY <5>2, <5>3
    <3>5. ~(Bedtime(b) \/ Clean(b) \/ Send(b))
      BY <3>1 DEF Bedtime, Clean, Send
    <3> QED
      BY <3>2, <3>3, <3>4, <3>5
  <2>2. ~(ReportScan(b) \/ RemindScan(b) \/ RemindClaim(b))
    BY <1>0 DEF ReportScan, RemindScan, RemindClaim
  <2>3. SweepScan(b)
    BY <1>3, <2>1, <2>2 DEF WorkerStep
  <2>4. UNCHANGED guildVars
    BY <1>0, <2>3 DEF SweepScan, Rest, Idle
  <2> QED
    BY <2>3, <2>4
<1>4. CASE NoticeNext
  BY <1>1, <1>2, <1>3, <1>4 DEF NoticeNext, UsersFinish
<1>5. ~NoticeNext => UNCHANGED task
  BY DEF Next, vars, noticeVars
<1> QED
  BY <1>1, <1>4, <1>5

\* A sweeper that chose to clean up has seen the morning of the day.
LEMMA ScanKnows ==
  ASSUME GuildInv, NEW b \in Sweepers, SweepScan(b), task \in [Workers -> Task],
         task'[b].at = "claim", task'[b].phase = "cleanup"
  PROVE  MorningKnown(task'[b].now)
<1>0. b \in Workers /\ task[b].now \in Nat
  BY DEF Workers, Task
<1>1. task'[b].now = task[b].now /\ PhaseAt(task[b].now) = "cleanup"
  BY <1>0 DEF SweepScan, Rest, Idle
<1>2. Awake(task[b].now) => keys["wakeup"] = Day(task[b].now)
  BY <1>1 DEF PhaseAt
<1>3. Day(task[b].now) \in Nat
  BY <1>0, DayMono
<1> QED
  BY <1>1, <1>2, <1>3 DEF MorningKnown

LEMMA GuildMoves ==
  ASSUME StateInv, OnceInv, [Next]_vars
  PROVE  /\ reopened \subseteq reopened'
         /\ "cleanup" \notin reopened' => keys["wakeup"] <= keys'["wakeup"]
<1>0. GuildInv /\ keys["wakeup"] \in Int
  BY KeyTypes, CleanupIsField DEF StateInv, NoticeInv, GuildInv
<1>1. CASE UNCHANGED guildVars
  BY <1>0, <1>1 DEF guildVars, history
<1>2. CASE Admin
  <2>1. UNCHANGED reopened
    BY <1>2 DEF Admin, Edit, SetChannel, ClearChannel, ScheduleOn, ScheduleOff,
                ToggleReport, SendReportTo
  <2>2. UNCHANGED keys \/ keys' = [keys EXCEPT !["cleanup"] = clock]
    BY <1>2 DEF Admin, Edit, SetChannel, ClearChannel, ScheduleOn, ScheduleOff,
                ToggleReport, SendReportTo
  <2>3. keys'["wakeup"] = keys["wakeup"]
    BY <1>0, <2>2, CleanupIsField DEF GuildInv, GuildTypeOK
  <2> QED
    BY <1>0, <2>1, <2>3
<1>3. ASSUME NEW a \in Claimers, GuildStep(a)
      PROVE  /\ reopened \subseteq reopened'
             /\ "cleanup" \notin reopened' => keys["wakeup"] <= keys'["wakeup"]
  <2>1. reopened \subseteq reopened'
    BY <1>3 DEF GuildStep, guildVars, history, Fails, Takes, Claims, Serve, Rollback,
                Dies
  <2> QED
    BY <1>0, <1>3, <2>1, WakeupGrows
<1> QED
  BY <1>1, <1>2, <1>3, NextSteps

LEMMA SweepersKnowNext ==
  ASSUME StateInv, StateInv', OnceInv, [Next]_vars
  PROVE  SweepersKnow'
<1>0. /\ GuildInv /\ task \in [Workers -> Task] /\ task' \in [Workers -> Task]
      /\ keys["wakeup"] \in Int /\ keys'["wakeup"] \in Int
  BY CleanupIsField
     DEF StateInv, NoticeInv, NoticeTypeOK, GuildInv, GuildTypeOK, Key, NoKey
<1>1. SUFFICES ASSUME NEW b \in Sweepers, task'[b].at = "claim",
                      task'[b].phase = "cleanup", Awake(task'[b].now),
                      "cleanup" \notin reopened'
               PROVE  keys'["wakeup"] >= Day(task'[b].now)
  BY DEF SweepersKnow, MorningKnown
<1>2. MorningKnown(task'[b].now)
  <2>1. CASE task'[b] = task[b]
    BY <1>1, <2>1 DEF OnceInv, SweepersKnow
  <2>2. CASE SweepScan(b)
    BY <1>0, <1>1, <2>2, ScanKnows
  <2> QED
    BY <1>1, <2>1, <2>2, SweeperWaits
<1>3. task'[b].now \in Nat
  BY <1>0 DEF Workers, Task
<1>4. Day(task'[b].now) \in Nat
  BY <1>3, DayMono
<1>5. keys["wakeup"] >= Day(task'[b].now)
  BY <1>1, <1>2, GuildMoves DEF MorningKnown
<1> QED
  BY <1>0, <1>1, <1>4, <1>5, GuildMoves

LEMMA StepOrder ==
  ASSUME GuildInv, GuildTypeOK', OnceInv, NEW a \in Claimers, GuildStep(a)
  PROVE  OrderInv'
<1>0. GuildTypeOK /\ OthersKept(a)
  BY GuildStepKeeps DEF GuildInv
<1>1. CASE UNCHANGED guildVars \/ Fails
  <2>1. UNCHANGED <<keys, claim, served, reopened>>
    BY <1>1 DEF guildVars, history, Fails
  <2> QED
    BY <2>1, AdminOrder
<1>2. ASSUME NEW s \in ClaimSets, Takes(a, s), ~UNCHANGED guildVars
      PROVE  OrderInv'
  <2>1. StateShape(s) /\ NewKeys(s) /\ claim[a] = NoClaim
    BY <1>2 DEF Takes
  <2> QED
    BY <1>0, <1>2, <2>1, TakesFacts, TakesOrder
<1>3. CASE Serve(a)
  <2>1. /\ claim'[a] = NoClaim /\ UNCHANGED <<keys, reopened>>
        /\ served' = served \cup Pairs(claim[a].set)
    BY <1>0, <1>3 DEF Serve, GuildTypeOK
  <2> QED
    BY <1>0, <2>1, ServeOrder
<1>4. CASE Dies(a)
  <2>1. claim'[a] = NoClaim /\ UNCHANGED <<keys, served, reopened>>
    BY <1>0, <1>4 DEF Dies, GuildTypeOK
  <2> QED
    BY <1>0, <2>1, GivesBackOrder
<1>5. CASE Rollback(a)
  BY <1>0, <1>5, RollbackFacts, GivesBackOrder, RestoreOrder
<1> QED
  BY <1>1, <1>2, <1>3, <1>4, <1>5 DEF GuildStep

\* What is served again was reopened.
LEMMA StepOnce ==
  ASSUME GuildInv, OnceInv, NEW a \in Claimers, GuildStep(a)
  PROVE  OncePerKey'
<1>0. GuildTypeOK /\ repeated \subseteq reopened
  BY DEF GuildInv, OnceInv, OncePerKey
<1>1. CASE UNCHANGED guildVars \/ Fails
  BY <1>0, <1>1 DEF guildVars, history, Fails, OncePerKey
<1>2. ASSUME NEW s \in ClaimSets, Takes(a, s), ~UNCHANGED guildVars
      PROVE  OncePerKey'
  BY <1>0, <1>2, TakesFacts DEF OncePerKey
<1>3. CASE Serve(a)
  <2>1. SUFFICES ASSUME NEW p \in Pairs(claim[a].set) \cap served
                 PROVE  p[1] \in reopened
    BY <1>0, <1>3 DEF Serve, OncePerKey
  <2>2. PICK f \in DOMAIN claim[a].set : p = <<f, claim[a].set[f]>>
    BY DEF Pairs
  <2>3. Has(a, f) /\ f \in Fields /\ Set(a, f) \in Nat /\ <<f, Set(a, f)>> \in served
    BY <1>0, <2>2, ClaimTypes DEF Has, Set
  <2>4. ~ServedApart(f)
    BY <2>3 DEF ServedApart
  <2> QED
    BY <2>2, <2>3, <2>4 DEF OnceInv, OrderInv, InOrder
<1>4. CASE Dies(a) \/ Rollback(a)
  BY <1>0, <1>4, RollbackFacts DEF Dies, OncePerKey
<1> QED
  BY <1>1, <1>2, <1>3, <1>4 DEF GuildStep

\* Admins and the rest of the system keep the invariant.
LEMMA SettingsOnce ==
  ASSUME GuildInv, OnceInv,
         UNCHANGED <<claim, served, repeated, reopened>>,
         keys' = keys \/ keys' = [keys EXCEPT !["cleanup"] = clock]
  PROVE  OrderInv' /\ MorningFirst' /\ LastMorning' /\ OncePerKey'
<1>0. GuildTypeOK /\ clock \in Nat /\ keys["cleanup"] <= clock
      /\ keys["cleanup"] \in Int
  BY KeyTypes, CleanupIsField DEF GuildInv, GuildTypeOK
<1>1. keys'["wakeup"] = keys["wakeup"] /\ keys["cleanup"] <= keys'["cleanup"]
      /\ keys'["cleanup"] \in Int
  BY <1>0, CleanupIsField DEF GuildTypeOK
<1>2. MorningFirst'
  BY <1>1 DEF OnceInv, MorningFirst, InWork
<1>3. LastMorning'
  <2>1. ASSUME NEW t \in Nat, Protects(t) PROVE Protects(t)'
    <3>1. t <= keys["cleanup"]
      BY <2>1 DEF Protects
    <3>2. t <= keys'["cleanup"]
      BY <1>0, <1>1, <3>1
    <3> QED
      BY <1>1, <2>1, <3>2 DEF Protects, Was, Set
  <2> QED
    BY <1>1, <2>1 DEF OnceInv, LastMorning
<1> QED
  BY <1>2, <1>3, AdminOrder DEF OnceInv, OncePerKey

LEMMA OnceNext ==
  ASSUME StateInv, StateInv', OnceInv, [Next]_vars
  PROVE  OnceInv'
<1>0. GuildInv /\ GuildTypeOK'
  BY DEF StateInv, NoticeInv, GuildInv
<1>1. SweepersKnow'
  BY SweepersKnowNext
<1>2. CASE UNCHANGED guildVars
  <2>1. UNCHANGED <<keys, claim, served, repeated, reopened>>
    BY <1>2 DEF guildVars, history
  <2> QED
    BY <1>0, <1>1, <2>1, SettingsOnce DEF OnceInv
<1>3. CASE Admin
  <2>1. /\ UNCHANGED <<claim, served, repeated, reopened>>
        /\ keys' = keys \/ keys' = [keys EXCEPT !["cleanup"] = clock]
    BY <1>3 DEF Admin, Edit, SetChannel, ClearChannel, ScheduleOn, ScheduleOff,
                ToggleReport, SendReportTo
  <2> QED
    BY <1>0, <1>1, <2>1, SettingsOnce DEF OnceInv
<1>4. ASSUME NEW a \in Claimers, GuildStep(a)
      PROVE  OnceInv'
  BY <1>0, <1>1, <1>4, StepOrder, StepOnce, MorningFirstNext, LastMorningNext
     DEF OnceInv
<1> QED
  BY <1>2, <1>3, <1>4, NextSteps

LEMMA OnceInit ==
  ASSUME Init
  PROVE  OnceInv
<1>1. PICK w \in Workloads : ClaimInit(w) /\ NoticeInit(w)
  BY DEF Init
<1>2. /\ keys = [f \in Fields |-> NoKey] /\ claim = [a \in Claimers |-> NoClaim]
      /\ served = {} /\ repeated = {}
  BY <1>1 DEF ClaimInit
<1>3. ASSUME NEW a \in Claimers, NEW f PROVE ~Has(a, f)
  BY <1>2, NoneHas
<1>4. OrderInv
  BY <1>2, <1>3 DEF OrderInv, InOrder, ServedBelow, ClaimedBelow, ServedApart,
                    ClaimsApart
<1>5. InWork = {}
  BY <1>3 DEF InWork, Pairs, Has
<1>6. MorningFirst /\ LastMorning /\ OncePerKey
  BY <1>2, <1>5, CleanupIsField DEF MorningFirst, LastMorning, OncePerKey
<1>7. ASSUME NEW b \in Sweepers PROVE task[b].at # "claim"
  BY <1>1 DEF NoticeInit, Workers, Idle
<1> QED
  BY <1>4, <1>6, <1>7 DEF OnceInv, SweepersKnow

\* Nothing scheduled is done twice: over crashes, failing posts and rollbacks
\* of any number of processes, the work of one slot, day or week is done once,
\* unless the field was reopened by a scheduler that had fallen behind or by a
\* morning that was handed back.
THEOREM Once == Spec => []OncePerKey
<1>1. Init => OnceInv
  BY OnceInit
<1>2. StateInv /\ StateInv' /\ OnceInv /\ [Next]_vars => OnceInv'
  BY OnceNext
<1>3. Spec => []OnceInv
  BY <1>1, <1>2, StateInductive, PTL DEF Spec
<1>4. OnceInv => OncePerKey
  BY DEF OnceInv
<1> QED
  BY <1>3, <1>4, PTL
=============================================================================
