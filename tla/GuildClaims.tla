---------------------------- MODULE GuildClaims ----------------------------
(***************************************************************************)
(* The config document of a guild and the claims of its scheduled posts    *)
(* (services/raid/schedulers/guild-state-claim.js).                        *)
(*                                                                         *)
(* A scheduler that wants to do the work of a slot, a day or a week first  *)
(* writes the key of it into the field of the config that remembers the    *)
(* last one, in one guarded update.  When the work fails it restores what  *)
(* its update replaced, unless somebody has written since.  Admin commands *)
(* change the same document.                                               *)
(*                                                                         *)
(* Keys are the numbers of slots, days and weeks: the code's strings are   *)
(* compared for equality only.                                             *)
(***************************************************************************)
EXTENDS Integers, FiniteSets

CONSTANTS
  Claimers,   \* whoever claims: the schedulers of the bot processes
  Channels,   \* channels of the guild
  NoChannel,  \* no channel
  Workloads,  \* bound: who takes part, see Init of the composition
  Horizon     \* bound: the clock stops here

ASSUME ChannelAssumption == NoChannel \notin Channels
ASSUME HorizonAssumption == Horizon \in Nat

VARIABLES
  clock,     \* in slots
  config,    \* the settings of the guild
  keys,      \* [Fields -> Key]: last...Key of the config
  claim,     \* [Claimers -> claim]: what its claimer has work left for
  served,    \* history: <<field, key>> whose work was done
  repeated,  \* history: fields that had the work of one key done twice
  reopened,  \* history: fields of which a key may come up again: a claim has
             \* moved it back, or a morning, which counts as the cleanup of
             \* its slot, was handed back
  lapsed,    \* history: <<field, key>> given up: a crash, a failed update, a
             \* rollback that found another key, or skipped by an admin
  trouble,   \* bound: how many crashes and failing calls are still to come
  edits      \* bound: how many admin commands are still to come

history == <<served, repeated, reopened, lapsed>>
guildVars == <<config, keys, claim, history, trouble, edits>>

\* lastAutoCleanupKey, lastArtistWakeupKey, lastArtistBedtimeKey,
\* lastDailyRosterSyncKey, lastWeeklyAnnouncementKey, and
\* lastMaintenanceEarlyKey, lastMaintenanceCountdownKey and
\* lastWorldEventReminderKey
Reminded == {"early", "countdown", "event"}
Reports == {"daily", "weekly"} \cup Reminded
Fields == {"cleanup", "wakeup", "bedtime"} \cup Reports
NoKey == -1
Key == Nat \cup {NoKey}

Config == [channel : Channels \cup {NoChannel}, sweeping : BOOLEAN,
           on : [Reports -> BOOLEAN],
           to : [Reports -> Channels \cup {NoChannel}]]

\* claimedState and previousState, of the same fields.
IsClaim(c) ==
  \E F \in SUBSET Fields :
    /\ c = [set |-> c.set, was |-> c.was]
    /\ c.set \in [F -> Nat] /\ c.was \in [F -> Key]
NoClaim == [set |-> <<>>, was |-> <<>>]

Pairs(state) == {<<f, state[f]>> : f \in DOMAIN state}
Overwrite(old, state) ==
  [f \in Fields |-> IF f \in DOMAIN state THEN state[f] ELSE old[f]]

ClaimInit(w) ==
  /\ clock = w.from
  /\ config = w.config
  /\ keys = [f \in Fields |-> NoKey]
  /\ claim = [a \in Claimers |-> NoClaim]
  /\ served = {} /\ repeated = {} /\ reopened = {} /\ lapsed = {}
  /\ trouble = w.trouble
  /\ edits = w.edits

-----------------------------------------------------------------------------
(* Claims.  Each is part of a step of a scheduler.                         *)

\* claimGuildState: one update, guarded by what the caller saw.  Its answer
\* may be lost after it was applied.
Claims(a, guard, state) ==
  \/ /\ guard
     /\ keys' = Overwrite(keys, state)
     /\ reopened' = reopened \cup {f \in DOMAIN state : keys[f] > state[f]}
     /\ \/ /\ claim' = [claim EXCEPT ![a] =
                [set |-> state, was |-> [f \in DOMAIN state |-> keys[f]]]]
           /\ UNCHANGED <<lapsed, trouble>>
        \/ /\ trouble > 0
           /\ trouble' = trouble - 1
           /\ lapsed' = lapsed \cup Pairs(state)
           /\ UNCHANGED claim
     /\ UNCHANGED <<config, served, repeated, edits>>
  \/ ~guard /\ UNCHANGED guildVars

\* The work of a claim is done.
Serve(a) ==
  LET done == Pairs(claim[a].set)
  IN /\ served' = served \cup done
     /\ repeated' = repeated \cup {p[1] : p \in done \cap served}
     /\ claim' = [claim EXCEPT ![a] = NoClaim]
     /\ UNCHANGED <<config, keys, reopened, lapsed, trouble, edits>>

\* A call fails: Discord or the database.
Fails ==
  /\ trouble > 0
  /\ trouble' = trouble - 1
  /\ UNCHANGED <<config, keys, claim, history, edits>>

\* Mutated form: the restored fields become the whole document.
RollbackWhole(a) ==
  /\ keys' = claim[a].was
  /\ claim' = [claim EXCEPT ![a] = NoClaim]
  /\ UNCHANGED <<config, history, trouble, edits>>

\* releaseGuildClaim: what the claim replaced comes back, unless a field of it
\* has another value by now or the update fails.
Rollback(a) ==
  LET own == \A f \in DOMAIN claim[a].set : keys[f] = claim[a].set[f]
  IN /\ claim' = [claim EXCEPT ![a] = NoClaim]
     /\ \/ /\ own
           /\ keys' = Overwrite(keys, claim[a].was)
           /\ reopened' = reopened \cup
                (IF "wakeup" \in DOMAIN claim[a].set THEN {"cleanup"} ELSE {})
           /\ UNCHANGED <<lapsed, trouble>>
        \/ /\ ~own
           /\ lapsed' = lapsed \cup Pairs(claim[a].set)
           /\ UNCHANGED <<keys, reopened, trouble>>
        \/ /\ trouble > 0
           /\ trouble' = trouble - 1
           /\ lapsed' = lapsed \cup Pairs(claim[a].set)
           /\ UNCHANGED <<keys, reopened>>
     /\ UNCHANGED <<config, served, repeated, edits>>

\* The process of a claimer dies.
Dies(a) ==
  /\ trouble > 0
  /\ trouble' = trouble - 1
  /\ lapsed' = lapsed \cup Pairs(claim[a].set)
  /\ claim' = [claim EXCEPT ![a] = NoClaim]
  /\ UNCHANGED <<config, keys, served, repeated, reopened, edits>>

-----------------------------------------------------------------------------
(* Admin commands.                                                         *)

Edit(new) ==
  /\ edits > 0
  /\ edits' = edits - 1
  /\ config' = new
  /\ UNCHANGED <<clock, claim, served, repeated, reopened, trouble>>

\* /raid-channel config action:set and action:clear.
SetChannel(c) ==
  Edit([config EXCEPT !.channel = c]) /\ UNCHANGED <<keys, lapsed>>
ClearChannel ==
  /\ Edit([config EXCEPT !.channel = NoChannel, !.sweeping = FALSE])
  /\ UNCHANGED <<keys, lapsed>>

\* /raid-channel schedule: a sweep switched on leaves the running slot out.
\* The check that it was off is a read before the write and may fail.
ScheduleOn ==
  /\ config.channel # NoChannel
  /\ Edit([config EXCEPT !.sweeping = TRUE])
  /\ keys' = [keys EXCEPT !["cleanup"] = clock]
  /\ lapsed' = lapsed \cup {<<"cleanup", clock>>}
ScheduleOff ==
  Edit([config EXCEPT !.sweeping = FALSE]) /\ UNCHANGED <<keys, lapsed>>

\* /raid-announce: on, off, and a channel of its own.
ToggleReport(r) ==
  Edit([config EXCEPT !.on[r] = ~@]) /\ UNCHANGED <<keys, lapsed>>
SendReportTo(r, c) ==
  Edit([config EXCEPT !.to[r] = c]) /\ UNCHANGED <<keys, lapsed>>

Admin ==
  \/ ClearChannel \/ ScheduleOn \/ ScheduleOff
  \/ \E c \in Channels : SetChannel(c)
  \/ \E r \in Reports :
       \/ ToggleReport(r)
       \/ \E c \in Channels \cup {NoChannel} : SendReportTo(r, c)

Pass ==
  /\ clock < Horizon
  /\ clock' = clock + 1
  /\ UNCHANGED guildVars

GuildTypeOK ==
  /\ clock \in Nat
  /\ config \in Config
  /\ keys \in [Fields -> Key]
  /\ DOMAIN claim = Claimers /\ \A a \in Claimers : IsClaim(claim[a])
  /\ {served, lapsed} \subseteq SUBSET (Fields \X Nat)
  /\ {repeated, reopened} \subseteq SUBSET Fields
  /\ {trouble, edits} \subseteq Nat

\* What a claimer has still to do or to undo.
InWork == UNION {Pairs(claim[a].set) : a \in Claimers}

\* Nothing scheduled is done twice: over crashes, failing posts and rollbacks
\* of several processes, the work of one slot, day or week that was done is
\* not done again, unless a scheduler that had fallen behind claimed an older
\* key over a newer one (the guard compares for equality only), or a cleanup
\* that relied on the morning's claim was left without it by a rollback, and
\* the next morning of its slot cleans up once more.
OncePerKey == repeated \subseteq reopened

\* Nothing is lost to a failure that was handled: a key that stands in the
\* config was served, or a running scheduler still holds its claim and will
\* serve or restore it, or it was given up on one of the known ways.
KeysExplained ==
  \A f \in Fields : keys[f] # NoKey =>
    <<f, keys[f]>> \in served \cup lapsed \cup InWork
=============================================================================
