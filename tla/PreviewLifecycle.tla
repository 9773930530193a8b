-------------------------- MODULE PreviewLifecycle --------------------------
(***************************************************************************)
(* What the preview jobs of Local Sync promise, without leases, clocks or  *)
(* rosters: a job is offered once, at most one apply call holds it, only   *)
(* its holder settles it, it settles once, and its owner is told of an     *)
(* applied job only.  PreviewJobs implements this.                         *)
(***************************************************************************)
CONSTANTS
  Jobs,  \* job ids
  Calls, \* apply calls
  None   \* nobody holds the job

VARIABLES
  stage,  \* where each job stands
  holder, \* the call that may settle it
  told    \* jobs whose owner was told that they are applied

vars == <<stage, holder, told>>

Stages == {"none", "open", "applied", "failed", "withdrawn", "gone"}

Init ==
  /\ stage = [j \in Jobs |-> "none"]
  /\ holder = [j \in Jobs |-> None]
  /\ told = {}

Offer(j) ==
  /\ stage[j] = "none"
  /\ stage' = [stage EXCEPT ![j] = "open"]
  /\ UNCHANGED <<holder, told>>

\* A free call takes an open job, from nobody or from a call that lost it.
Take(c, j) ==
  /\ stage[j] = "open" /\ \A i \in Jobs : holder[i] # c
  /\ holder' = [holder EXCEPT ![j] = c]
  /\ UNCHANGED <<stage, told>>

\* Calls give their jobs back: one that failed, or all of a dead process.
Yield(C) ==
  /\ holder' = [j \in Jobs |-> IF holder[j] \in C THEN None ELSE holder[j]]
  /\ UNCHANGED <<stage, told>>

Settle(c, j, outcome) ==
  /\ stage[j] = "open" /\ holder[j] = c
  /\ stage' = [stage EXCEPT ![j] = outcome]
  /\ holder' = [holder EXCEPT ![j] = None]
  /\ UNCHANGED told

\* The owner cancels a job or a newer scan replaces the open ones.
Withdraw(S) ==
  /\ \A j \in S : stage[j] = "open"
  /\ stage' = [j \in Jobs |-> IF j \in S THEN "withdrawn" ELSE stage[j]]
  /\ holder' = [j \in Jobs |-> IF j \in S THEN None ELSE holder[j]]
  /\ UNCHANGED told

Drop(j) ==
  /\ stage[j] \notin {"none", "gone"}
  /\ stage' = [stage EXCEPT ![j] = "gone"]
  /\ holder' = [holder EXCEPT ![j] = None]
  /\ UNCHANGED told

Tell(j) ==
  /\ stage[j] \in {"applied", "gone"}
  /\ told' = told \cup {j}
  /\ UNCHANGED <<stage, holder>>

Next ==
  \/ \E j \in Jobs : Offer(j) \/ Drop(j) \/ Tell(j)
  \/ \E c \in Calls, j \in Jobs : Take(c, j)
  \/ \E c \in Calls, j \in Jobs : Settle(c, j, "applied")
  \/ \E c \in Calls, j \in Jobs : Settle(c, j, "failed")
  \/ \E C \in SUBSET Calls : Yield(C)
  \/ \E S \in SUBSET Jobs : Withdraw(S)

Spec == Init /\ [][Next]_vars
=============================================================================
