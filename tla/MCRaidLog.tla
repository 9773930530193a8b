------------------------------ MODULE MCRaidLog ------------------------------
(***************************************************************************)
(* Instance of RaidLogCapture for TLC: one log with two views.             *)
(***************************************************************************)
EXTENDS RaidLogCapture, TLC

CONSTANTS c1, c2, c3, g1, g2, g3, kA, kB, lA

OneLog == [k \in Keys |-> lA]

Plain(k) == [key |-> k, refresh |-> FALSE]
Refresh(k) == [key |-> k, refresh |-> TRUE]

\* A refresh of one view among callers of the other; a refresh beside a view
\* cached before; a refresh that shares the limiter with a sync request; sync
\* requests among themselves.
FourWorkloads ==
  {[asks |-> (c1 :> Plain(kA) @@ c2 :> Refresh(kB) @@ c3 :> Plain(kA)),
    others |-> {}, from |-> 1, cached |-> {}],
   [asks |-> (c1 :> Plain(kA) @@ c2 :> Refresh(kB)),
    others |-> {}, from |-> 0, cached |-> {kA}],
   [asks |-> (c1 :> Plain(kA) @@ c2 :> Refresh(kB)),
    others |-> {g1}, from |-> 1, cached |-> {}],
   [asks |-> <<>>, others |-> {g1, g2, g3}, from |-> 0, cached |-> {}]}
=============================================================================
