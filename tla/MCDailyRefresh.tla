--------------------------- MODULE MCDailyRefresh ---------------------------
(***************************************************************************)
(* Instances of DailyRefresh for TLC.                                      *)
(***************************************************************************)
EXTENDS DailyRefresh

CONSTANTS p1, p2

\* Commands run in the last process: alone, or beside the other scheduler.
HomeP1 == [c \in Commands |-> p1]
HomeP2 == [c \in Commands |-> p2]

\* One retry, or the three of the code with equal waits.
OneRetry == <<1>>
ThreeRetries == <<1, 1, 1>>
=============================================================================
