---------------------------- MODULE MCSyncViews ----------------------------
(***************************************************************************)
(* Instance of SyncViews for TLC: a file that LOA Logs writes to and one   *)
(* that rests, or a card with two clicks.                                  *)
(***************************************************************************)
EXTENDS SyncViews

CONSTANTS f1, f2, k1, k2

OneWritten == [f \in Files |-> IF f = f1 THEN 3 ELSE 1]
=============================================================================
