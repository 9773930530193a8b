----------------------------- MODULE SyncViews -----------------------------
(***************************************************************************)
(* The two places where a user follows Local Sync: the page of the Local   *)
(* Reader and an open /raid-status card.  They meet on the server only,    *)
(* which each of them models as it sees it; one of the two is in use.      *)
(***************************************************************************)
EXTENDS LocalReader, StatusCard

viewVars == <<vars, cardVars>>

ViewsInit == Init /\ (CardInit \/ CardAt("off", "raid", "done"))

ViewsNext ==
  \/ phase = "off" /\ Next /\ UNCHANGED cardVars
  \/ phase # "off" /\ CardNext /\ UNCHANGED vars

ViewsSpec ==
  ViewsInit /\ [][ViewsNext]_viewVars /\ Fairness /\ CardFairness

\* The variables of the page and of the card have their types.
TypeOK == ReaderTypeOK /\ CardTypeOK
=============================================================================
