--------------------------- MODULE MCPreviewJobs ---------------------------
(***************************************************************************)
(* Instances of PreviewJobs for TLC.  Every job belongs to one user, since *)
(* jobs of different users share nothing but the clock; the configurations *)
(* differ in jobs, calls, processes and clears.                            *)
(***************************************************************************)
EXTENDS PreviewJobs, TLC

CONSTANTS u1, p1, p2, w1, w2

OneUser == [j \in Jobs |-> u1]
AllFull == [j \in Jobs |-> "full"]
AllClears == [j \in Jobs |-> Clears]
NoParty == [j \in Jobs |-> {}]

\* Every call in one process, or the second apply call in another process.
OneProcess == [x \in Workers \cup Creators |-> p1]
TwoProcesses == [x \in Workers \cup Creators |-> IF x = w2 THEN p2 ELSE p1]

\* Jobs, creators and tokens are interchangeable: the functions above give
\* all of them the same value.
Symmetric == Permutations(Jobs) \cup Permutations(Creators)
               \cup Permutations(Tokens)
=============================================================================
