------------------------------ MODULE MCArena ------------------------------
(***************************************************************************)
(* Arena for TLC.  All runs are runs of one submission, so that they       *)
(* compete for one place on the leaderboard.  Runs, replicas and           *)
(* orchestrators are interchangeable.                                      *)
(***************************************************************************)
EXTENDS Arena, TLC

CONSTANT TheSubmission

OneSubmission  == {TheSubmission}
AllOfOne       == [r \in Runs |-> TheSubmission]
Symmetry       == Permutations(Runs) \cup Permutations(Replicas)
                     \cup Permutations(Orchestrators)
=============================================================================
