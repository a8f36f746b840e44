----------------------------- MODULE MCScoring -----------------------------
(***************************************************************************)
(* Scoring with buckets that span a factor of four: 0, 1, 3 and 4 are      *)
(* below, at the start of, at the end of and beyond bucket 1.              *)
(***************************************************************************)
EXTENDS Scoring, TLC

MCThrMarks(tps) == IF tps <= 1 THEN 0 ELSE IF tps = 2 THEN 1 ELSE 2

ShardSymmetry == Permutations(Shards)
=============================================================================
