-------------------------- MODULE MCShardTelemetry --------------------------
(* ShardTelemetry with two interchangeable bots. *)
EXTENDS ShardTelemetry, TLC

BotSymmetry == Permutations(Bots)
=============================================================================
