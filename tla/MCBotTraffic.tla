---------------------------- MODULE MCBotTraffic ----------------------------
(***************************************************************************)
(* BotTraffic with two interchangeable bots; the ids are the ones that     *)
(* they can make up.                                                       *)
(***************************************************************************)
EXTENDS BotTraffic

MCIds == Bots \X (0 .. MaxRequests - 1)

BotSymmetry == Permutations(Bots)
=============================================================================
