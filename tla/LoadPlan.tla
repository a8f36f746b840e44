------------------------------ MODULE LoadPlan ------------------------------
(***************************************************************************)
(* From the numbers of a POST /api/runs to what every bot does: createRun  *)
(* fills in defaults and cuts off, handle() of the orchestrator cuts the   *)
(* job into shards, a bot divides the budget of its shard again.           *)
(*                                                                         *)
(*   asked    the body of the request;                                     *)
(*   job      the RunJob;                                                  *)
(*   shards   the LoadShards dispatched so far, each with its bots and its *)
(*            MaxRPS.                                                      *)
(***************************************************************************)
EXTENDS Integers, Sequences, SequencesExt

CONSTANTS Numbers,       \* numbers of bots and requests per second asked for
          BotsDefault,   \* 200
          RPSDefault,    \* 4000
          MaxBots,       \* 5000
          MaxRPS,        \* 100 000
          BotsPerShard,  \* 250
          NoJob          \* no job yet

ASSUME LoadPlanAssumption ==
    /\ Numbers \subseteq Int
    /\ {BotsDefault, RPSDefault, MaxBots, MaxRPS, BotsPerShard} \subseteq Nat \ {0}

VARIABLES asked, job, shards

planVars == <<asked, job, shards>>

PlanInit ==
    /\ asked \in [bots : Numbers, rps : Numbers]
    /\ job = NoJob
    /\ shards = <<>>

(* A number that makes no sense becomes the default; none exceeds its cap. *)
Normal(n, default, max) == Min({IF n <= 0 THEN default ELSE n, max})

CreateRun ==
    /\ job = NoJob
    /\ job' = [bots |-> Normal(asked.bots, BotsDefault, MaxBots),
               rps |-> Normal(asked.rps, RPSDefault, MaxRPS)]
    /\ UNCHANGED <<asked, shards>>

(* ceil(bots / botsPerShard) *)
TotalShards == (job.bots + BotsPerShard - 1) \div BotsPerShard

(* Mutant of ShardBots: the last shard gets the whole remainder. *)
ShardBotsLast(i) ==
    job.bots \div TotalShards + (IF i = TotalShards - 1 THEN job.bots % TotalShards ELSE 0)

(* The first bots % shards of them get one more. *)
ShardBots(i) ==
    job.bots \div TotalShards + (IF i < job.bots % TotalShards THEN 1 ELSE 0)

ShardRPS == job.rps \div TotalShards

Dispatch ==
    /\ job # NoJob
    /\ Len(shards) < TotalShards
    /\ shards' = Append(shards, [bots |-> ShardBots(Len(shards)), rps |-> ShardRPS])
    /\ UNCHANGED <<asked, job>>

(* The rate of the bots of one shard together at the end of the ramp, in   *)
(* half requests per second: an equal share of the budget for each of      *)
(* them, but never less than 0.5 requests per second.                      *)
OfferedByShard(s) == Max({2 * s.rps, s.bots})

-----------------------------------------------------------------------------
Sum(f(_)) == FoldSeq(LAMBDA s, sum : sum + f(s), 0, shards)
Dispatched == job # NoJob /\ Len(shards) = TotalShards

(* Every bot of the job is in exactly one shard, no shard is empty or      *)
(* above its size, and the sizes differ by one at most; the budgets of the *)
(* shards never exceed the job's, and rounding costs less than one request *)
(* per second and shard: whatever was asked for, zero and negative numbers *)
(* included.                                                               *)
FanOutExact ==
    Dispatched =>
        /\ Sum(LAMBDA s : s.bots) = job.bots
        /\ job.bots \in 1 .. MaxBots
        /\ \A i \in DOMAIN shards : shards[i].bots \in 1 .. BotsPerShard
        /\ \A i, j \in DOMAIN shards : shards[i].bots - shards[j].bots \in -1 .. 1
        /\ Sum(LAMBDA s : s.rps) \in job.rps - TotalShards + 1 .. job.rps

(* "rate budget for this shard": the bots of a shard keep to it. *)
OfferedWithinBudget == \A i \in DOMAIN shards : OfferedByShard(shards[i]) <= 2 * shards[i].rps
=============================================================================
