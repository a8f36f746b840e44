-------------------------------- MODULE Bus --------------------------------
(***************************************************************************)
(* What the four services share: the run:<id> hashes and the three streams *)
(* of the Redis bus.  The services have no other channel.                  *)
(*                                                                         *)
(* Every consumer reads its stream through a consumer group and only with  *)
(* the id ">", so an entry is delivered once, to one consumer, and what a  *)
(* dead consumer had been delivered is never delivered again: XACK changes *)
(* nothing that any service looks at.  A stream is therefore a FIFO whose  *)
(* entries leave it on delivery.                                           *)
(***************************************************************************)
EXTENDS Integers, Sequences, FiniteSets

CONSTANTS Runs,         \* run ids the gateway may draw
          NoRun,        \* no run
          TotalShards,  \* ceil(bots / botsPerShard), the same for every run
          MaxFlush,     \* bound: telemetry flushes of a shard before its final one
          Faults,       \* the kinds of fault that may happen
          MaxFaults     \* bound: faults of each kind per behaviour

(* Bots is at least 1 in every RunJob, so there is at least one shard. *)
ASSUME BusAssumption ==
    /\ NoRun \notin Runs
    /\ TotalShards \in Nat \ {0}
    /\ MaxFlush \in Nat
    /\ MaxFaults \in Nat

VARIABLES run,       \* run[r]: the hash run:<r>
          runsJobs,  \* stream runs.jobs: protocol.RunJob
          loadJobs,  \* stream load.jobs: protocol.LoadShard
          teleRaw,   \* stream telemetry.raw: protocol.TelemetryBatch
          faults     \* faults[kind]: faults of that kind so far

busVars == <<run, runsJobs, loadJobs, teleRaw, faults>>

Shards == 0 .. TotalShards - 1

Status == {"none", "queued", "building", "conformance", "load", "done", "failed"}

(* The status of a run and whether its hash has a conformance_score. *)
RunHash == [status : Status, conformance_score : BOOLEAN]

LoadShard == [run : Runs, shard : Shards]

(* Batch n of a shard: the deltas of one flush.  What the ingester adds up *)
(* is named here by where it comes from.                                   *)
TelemetryBatch == [run : Runs, shard : Shards, n : 0 .. MaxFlush, final : BOOLEAN]

BusInit ==
    /\ run = [r \in Runs |-> [status |-> "none", conformance_score |-> FALSE]]
    /\ runsJobs = <<>>
    /\ loadJobs = <<>>
    /\ teleRaw = <<>>
    /\ faults = [kind \in Faults |-> 0]

BusTypeOK ==
    /\ run \in [Runs -> RunHash]
    /\ runsJobs \in Seq(Runs)
    /\ loadJobs \in Seq(LoadShard)
    /\ teleRaw \in Seq(TelemetryBatch)
    /\ faults \in [Faults -> Nat]

(* HSET run:<r> status s *)
SetStatus(r, s) == run' = [run EXCEPT ![r].status = s]

(* A process dies, or Redis refuses an XADD. *)
Fault(kind) ==
    /\ kind \in Faults
    /\ faults[kind] < MaxFaults
    /\ faults' = [faults EXCEPT ![kind] = @ + 1]
=============================================================================
