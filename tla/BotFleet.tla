------------------------------ MODULE BotFleet ------------------------------
(***************************************************************************)
(* cmd/botfleet, between the streams: a replica claims a shard, acks it on *)
(* claim, runs it, and ships what its bots measured as deltas, one batch   *)
(* every two seconds and a last one marked Final.                          *)
(*                                                                         *)
(*   fleet[f]  the shard that replica f runs and the batches it flushed.   *)
(***************************************************************************)
EXTENDS Bus

CONSTANT Replicas

VARIABLE fleet

NoShard == [run |-> NoRun, shard |-> 0, n |-> 0]

FleetInit == fleet = [f \in Replicas |-> NoShard]

FleetTypeOK ==
    fleet \in [Replicas -> {NoShard} \cup
                           [run : Runs, shard : Shards, n : 0 .. MaxFlush]]

(* XREADGROUP load.jobs > COUNT 1, XACK at once. *)
ClaimShard(f) ==
    /\ fleet[f] = NoShard
    /\ loadJobs # <<>>
    /\ fleet' = [fleet EXCEPT ![f] = [run |-> Head(loadJobs).run,
                                      shard |-> Head(loadJobs).shard, n |-> 0]]
    /\ loadJobs' = Tail(loadJobs)
    /\ UNCHANGED <<run, runsJobs, teleRaw, faults>>

(* flush(): the counters since the last flush leave as one batch.  prev    *)
(* moves on before the XADD, whose error is only logged: a batch that is   *)
(* not accepted is not sent again.                                         *)
Send(f, final) ==
    \/ /\ teleRaw' = Append(teleRaw, [run |-> fleet[f].run, shard |-> fleet[f].shard,
                                      n |-> fleet[f].n, final |-> final])
       /\ UNCHANGED faults
    \/ /\ Fault("xadd")
       /\ UNCHANGED teleRaw

(* The ticker fires while the bots run. *)
FlushDelta(f) ==
    /\ fleet[f] # NoShard
    /\ fleet[f].n < MaxFlush
    /\ Send(f, FALSE)
    /\ fleet' = [fleet EXCEPT ![f].n = @ + 1]
    /\ UNCHANGED <<run, runsJobs, loadJobs>>

(* All bots are done: the final flush, and back to the claim loop. *)
FlushFinal(f) ==
    /\ fleet[f] # NoShard
    /\ Send(f, TRUE)
    /\ fleet' = [fleet EXCEPT ![f] = NoShard]
    /\ UNCHANGED <<run, runsJobs, loadJobs>>

(* The replica dies mid-shard; the shard was acked and is gone. *)
FleetCrash(f) ==
    /\ fleet[f] # NoShard
    /\ Fault("fleet")
    /\ fleet' = [fleet EXCEPT ![f] = NoShard]
    /\ UNCHANGED <<run, runsJobs, loadJobs, teleRaw>>

FleetStep(f) == ClaimShard(f) \/ FlushDelta(f) \/ FlushFinal(f)
=============================================================================
