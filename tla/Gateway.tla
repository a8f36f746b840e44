------------------------------ MODULE Gateway ------------------------------
(***************************************************************************)
(* cmd/gateway, POST /api/runs: createRun stores the run, then enqueues    *)
(* it.  The two writes are two requests to Redis.                          *)
(*                                                                         *)
(*   request[r]  where the handler that drew run id r stands.              *)
(***************************************************************************)
EXTENDS Bus

VARIABLE request

GatewayInit == request = [r \in Runs |-> "none"]

GatewayTypeOK == request \in [Runs -> {"none", "stored", "accepted", "refused"}]

(* HSET run:<r> with status queued, and the push on runs.index. *)
StoreRun(r) ==
    /\ request[r] = "none"
    /\ request' = [request EXCEPT ![r] = "stored"]
    /\ SetStatus(r, "queued")
    /\ UNCHANGED <<runsJobs, loadJobs, teleRaw, faults>>

(* XADD runs.jobs; the client gets 201. *)
EnqueueRun(r) ==
    /\ request[r] = "stored"
    /\ request' = [request EXCEPT ![r] = "accepted"]
    /\ runsJobs' = Append(runsJobs, r)
    /\ UNCHANGED <<run, loadJobs, teleRaw, faults>>

(* XADD fails: the client gets 500, the run stays queued. *)
EnqueueFails(r) ==
    /\ request[r] = "stored"
    /\ Fault("xadd")
    /\ request' = [request EXCEPT ![r] = "refused"]
    /\ UNCHANGED <<run, runsJobs, loadJobs, teleRaw>>

GatewayStep(r) == EnqueueRun(r) \/ EnqueueFails(r)
=============================================================================
