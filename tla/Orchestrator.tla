---------------------------- MODULE Orchestrator ----------------------------
(***************************************************************************)
(* cmd/orchestrator: each replica claims one run at a time and takes it    *)
(* through handle(): build, sandbox, conformance probe, shard fan-out, and *)
(* the wait for the verdict.                                               *)
(*                                                                         *)
(*   orch[o]     the call of handle() in replica o: the next step `at`,    *)
(*               the run, and the loop variable of the fan-out;            *)
(*   sandbox[r]  the container arena-sub-<r> exists.                       *)
(*                                                                         *)
(* The engine under test decides whether the build, the start and the      *)
(* health check succeed; here each may go either way.                      *)
(***************************************************************************)
EXTENDS Bus

CONSTANT Orchestrators

VARIABLES orch, sandbox

orchVars == <<orch, sandbox>>

Idle == [at |-> "idle", run |-> NoRun, shard |-> 0]

OrchInit ==
    /\ orch = [o \in Orchestrators |-> Idle]
    /\ sandbox = [r \in Runs |-> FALSE]

(* handle() up to the fan-out, and after it. *)
OrchCall ==
    [at : {"claimed", "build", "start", "health", "probe", "load", "fanout"},
     run : Runs, shard : Shards]
    \cup
    [at : {"wait", "expired", "teardown"}, run : Runs, shard : 0 .. TotalShards]

OrchTypeOK ==
    /\ orch \in [Orchestrators -> {Idle} \cup OrchCall]
    /\ sandbox \in [Runs -> BOOLEAN]

GoTo(o, at) == orch' = [orch EXCEPT ![o].at = at]

(* XREADGROUP runs.jobs > COUNT 1 *)
ClaimRun(o) ==
    /\ orch[o] = Idle
    /\ runsJobs # <<>>
    /\ orch' = [orch EXCEPT ![o] = [at |-> "claimed", run |-> Head(runsJobs), shard |-> 0]]
    /\ runsJobs' = Tail(runsJobs)
    /\ UNCHANGED <<run, loadJobs, teleRaw, faults, sandbox>>

StartBuild(o) ==
    /\ orch[o].at = "claimed"
    /\ SetStatus(orch[o].run, "building")
    /\ GoTo(o, "build")
    /\ UNCHANGED <<runsJobs, loadJobs, teleRaw, faults, sandbox>>

(* The bundle is missing or `docker build` fails.  handle() returns before *)
(* it has deferred the teardown.                                           *)
BuildFails(o) ==
    /\ orch[o].at = "build"
    /\ SetStatus(orch[o].run, "failed")
    /\ orch' = [orch EXCEPT ![o] = Idle]
    /\ UNCHANGED <<runsJobs, loadJobs, teleRaw, faults, sandbox>>

BuildSucceeds(o) ==
    /\ orch[o].at = "build"
    /\ GoTo(o, "start")
    /\ UNCHANGED <<busVars, sandbox>>

(* `docker run` reports an error or hits its one-minute limit; either way  *)
(* the container may have been created.  The teardown is deferred already. *)
SandboxFails(o) ==
    /\ orch[o].at = "start"
    /\ \E created \in BOOLEAN : sandbox' = [sandbox EXCEPT ![orch[o].run] = created]
    /\ SetStatus(orch[o].run, "failed")
    /\ GoTo(o, "teardown")
    /\ UNCHANGED <<runsJobs, loadJobs, teleRaw, faults>>

SandboxStarts(o) ==
    /\ orch[o].at = "start"
    /\ sandbox' = [sandbox EXCEPT ![orch[o].run] = TRUE]
    /\ GoTo(o, "health")
    /\ UNCHANGED busVars

(* Mutant of NeverHealthy: handle() returns without the teardown. *)
NeverHealthyLeaks(o) ==
    /\ orch[o].at = "health"
    /\ SetStatus(orch[o].run, "failed")
    /\ orch' = [orch EXCEPT ![o] = Idle]
    /\ UNCHANGED <<runsJobs, loadJobs, teleRaw, faults, sandbox>>

(* waitHealthy gives up after 45 seconds. *)
NeverHealthy(o) ==
    /\ orch[o].at = "health"
    /\ SetStatus(orch[o].run, "failed")
    /\ GoTo(o, "teardown")
    /\ UNCHANGED <<runsJobs, loadJobs, teleRaw, faults, sandbox>>

(* Mutant of Healthy: straight to the load phase. *)
HealthyNoProbe(o) ==
    /\ orch[o].at = "health"
    /\ SetStatus(orch[o].run, "conformance")
    /\ GoTo(o, "load")
    /\ UNCHANGED <<runsJobs, loadJobs, teleRaw, faults, sandbox>>

Healthy(o) ==
    /\ orch[o].at = "health"
    /\ SetStatus(orch[o].run, "conformance")
    /\ GoTo(o, "probe")
    /\ UNCHANGED <<runsJobs, loadJobs, teleRaw, faults, sandbox>>

(* The probe ends with a score whatever the engine answers. *)
Probe(o) ==
    /\ orch[o].at = "probe"
    /\ run' = [run EXCEPT ![orch[o].run].conformance_score = TRUE]
    /\ GoTo(o, "load")
    /\ UNCHANGED <<runsJobs, loadJobs, teleRaw, faults, sandbox>>

StartLoad(o) ==
    /\ orch[o].at = "load"
    /\ SetStatus(orch[o].run, "load")
    /\ GoTo(o, "fanout")
    /\ UNCHANGED <<runsJobs, loadJobs, teleRaw, faults, sandbox>>

(* Mutant of NextShard: one turn too many. *)
NextShardOffByOne(o) ==
    LET next == orch[o].shard + 1 IN
    orch' = [orch EXCEPT ![o] = [at |-> IF next > TotalShards THEN "wait" ELSE "fanout",
                                 run |-> orch[o].run, shard |-> next]]

(* One turn of the fan-out loop is done: the next shard, or the wait. *)
NextShard(o) ==
    LET next == orch[o].shard + 1 IN
    orch' = [orch EXCEPT ![o] = [at |-> IF next = TotalShards THEN "wait" ELSE "fanout",
                                 run |-> orch[o].run, shard |-> next]]

(* Mutant of Dispatch: the status is written in the loop, not before it. *)
DispatchThenStatus(o) ==
    /\ orch[o].at = "fanout"
    /\ loadJobs' = Append(loadJobs, [run |-> orch[o].run, shard |-> orch[o].shard])
    /\ SetStatus(orch[o].run, "load")
    /\ NextShard(o)
    /\ UNCHANGED <<runsJobs, teleRaw, faults, sandbox>>

(* XADD load.jobs *)
Dispatch(o) ==
    /\ orch[o].at = "fanout"
    /\ loadJobs' = Append(loadJobs, [run |-> orch[o].run, shard |-> orch[o].shard])
    /\ NextShard(o)
    /\ UNCHANGED <<run, runsJobs, teleRaw, faults, sandbox>>

(* XADD fails; its result is not looked at. *)
DispatchLost(o) ==
    /\ orch[o].at = "fanout"
    /\ Fault("xadd")
    /\ NextShard(o)
    /\ UNCHANGED <<run, runsJobs, loadJobs, teleRaw, sandbox>>

(* The two-second poll: a verdict has landed. *)
SeeVerdict(o) ==
    /\ orch[o].at = "wait"
    /\ run[orch[o].run].status \in {"done", "failed"}
    /\ GoTo(o, "teardown")
    /\ UNCHANGED <<busVars, sandbox>>

(* Mutant of PollExpires: the deadline fires whatever the last poll saw. *)
PollExpiresBlind(o) ==
    /\ orch[o].at = "wait"
    /\ GoTo(o, "expired")
    /\ UNCHANGED <<busVars, sandbox>>

(* The last poll before the deadline found no verdict ... *)
PollExpires(o) ==
    /\ orch[o].at = "wait"
    /\ run[orch[o].run].status \notin {"done", "failed"}
    /\ GoTo(o, "expired")
    /\ UNCHANGED <<busVars, sandbox>>

(* Mutant of GiveUp: the wait ends and nobody says so. *)
GiveUpSilently(o) ==
    /\ orch[o].at = "expired"
    /\ GoTo(o, "teardown")
    /\ UNCHANGED <<busVars, sandbox>>

(* ... and the run is failed without another look at its status. *)
GiveUp(o) ==
    /\ orch[o].at = "expired"
    /\ SetStatus(orch[o].run, "failed")
    /\ GoTo(o, "teardown")
    /\ UNCHANGED <<runsJobs, loadJobs, teleRaw, faults, sandbox>>

(* The deferred teardown, and handle() returns to the claim loop. *)
Teardown(o) ==
    /\ orch[o].at = "teardown"
    /\ sandbox' = [sandbox EXCEPT ![orch[o].run] = FALSE]
    /\ orch' = [orch EXCEPT ![o] = Idle]
    /\ UNCHANGED busVars

(* The process is killed and started again: deferred calls do not run. *)
OrchCrash(o) ==
    /\ orch[o] # Idle
    /\ Fault("orchestrator")
    /\ orch' = [orch EXCEPT ![o] = Idle]
    /\ UNCHANGED <<run, runsJobs, loadJobs, teleRaw, sandbox>>

(* What replica o does by itself; PollExpires also needs the deadline. *)
OrchStep(o) ==
    \/ ClaimRun(o) \/ StartBuild(o) \/ BuildFails(o) \/ BuildSucceeds(o)
    \/ SandboxFails(o) \/ SandboxStarts(o) \/ NeverHealthy(o) \/ Healthy(o)
    \/ Probe(o) \/ StartLoad(o) \/ Dispatch(o) \/ DispatchLost(o)
    \/ SeeVerdict(o) \/ GiveUp(o) \/ Teardown(o)
=============================================================================
