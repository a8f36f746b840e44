------------------------------- MODULE Arena -------------------------------
(***************************************************************************)
(* The life of a benchmark run through the four services: POST /api/runs   *)
(* in the gateway, handle() in an orchestrator, runShard() in the bot      *)
(* fleet, and the verdict in the ingester, joined by the Redis bus.        *)
(*                                                                         *)
(* Time appears in two places.  A run is silent when no batch of it was    *)
(* absorbed for a minute, and an orchestrator stops waiting when the       *)
(* deadline of the run has passed.  With Prompt = FALSE both may happen at *)
(* any time, as after a stall of any length.  With Prompt = TRUE nothing   *)
(* stalls: an idle replica claims a waiting shard, a running shard flushes *)
(* every two seconds, and its batches are absorbed at once.  A run is then *)
(* silent only while it is not running and not on its way to the ingester, *)
(* and a deadline passes only while a shard of the run waits for a replica *)
(* or when nothing of the run is left to be heard.                         *)
(***************************************************************************)
EXTENDS Gateway, Orchestrator, BotFleet, Ingester

CONSTANT Prompt

ASSUME PromptAssumption == Prompt \in BOOLEAN

vars == <<busVars, request, orchVars, fleet, ingVars>>

Init == BusInit /\ GatewayInit /\ OrchInit /\ FleetInit /\ IngInit

(* Where the shards of r are: to be dispatched, in load.jobs, in a replica. *)
FanningOut(r) == \E o \in Orchestrators : orch[o].run = r /\ orch[o].at = "fanout"
Queued(r)     == \E i \in DOMAIN loadJobs : loadJobs[i].run = r
Running(r)    == \E f \in Replicas : fleet[f].run = r
AllBusy       == \A f \in Replicas : fleet[f] # NoShard

(* A batch of r is on its way to absorb(). *)
InFlight(r) ==
    \/ \E i \in DOMAIN teleRaw : teleRaw[i].run = r
    \/ \E i \in DOMAIN inbox : inbox[i].run = r

(* time.Since(agg.lastSeen) > staleAfter *)
Silent(r) ==
    Prompt => /\ ~Running(r)
              /\ ~InFlight(r)
              /\ thread["main"].run # r
              /\ Queued(r) => AllBusy
              /\ ~FanningOut(r)

(* The deadline of r, DurationS + 2 minutes after the fan-out, has passed. *)
Overdue(r) ==
    Prompt => \/ Queued(r) /\ AllBusy
              \/ ~Queued(r) /\ ~Running(r) /\ ~InFlight(r) /\ runs[r] = NoAgg

-----------------------------------------------------------------------------
GatewayNext ==
    /\ \E r \in Runs : StoreRun(r) \/ GatewayStep(r)
    /\ UNCHANGED <<orchVars, fleet, ingVars>>

OrchMoves(o) ==
    /\ OrchStep(o) \/ (PollExpires(o) /\ Overdue(orch[o].run))
    /\ UNCHANGED <<request, fleet, ingVars>>

OrchNext ==
    \E o \in Orchestrators :
       \/ OrchMoves(o)
       \/ OrchCrash(o) /\ UNCHANGED <<request, fleet, ingVars>>

FleetMoves(f) == FleetStep(f) /\ UNCHANGED <<request, orchVars, ingVars>>

FleetNext ==
    \E f \in Replicas :
       \/ FleetMoves(f)
       \/ FleetCrash(f) /\ UNCHANGED <<request, orchVars, ingVars>>

MainMoves == MainStep /\ UNCHANGED <<request, orchVars, fleet>>

SweepMoves ==
    /\ \/ \E S \in SUBSET {r \in Runs : Silent(r)} : Sweep(S)
       \/ SweepStep
    /\ UNCHANGED <<request, orchVars, fleet>>

IngNext ==
    \/ MainMoves
    \/ SweepMoves
    \/ IngCrash /\ UNCHANGED <<request, orchVars, fleet>>

Next == GatewayNext \/ OrchNext \/ FleetNext \/ IngNext

Spec == Init /\ [][Next]_vars

(* Every process keeps going: the handlers and loops block on nothing but  *)
(* each other, the ticker of sweep() fires again and again, and time       *)
(* passes.  No client has to post a run, and no fault has to happen.       *)
FairSpec ==
    /\ Spec
    /\ \A r \in Runs : WF_vars(EnqueueRun(r) /\ UNCHANGED <<orchVars, fleet, ingVars>>)
    /\ \A o \in Orchestrators : WF_vars(OrchMoves(o))
    /\ \A f \in Replicas : WF_vars(FleetMoves(f))
    /\ WF_vars(MainMoves)
    /\ WF_vars(SweepMoves)

TypeOK ==
    /\ BusTypeOK
    /\ GatewayTypeOK
    /\ OrchTypeOK
    /\ FleetTypeOK
    /\ IngTypeOK

-----------------------------------------------------------------------------
Phase(status) ==
    CASE status = "none"        -> 0
      [] status = "queued"      -> 1
      [] status = "building"    -> 2
      [] status = "conformance" -> 3
      [] status = "load"        -> 4
      [] OTHER                  -> 5

(* Three services write run:<id>.status without looking at it, and yet no  *)
(* write ever takes a run back to an earlier phase: in particular the      *)
(* ingester's verdict never comes before the orchestrator has written      *)
(* "load".                                                                 *)
NeverGoesBack ==
    [][\A r \in Runs : Phase(run[r].status) <= Phase(run'[r].status)]_vars

(* Every composite score was computed with the conformance score of its    *)
(* run, which the orchestrator writes before the first shard leaves.       *)
VerdictUsesConformance ==
    \A r \in Runs : result[r].score # NoScore => result[r].conf

(* A verdict on the count of final batches comes last of all: no shard of  *)
(* the run is waiting, running or still to be dispatched, and no batch of  *)
(* it is on the way, whatever crashed or was lost before.                  *)
CountedVerdictIsWhole ==
    thread["main"].at \in Finalizing =>
        LET r == thread["main"].run IN
        ~FanningOut(r) /\ ~Queued(r) /\ ~Running(r) /\ ~InFlight(r)

(* done and failed are final: the last arrow of the run's life cycle. *)
TerminalIsFinal ==
    [][\A r \in Runs : run[r].status \in {"done", "failed"} =>
           run'[r].status = run[r].status]_vars

(* arena_runs has one row per finished run. *)
OneRowPerRun == \A r \in Runs : archive[r] <= 1

(* Of all runs of a submission the best one counts: once no verdict on the *)
(* submission is in progress, no finished run of it scored more than the   *)
(* leaderboard shows.                                                      *)
BestRunKept ==
    \A r \in Runs :
        LET s == SubmissionOf[r] IN
        /\ run[r].status = "done"
        /\ \A t \in Thread : thread[t].at \in Finalizing =>
                                SubmissionOf[thread[t].run] # s
        => result[r].score <= leaderboard[s]

(* The score of a run and the metrics shown beside it come from the same   *)
(* telemetry.                                                              *)
ScoreMatchesMetrics ==
    \A r \in Runs : result[r].score # NoScore => result[r].metrics = result[r].scored

Happened(kind) == kind \in Faults /\ faults[kind] > 0

(* A run that was accepted ends, by a verdict or by the orchestrator's     *)
(* deadline, although no service looks after another one's work: unless    *)
(* an orchestrator is killed, for a job is delivered only once.            *)
AcceptedRunsEnd ==
    \A r \in Runs : request[r] = "accepted" ~>
        run[r].status \in {"done", "failed"} \/ Happened("orchestrator")

(* Every sandbox that was started is torn down again, unless its           *)
(* orchestrator is killed.                                                 *)
SandboxesReclaimed ==
    \A r \in Runs : sandbox[r] ~> ~sandbox[r] \/ Happened("orchestrator")

(* Telemetry that was folded leads to a verdict, and the aggregate leaves  *)
(* the map, although the rest of the telemetry may never come: the sweep   *)
(* sees to that.  Only the death of the ingester itself is in the way.     *)
TelemetryGetsVerdict ==
    \A r \in Runs : runs[r] # NoAgg ~>
        (runs[r] = NoAgg /\ result[r].score # NoScore) \/ Happened("ingester")

(* "A dead fleet replica can never wedge a verdict": a run whose load was  *)
(* dispatched is decided by the ingester.                                  *)
LoadGetsVerdict ==
    \A r \in Runs : run[r].status = "load" ~> run[r].status = "done"
=============================================================================
