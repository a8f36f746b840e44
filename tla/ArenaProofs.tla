----------------------------- MODULE ArenaProofs -----------------------------
(***************************************************************************)
(* Theorems about Arena, for any number of runs, shards, replicas,         *)
(* orchestrators, flushes and faults, in four parts:                       *)
(*                                                                         *)
(*   1. types, the owner of a verdict, scores and conformance scores;      *)
(*   2. the life of a run only goes forward;                               *)
(*   3. a verdict on the count of final batches comes last;                *)
(*   4. one verdict per run where nothing fails and nothing stalls.        *)
(***************************************************************************)
EXTENDS Arena, FiniteSetTheorems, TLAPS

-----------------------------------------------------------------------------
(* Type correctness, component by component. *)

LEMMA GatewayTypes ==
    ASSUME BusTypeOK, GatewayTypeOK,
           NEW r \in Runs, StoreRun(r) \/ EnqueueRun(r) \/ EnqueueFails(r)
    PROVE  BusTypeOK' /\ GatewayTypeOK'
<1>1. CASE StoreRun(r)
    BY <1>1 DEF BusTypeOK, GatewayTypeOK, StoreRun, SetStatus, RunHash, Status
<1>2. CASE EnqueueRun(r)
    BY <1>2 DEF BusTypeOK, GatewayTypeOK, EnqueueRun
<1>3. CASE EnqueueFails(r)
    BY <1>3 DEF BusTypeOK, GatewayTypeOK, EnqueueFails, Fault
<1> QED BY <1>1, <1>2, <1>3

LEMMA OrchTypes ==
    ASSUME BusTypeOK, OrchTypeOK, NEW o \in Orchestrators,
           OrchStep(o) \/ PollExpires(o) \/ OrchCrash(o)
    PROVE  BusTypeOK' /\ OrchTypeOK'
<1> DEFINE Before == {"claimed", "build", "start", "health", "probe", "load", "fanout"}
           After  == {"wait", "expired", "teardown"}
<1> USE BusAssumption DEF OrchTypeOK
<1>a. orch[o] \in OrchCall \/ (orch[o] = Idle /\ orch[o].at = "idle")
    BY DEF Idle
<1>b. ASSUME NEW at \in Before \cup After, orch[o].at # "idle", GoTo(o, at),
             at \in Before => orch[o].at \in Before
      PROVE  orch' \in [Orchestrators -> {Idle} \cup OrchCall]
    <2>1. orch[o] \in OrchCall
        BY <1>a, <1>b
    <2>2. [orch[o] EXCEPT !.at = at] \in OrchCall
        BY <1>b, <2>1 DEF OrchCall, Shards
    <2> QED BY <1>b, <2>2 DEF GoTo
<1>c. ASSUME NEW s \in Status, SetStatus(orch[o].run, s)
      PROVE  run' \in [Runs -> RunHash]
    BY <1>c DEF SetStatus, BusTypeOK, RunHash
<1>d. ASSUME NextShard(o), orch[o].at = "fanout"
      PROVE  orch' \in [Orchestrators -> {Idle} \cup OrchCall]
    <2>1. orch[o] \in [at : Before, run : Runs, shard : Shards]
        BY <1>a, <1>d DEF OrchCall
    <2>2. orch[o].run \in Runs /\ orch[o].shard \in 0 .. TotalShards - 1
        BY <2>1 DEF Shards
    <2>3. [at |-> IF orch[o].shard + 1 = TotalShards THEN "wait" ELSE "fanout",
           run |-> orch[o].run, shard |-> orch[o].shard + 1] \in OrchCall
        BY <2>2 DEF OrchCall, Shards
    <2> QED BY <1>d, <2>3 DEF NextShard
<1>e. Idle \in {Idle} \cup OrchCall
    OBVIOUS
<1>1. CASE ClaimRun(o)
    <2>1. Head(runsJobs) \in Runs /\ Tail(runsJobs) \in Seq(Runs)
        BY <1>1 DEF ClaimRun, BusTypeOK
    <2>2. [at |-> "claimed", run |-> Head(runsJobs), shard |-> 0] \in OrchCall
        BY <2>1 DEF OrchCall, Shards
    <2> QED BY <1>1, <2>1, <2>2 DEF ClaimRun, BusTypeOK
<1>2. CASE StartBuild(o)
    <2>1. run' \in [Runs -> RunHash]
        BY <1>2, <1>c DEF StartBuild, Status
    <2>2. orch' \in [Orchestrators -> {Idle} \cup OrchCall]
        BY <1>2, <1>b DEF StartBuild
    <2> QED BY <1>2, <2>1, <2>2 DEF StartBuild, BusTypeOK
<1>3. CASE BuildFails(o)
    <2>1. run' \in [Runs -> RunHash]
        BY <1>3, <1>c DEF BuildFails, Status
    <2> QED BY <1>3, <1>e, <2>1 DEF BuildFails, BusTypeOK
<1>4. CASE BuildSucceeds(o)
    <2>1. orch' \in [Orchestrators -> {Idle} \cup OrchCall]
        BY <1>4, <1>b DEF BuildSucceeds
    <2> QED BY <1>4, <2>1 DEF BuildSucceeds, BusTypeOK, busVars
<1>5. CASE SandboxFails(o)
    <2>1. run' \in [Runs -> RunHash]
        BY <1>5, <1>c DEF SandboxFails, Status
    <2>2. orch' \in [Orchestrators -> {Idle} \cup OrchCall]
        BY <1>5, <1>b DEF SandboxFails
    <2>3. PICK created \in BOOLEAN : sandbox' = [sandbox EXCEPT ![orch[o].run] = created]
        BY <1>5 DEF SandboxFails
    <2>4. sandbox' \in [Runs -> BOOLEAN]
        BY <2>3
    <2> QED BY <1>5, <2>1, <2>2, <2>4 DEF SandboxFails, BusTypeOK
<1>6. CASE SandboxStarts(o)
    <2>1. orch' \in [Orchestrators -> {Idle} \cup OrchCall]
        BY <1>6, <1>b DEF SandboxStarts
    <2> QED BY <1>6, <2>1 DEF SandboxStarts, BusTypeOK, busVars
<1>7. CASE NeverHealthy(o)
    <2>1. run' \in [Runs -> RunHash]
        BY <1>7, <1>c DEF NeverHealthy, Status
    <2>2. orch' \in [Orchestrators -> {Idle} \cup OrchCall]
        BY <1>7, <1>b DEF NeverHealthy
    <2> QED BY <1>7, <2>1, <2>2 DEF NeverHealthy, BusTypeOK
<1>8. CASE Healthy(o)
    <2>1. run' \in [Runs -> RunHash]
        BY <1>8, <1>c DEF Healthy, Status
    <2>2. orch' \in [Orchestrators -> {Idle} \cup OrchCall]
        BY <1>8, <1>b DEF Healthy
    <2> QED BY <1>8, <2>1, <2>2 DEF Healthy, BusTypeOK
<1>9. CASE Probe(o)
    <2>1. run' \in [Runs -> RunHash]
        BY <1>9 DEF Probe, BusTypeOK, RunHash
    <2>2. orch' \in [Orchestrators -> {Idle} \cup OrchCall]
        BY <1>9, <1>b DEF Probe
    <2> QED BY <1>9, <2>1, <2>2 DEF Probe, BusTypeOK
<1>10. CASE StartLoad(o)
    <2>1. run' \in [Runs -> RunHash]
        BY <1>10, <1>c DEF StartLoad, Status
    <2>2. orch' \in [Orchestrators -> {Idle} \cup OrchCall]
        BY <1>10, <1>b DEF StartLoad
    <2> QED BY <1>10, <2>1, <2>2 DEF StartLoad, BusTypeOK
<1>11. CASE Dispatch(o)
    <2>1. [run |-> orch[o].run, shard |-> orch[o].shard] \in LoadShard
        BY <1>11, <1>a DEF Dispatch, OrchCall, LoadShard
    <2>2. loadJobs' \in Seq(LoadShard)
        BY <1>11, <2>1 DEF Dispatch, BusTypeOK
    <2> QED BY <1>11, <1>d, <2>2 DEF Dispatch, BusTypeOK
<1>12. CASE DispatchLost(o)
    BY <1>12, <1>d DEF DispatchLost, Fault, BusTypeOK
<1>13. CASE SeeVerdict(o)
    <2>1. orch' \in [Orchestrators -> {Idle} \cup OrchCall]
        BY <1>13, <1>b DEF SeeVerdict
    <2> QED BY <1>13, <2>1 DEF SeeVerdict, BusTypeOK, busVars
<1>14. CASE PollExpires(o)
    <2>1. orch' \in [Orchestrators -> {Idle} \cup OrchCall]
        BY <1>14, <1>b DEF PollExpires
    <2> QED BY <1>14, <2>1 DEF PollExpires, BusTypeOK, busVars
<1>15. CASE GiveUp(o)
    <2>1. run' \in [Runs -> RunHash]
        BY <1>15, <1>c DEF GiveUp, Status
    <2>2. orch' \in [Orchestrators -> {Idle} \cup OrchCall]
        BY <1>15, <1>b DEF GiveUp
    <2> QED BY <1>15, <2>1, <2>2 DEF GiveUp, BusTypeOK
<1>16. CASE Teardown(o)
    BY <1>16, <1>e DEF Teardown, BusTypeOK, busVars
<1>17. CASE OrchCrash(o)
    BY <1>17, <1>e DEF OrchCrash, BusTypeOK, Fault
<1> QED BY <1>1, <1>2, <1>3, <1>4, <1>5, <1>6, <1>7, <1>8, <1>9, <1>10, <1>11, <1>12,
           <1>13, <1>14, <1>15, <1>16, <1>17 DEF OrchStep

LEMMA FleetTypes ==
    ASSUME BusTypeOK, FleetTypeOK, NEW f \in Replicas, FleetStep(f) \/ FleetCrash(f)
    PROVE  BusTypeOK' /\ FleetTypeOK'
<1> USE BusAssumption DEF FleetTypeOK, NoShard
<1>1. CASE ClaimShard(f)
    <2>1. Head(loadJobs) \in LoadShard /\ Tail(loadJobs) \in Seq(LoadShard)
        BY <1>1 DEF ClaimShard, BusTypeOK
    <2> QED BY <1>1, <2>1 DEF ClaimShard, BusTypeOK, LoadShard
<1>a. ASSUME fleet[f] # NoShard, NEW final \in BOOLEAN, Send(f, final)
      PROVE  teleRaw' \in Seq(TelemetryBatch) /\ faults' \in [Faults -> Nat]
    <2>1. fleet[f].run \in Runs /\ fleet[f].shard \in Shards /\ fleet[f].n \in 0 .. MaxFlush
        BY <1>a
    <2>2. [run |-> fleet[f].run, shard |-> fleet[f].shard, n |-> fleet[f].n,
           final |-> final] \in TelemetryBatch
        BY <2>1 DEF TelemetryBatch
    <2>3. CASE teleRaw' = teleRaw /\ Fault("xadd")
        BY <2>3 DEF Fault, BusTypeOK
    <2>4. CASE UNCHANGED faults /\ teleRaw' = Append(teleRaw,
              [run |-> fleet[f].run, shard |-> fleet[f].shard, n |-> fleet[f].n,
               final |-> final])
        BY <2>2, <2>4 DEF BusTypeOK
    <2> QED BY <1>a, <2>3, <2>4 DEF Send
<1>2. CASE FlushDelta(f)
    <2>1. teleRaw' \in Seq(TelemetryBatch) /\ faults' \in [Faults -> Nat]
        BY <1>2, <1>a DEF FlushDelta
    <2>2. fleet' \in [Replicas -> {NoShard} \cup [run : Runs, shard : Shards, n : 0 .. MaxFlush]]
        BY <1>2 DEF FlushDelta
    <2> QED BY <1>2, <2>1, <2>2 DEF FlushDelta, BusTypeOK
<1>3. CASE FlushFinal(f)
    <2>1. teleRaw' \in Seq(TelemetryBatch) /\ faults' \in [Faults -> Nat]
        BY <1>3, <1>a DEF FlushFinal
    <2> QED BY <1>3, <2>1 DEF FlushFinal, BusTypeOK
<1>4. CASE FleetCrash(f)
    BY <1>4 DEF FleetCrash, Fault, BusTypeOK
<1> QED BY <1>1, <1>2, <1>3, <1>4 DEF FleetStep

LEMMA IngTypes ==
    ASSUME BusTypeOK, IngTypeOK,
           \/ MainStep \/ SweepStep \/ IngCrash
           \/ \E S \in SUBSET Runs : Sweep(S)
    PROVE  BusTypeOK' /\ IngTypeOK'
<1> USE BusAssumption, IngesterAssumption DEF IngTypeOK, boardVars, busVars
<1>a. \A t \in Thread : thread[t].at # "loop" => thread[t] \in ThreadCall
    BY DEF Looping
<1>b. ASSUME NEW t \in Thread, NEW from, NEW to, from # "loop",
             to \in {"live"} \cup Finalizing, Step(t, from, to)
      PROVE  thread' \in [Thread -> {Looping} \cup ThreadCall]
    <2>1. [thread[t] EXCEPT !.at = to] \in ThreadCall
        BY <1>a, <1>b DEF ThreadCall, Step
    <2> QED BY <1>b, <2>1 DEF Step
<1>c. NoAgg \in Agg /\ NoRows \in [Submissions -> Row] /\ Looping \in {Looping} \cup ThreadCall
    BY DEF NoAgg, Agg, NoRows, Row
<1>d. inbox # <<>> => Head(inbox) \in TelemetryBatch /\ Tail(inbox) \in Seq(TelemetryBatch)
    OBVIOUS
<1>1. CASE ReadBatches
    <2> DEFINE n == IF Len(teleRaw) < ReadCount THEN Len(teleRaw) ELSE ReadCount
    <2>1. teleRaw \in Seq(TelemetryBatch) /\ Len(teleRaw) \in Nat /\ n \in 0 .. Len(teleRaw)
        BY DEF BusTypeOK
    <2>2. SubSeq(teleRaw, 1, n) \in Seq(TelemetryBatch)
        BY <2>1
    <2>3. SubSeq(teleRaw, n + 1, Len(teleRaw)) \in Seq(TelemetryBatch)
        BY <2>1
    <2> QED BY <1>1, <2>2, <2>3 DEF ReadBatches, BusTypeOK
<1>2. CASE AbsorbLate
    BY <1>2, <1>d DEF AbsorbLate, BusTypeOK
<1>3. CASE Absorb
    <2> DEFINE b   == Head(inbox)
               agg == Merge(runs[b.run], b)
    <2>1. b.run \in Runs /\ b.shard \in Shards /\ b.n \in 0 .. MaxFlush /\ b.final \in BOOLEAN
        BY <1>3, <1>d DEF Absorb, TelemetryBatch
    <2>2. runs[b.run] \in Agg
        BY <2>1
    <2>3. agg \in Agg
        <3> DEFINE a == runs[b.run]
                   finals == IF b.final THEN a.finalShards \cup {b.shard} ELSE a.finalShards
        <3>1. a.folded \cup {<<b.shard, b.n>>} \in SUBSET Delta
            BY <2>1, <2>2 DEF Agg, Delta
        <3>2. finals \in SUBSET Shards
            BY <2>1, <2>2 DEF Agg
        <3>3. agg = [a EXCEPT !.folded = a.folded \cup {<<b.shard, b.n>>},
                              !.finalShards = finals]
            BY DEF Merge
        <3> HIDE DEF finals
        <3> QED BY <2>2, <3>1, <3>2, <3>3 DEF Agg
    <2>4. Complete(agg) \in BOOLEAN
        BY DEF Complete
    <2>5. [agg EXCEPT !.finalized = Complete(agg)] \in Agg
        BY <2>3, <2>4 DEF Agg
    <2>6. [Looping EXCEPT !.at = IF Complete(agg) THEN "compute" ELSE "live",
                          !.run = b.run, !.folded = agg.folded] \in ThreadCall
        BY <2>1, <2>3, <1>c DEF ThreadCall, Looping, Finalizing, Agg
    <2>7. runs' \in [Runs -> Agg] /\ thread' \in [Thread -> {Looping} \cup ThreadCall]
        BY <1>3, <2>5, <2>6 DEF Absorb
    <2> QED BY <1>3, <1>d, <2>7 DEF Absorb, BusTypeOK
<1>4. CASE Live
    <2>1. thread["main"].folded \in SUBSET Delta
        BY <1>4, <1>a DEF Live, ThreadCall, Thread
    <2>2. result' \in [Runs -> Result]
        <3>1. CASE result' = [result EXCEPT ![thread["main"].run].metrics = thread["main"].folded]
            BY <2>1, <3>1, ZenonT(30) DEF Result
        <3>2. CASE UNCHANGED result
            BY <3>2
        <3> QED BY <1>4, <3>1, <3>2 DEF Live
    <2> QED BY <1>4, <1>c, <2>2 DEF Live, BusTypeOK
<1>5. CASE \E S \in SUBSET Runs : Sweep(S)
    <2>1. PICK S \in SUBSET Runs : Sweep(S)
        BY <1>5
    <2>2. \A r \in Runs : [runs[r] EXCEPT !.finalized = TRUE] \in Agg
        BY DEF Agg
    <2>3. runs' \in [Runs -> Agg]
        BY <2>1, <2>2 DEF Sweep
    <2> QED BY <2>1, <2>3 DEF Sweep, BusTypeOK
<1>6. CASE SweepNext
    <2>1. PICK r \in stale :
              /\ stale' = stale \ {r}
              /\ thread' = [thread EXCEPT !["sweep"] =
                    [Looping EXCEPT !.at = "compute", !.run = r, !.folded = runs[r].folded]]
        BY <1>6 DEF SweepNext
    <2>2. r \in Runs /\ runs[r].folded \in SUBSET Delta
        BY DEF Agg
    <2>3. [Looping EXCEPT !.at = "compute", !.run = r, !.folded = runs[r].folded] \in ThreadCall
        BY <2>2, <1>c DEF ThreadCall, Looping, Finalizing
    <2> QED BY <1>6, <2>1, <2>3 DEF SweepNext, BusTypeOK
<1>7. ASSUME NEW t \in Thread, FinalizeStep(t)
      PROVE  BusTypeOK' /\ IngTypeOK'
    <2>1. CASE ComputeScore(t)
        <3>1. PICK sc \in Scores :
                  thread' = [thread EXCEPT ![t].at = "result", ![t].score = sc,
                                ![t].conf = run[thread[t].run].conformance_score]
            BY <2>1 DEF ComputeScore
        <3>2. thread[t] \in ThreadCall
            BY <2>1, <1>a DEF ComputeScore
        <3>3. run[thread[t].run].conformance_score \in BOOLEAN
            BY <3>2 DEF ThreadCall, BusTypeOK, RunHash
        <3>4. [thread[t] EXCEPT !.at = "result", !.score = sc,
                  !.conf = run[thread[t].run].conformance_score] \in ThreadCall
            BY <3>2, <3>3 DEF ThreadCall, Finalizing
        <3> QED BY <2>1, <3>1, <3>4 DEF ComputeScore, BusTypeOK
    <2>2. CASE WriteResult(t)
        <3>1. thread[t] \in ThreadCall
            BY <2>2, <1>a DEF WriteResult, Step
        <3>2. result' \in [Runs -> Result]
            BY <2>2, <3>1 DEF WriteResult, ThreadCall, Result
        <3> QED BY <2>2, <1>b, <3>2 DEF WriteResult, Finalizing, BusTypeOK
    <2>3. CASE WriteDone(t)
        <3>1. run' \in [Runs -> RunHash]
            BY <2>3 DEF WriteDone, SetStatus, BusTypeOK, RunHash, Status
        <3> QED BY <2>3, <1>b, <3>1 DEF WriteDone, Finalizing, BusTypeOK
    <2>4. CASE CompareBest(t)
        BY <2>4, <1>b DEF CompareBest, Finalizing, BusTypeOK
    <2>5. CASE AddToBoard(t)
        <3>1. thread[t] \in ThreadCall
            BY <2>5, <1>a DEF AddToBoard, Step
        <3> QED BY <2>5, <1>b, <3>1 DEF AddToBoard, Finalizing, BusTypeOK, ThreadCall
    <2>6. CASE SetBest(t)
        <3>1. thread[t] \in ThreadCall
            BY <2>6, <1>a DEF SetBest, Step
        <3> QED BY <2>6, <1>b, <3>1 DEF SetBest, Finalizing, BusTypeOK, ThreadCall
    <2>7. CASE ReadRows(t)
        <3> DEFINE rows == [s \in Submissions |-> [score |-> leaderboard[s], run |-> best[s]]]
        <3>1. thread[t] \in ThreadCall
            BY <2>7, <1>a DEF ReadRows
        <3>2. rows \in [Submissions -> Row]
            BY DEF Row
        <3>3. [thread[t] EXCEPT !.at = "publish", !.rows = rows] \in ThreadCall
            BY <3>1, <3>2 DEF ThreadCall, Finalizing
        <3> QED BY <2>7, <3>3 DEF ReadRows, BusTypeOK
    <2>8. CASE Publish(t)
        <3>1. thread[t] \in ThreadCall
            BY <2>8, <1>a DEF Publish, Step
        <3> QED BY <2>8, <1>b, <3>1 DEF Publish, Finalizing, BusTypeOK, ThreadCall
    <2>9. CASE Persist(t)
        <3>1. archive' \in [Runs -> Nat]
            <4>1. CASE archive' = [archive EXCEPT ![thread[t].run] = @ + 1]
                <5>1. thread[t].run \in Runs
                    BY <2>9, <1>a DEF Persist, Step, ThreadCall
                <5>2. archive[thread[t].run] + 1 \in Nat
                    BY <5>1
                <5> QED BY <4>1, <5>2
            <4>2. CASE UNCHANGED archive
                BY <4>2
            <4> QED BY <2>9, <4>1, <4>2 DEF Persist
        <3> QED BY <2>9, <1>b, <3>1 DEF Persist, Finalizing, BusTypeOK
    <2>10. CASE DropAggregate(t)
        BY <2>10, <1>c DEF DropAggregate, BusTypeOK
    <2> QED BY <1>7, <2>1, <2>2, <2>3, <2>4, <2>5, <2>6, <2>7, <2>8, <2>9, <2>10
            DEF FinalizeStep
<1>8. CASE IngCrash
    BY <1>8, <1>c DEF IngCrash, Fault, BusTypeOK
<1> QED BY <1>1, <1>2, <1>3, <1>4, <1>5, <1>6, <1>7, <1>8 DEF MainStep, SweepStep, Thread

-----------------------------------------------------------------------------
(* Every step of Arena is a step of one component, and leaves what the     *)
(* other components own alone.                                             *)
LEMMA ComponentSteps ==
    ASSUME [Next]_vars
    PROVE  \/ /\ \E r \in Runs : StoreRun(r) \/ EnqueueRun(r) \/ EnqueueFails(r)
              /\ UNCHANGED <<orchVars, fleet, ingVars>>
           \/ /\ \E o \in Orchestrators : OrchStep(o) \/ PollExpires(o) \/ OrchCrash(o)
              /\ UNCHANGED <<request, fleet, ingVars>>
           \/ /\ \E f \in Replicas : FleetStep(f) \/ FleetCrash(f)
              /\ UNCHANGED <<request, orchVars, ingVars>>
           \/ /\ \/ MainStep \/ SweepStep \/ IngCrash
                 \/ \E S \in SUBSET Runs : Sweep(S)
              /\ UNCHANGED <<request, orchVars, fleet>>
           \/ UNCHANGED vars
<1>1. CASE GatewayNext
    BY <1>1 DEF GatewayNext, GatewayStep
<1>2. CASE OrchNext
    BY <1>2 DEF OrchNext, OrchMoves
<1>3. CASE FleetNext
    BY <1>3 DEF FleetNext, FleetMoves
<1>4. CASE IngNext
    BY <1>4 DEF IngNext, MainMoves, SweepMoves
<1> QED BY <1>1, <1>2, <1>3, <1>4 DEF Next

(* Whatever the services do, crashed and restarted ones included, the hash *)
(* of a run, the streams and every piece of service state keep their type; *)
(* no handler works on a run, shard or batch that does not exist.          *)
THEOREM ArenaTypes == Spec => []TypeOK
<1>1. Init => TypeOK
    <2> SUFFICES ASSUME Init PROVE TypeOK
        OBVIOUS
    <2> USE BusAssumption, IngesterAssumption
    <2>1. BusTypeOK
        BY DEF Init, BusInit, BusTypeOK, RunHash, Status
    <2>2. GatewayTypeOK
        BY DEF Init, GatewayInit, GatewayTypeOK
    <2>3. OrchTypeOK
        BY DEF Init, OrchInit, OrchTypeOK
    <2>4. FleetTypeOK
        BY DEF Init, FleetInit, FleetTypeOK
    <2>5. IngTypeOK
        BY DEF Init, IngInit, IngTypeOK, NoAgg, Agg, Result, NoRows, Row
    <2> QED BY <2>1, <2>2, <2>3, <2>4, <2>5 DEF TypeOK
<1>2. TypeOK /\ [Next]_vars => TypeOK'
    <2> SUFFICES ASSUME TypeOK, [Next]_vars PROVE TypeOK'
        OBVIOUS
    <2> USE DEF TypeOK
    <2>1. CASE /\ \E r \in Runs : StoreRun(r) \/ EnqueueRun(r) \/ EnqueueFails(r)
               /\ UNCHANGED <<orchVars, fleet, ingVars>>
        BY <2>1, GatewayTypes DEF orchVars, ingVars, memoryVars, boardVars, OrchTypeOK,
           FleetTypeOK, IngTypeOK
    <2>2. CASE /\ \E o \in Orchestrators : OrchStep(o) \/ PollExpires(o) \/ OrchCrash(o)
               /\ UNCHANGED <<request, fleet, ingVars>>
        BY <2>2, OrchTypes DEF ingVars, memoryVars, boardVars, GatewayTypeOK,
           FleetTypeOK, IngTypeOK
    <2>3. CASE /\ \E f \in Replicas : FleetStep(f) \/ FleetCrash(f)
               /\ UNCHANGED <<request, orchVars, ingVars>>
        BY <2>3, FleetTypes DEF orchVars, ingVars, memoryVars, boardVars, GatewayTypeOK,
           OrchTypeOK, IngTypeOK
    <2>4. CASE /\ \/ MainStep \/ SweepStep \/ IngCrash
                  \/ \E S \in SUBSET Runs : Sweep(S)
               /\ UNCHANGED <<request, orchVars, fleet>>
        BY <2>4, IngTypes DEF orchVars, GatewayTypeOK, OrchTypeOK, FleetTypeOK
    <2>5. CASE UNCHANGED vars
        BY <2>5 DEF vars, busVars, orchVars, ingVars, memoryVars, boardVars, BusTypeOK,
           GatewayTypeOK, OrchTypeOK, FleetTypeOK, IngTypeOK
    <2> QED BY <2>1, <2>2, <2>3, <2>4, <2>5, ComponentSteps
<1> QED BY <1>1, <1>2, PTL DEF Spec

-----------------------------------------------------------------------------
(* One step of the ingester keeps OneOwnerPerVerdict, which is inductive   *)
(* once the types are known: a claim needs an unmarked aggregate, and an   *)
(* unmarked aggregate is in nobody's hands.                                *)
LEMMA OwnerStep ==
    ASSUME IngTypeOK, BusTypeOK, OneOwnerPerVerdict,
           \/ MainStep \/ SweepStep \/ IngCrash
           \/ \E S \in SUBSET Runs : Sweep(S)
    PROVE  OneOwnerPerVerdict'
<1> USE DEF OneOwnerPerVerdict, Thread
<1>a. /\ \A t \in Thread : thread[t].at \in Finalizing => thread[t].run \in Runs
      /\ "loop" \notin Finalizing /\ "live" \notin Finalizing
      /\ stale \subseteq Runs
    BY DEF IngTypeOK, Looping, ThreadCall, Finalizing
<1>b. thread \in [Thread -> {Looping} \cup ThreadCall] /\ runs \in [Runs -> Agg]
    BY DEF IngTypeOK
<1>1. CASE ReadBatches
    BY <1>1 DEF ReadBatches
<1>2. CASE AbsorbLate
    BY <1>2 DEF AbsorbLate
<1>3. CASE Absorb
    <2> DEFINE b   == Head(inbox)
               agg == Merge(runs[b.run], b)
    <2>a. b \in TelemetryBatch
        BY <1>3 DEF Absorb, IngTypeOK
    <2>1. b.run \in Runs
        BY <2>a DEF TelemetryBatch
    <2>2. ~runs[b.run].finalized
        BY <1>3 DEF Absorb
    <2>3. /\ runs' = [runs EXCEPT ![b.run] = [agg EXCEPT !.finalized = Complete(agg)]]
          /\ thread' = [thread EXCEPT !["main"] =
                [Looping EXCEPT !.at = IF Complete(agg) THEN "compute" ELSE "live",
                                !.run = b.run, !.folded = agg.folded]]
        BY <1>3 DEF Absorb
    <2> HIDE DEF b, agg
    <2>4. /\ thread'["main"].at = IF Complete(agg) THEN "compute" ELSE "live"
          /\ thread'["main"].run = b.run /\ thread'["main"].folded = agg.folded
          /\ thread'["sweep"] = thread["sweep"]
        BY <1>b, <2>3 DEF Looping
    <2>5. /\ runs'[b.run].finalized = Complete(agg) /\ runs'[b.run].folded = agg.folded
          /\ \A r \in Runs : r # b.run => runs'[r] = runs[r]
        <3>1. agg = Merge(runs[b.run], b) /\ runs[b.run] \in Agg
            BY <1>b, <2>1 DEF agg
        <3>2. agg = [folded |-> agg.folded, finalShards |-> agg.finalShards, finalized |-> agg.finalized]
            BY <3>1 DEF Merge, Agg
        <3> QED BY <1>b, <2>1, <2>3, <3>2
    <2>6. Complete(agg) \in BOOLEAN
        BY DEF Complete
    <2>7. "compute" \in Finalizing /\ thread["main"].at = "loop" /\ stale' = stale
        BY <1>3 DEF Finalizing, Absorb
    <2>8. thread["sweep"].at \in Finalizing => thread["sweep"].run # b.run
        BY <1>a, <2>2
    <2> QED BY <1>a, <2>1, <2>2, <2>4, <2>5, <2>6, <2>7, <2>8
<1>4. CASE Live
    BY <1>4, <1>a, <1>b DEF Live, Looping
<1>5. CASE \E S \in SUBSET Runs : Sweep(S)
    BY <1>5, <1>a, <1>b DEF Sweep, Claimable, Agg
<1>6. CASE SweepNext
    BY <1>6, <1>a, <1>b DEF SweepNext, Looping, Finalizing
<1>7. ASSUME NEW t \in Thread, NEW from \in Finalizing, NEW to \in Finalizing,
             Step(t, from, to), UNCHANGED <<runs, stale>>
      PROVE  OneOwnerPerVerdict'
    BY <1>7, <1>a, <1>b DEF Step, ThreadCall
<1>8. ASSUME NEW t \in Thread, FinalizeStep(t)
      PROVE  OneOwnerPerVerdict'
    <2>1. CASE ComputeScore(t)
        BY <2>1, <1>a, <1>b DEF ComputeScore, ThreadCall, Finalizing
    <2>2. CASE WriteResult(t)
        BY <2>2, <1>7 DEF WriteResult, Finalizing
    <2>3. CASE WriteDone(t)
        BY <2>3, <1>7 DEF WriteDone, Finalizing
    <2>4. CASE CompareBest(t)
        BY <2>4, <1>7 DEF CompareBest, Finalizing
    <2>5. CASE AddToBoard(t)
        BY <2>5, <1>7 DEF AddToBoard, Finalizing
    <2>6. CASE SetBest(t)
        BY <2>6, <1>7 DEF SetBest, Finalizing
    <2>7. CASE ReadRows(t)
        BY <2>7, <1>a, <1>b DEF ReadRows, ThreadCall, Finalizing
    <2>8. CASE Publish(t)
        BY <2>8, <1>7 DEF Publish, Finalizing
    <2>9. CASE Persist(t)
        BY <2>9, <1>7 DEF Persist, Finalizing
    <2>10. CASE DropAggregate(t)
        BY <2>10, <1>a, <1>b DEF DropAggregate, Looping, NoAgg, Finalizing
    <2> QED BY <1>8, <2>1, <2>2, <2>3, <2>4, <2>5, <2>6, <2>7, <2>8, <2>9, <2>10
            DEF FinalizeStep
<1>9. CASE IngCrash
    BY <1>9, <1>a DEF IngCrash, Looping, NoAgg
<1> QED BY <1>1, <1>2, <1>3, <1>4, <1>5, <1>6, <1>8, <1>9 DEF MainStep, SweepStep

(* The two goroutines of the ingester never finalize one run at a time,    *)
(* nothing is folded into an aggregate that one of them reads without the  *)
(* lock, and no marked aggregate is ever left behind: for any number of    *)
(* runs and shards and any crashes.                                        *)
THEOREM VerdictsHaveOneOwner == Spec => []OneOwnerPerVerdict
<1>1. Init => OneOwnerPerVerdict
    BY DEF Init, IngInit, OneOwnerPerVerdict, Looping, NoAgg, Finalizing, Thread
<1>2. TypeOK /\ OneOwnerPerVerdict /\ [Next]_vars => OneOwnerPerVerdict'
    <2> SUFFICES ASSUME TypeOK, OneOwnerPerVerdict, [Next]_vars
                 PROVE  OneOwnerPerVerdict'
        OBVIOUS
    <2>1. CASE UNCHANGED ingVars
        BY <2>1 DEF ingVars, memoryVars, OneOwnerPerVerdict
    <2>2. CASE \/ MainStep \/ SweepStep \/ IngCrash
               \/ \E S \in SUBSET Runs : Sweep(S)
        BY <2>2, OwnerStep DEF TypeOK
    <2> QED BY <2>1, <2>2, ComponentSteps DEF vars
<1> QED BY <1>1, <1>2, ArenaTypes, PTL DEF Spec

-----------------------------------------------------------------------------
(* Only finalize() says done: a step of another service never makes a run  *)
(* done, nor does it take a conformance score away.                        *)
LEMMA OthersNeverSayDone ==
    ASSUME BusTypeOK, NEW r \in Runs,
           \/ \E x \in Runs : StoreRun(x) \/ EnqueueRun(x) \/ EnqueueFails(x)
           \/ \E o \in Orchestrators : OrchStep(o) \/ PollExpires(o) \/ OrchCrash(o)
           \/ \E f \in Replicas : FleetStep(f) \/ FleetCrash(f)
    PROVE  /\ run'[r].status = "done" => run[r].status = "done"
           /\ run[r].conformance_score => run'[r].conformance_score
<1>a. run \in [Runs -> RunHash]
    BY DEF BusTypeOK
<1>b. ASSUME NEW x, NEW s, s # "done", SetStatus(x, s)
      PROVE  /\ run'[r].status = "done" => run[r].status = "done"
             /\ run[r].conformance_score => run'[r].conformance_score
    BY <1>a, <1>b DEF SetStatus, RunHash
<1>1. CASE \E x \in Runs : StoreRun(x) \/ EnqueueRun(x) \/ EnqueueFails(x)
    BY <1>1, <1>b DEF StoreRun, EnqueueRun, EnqueueFails
<1>2. ASSUME NEW o \in Orchestrators, OrchStep(o) \/ PollExpires(o) \/ OrchCrash(o)
      PROVE  /\ run'[r].status = "done" => run[r].status = "done"
             /\ run[r].conformance_score => run'[r].conformance_score
    <2>1. CASE Probe(o)
        BY <2>1, <1>a DEF Probe, RunHash
    <2>2. CASE \/ StartBuild(o) \/ BuildFails(o) \/ SandboxFails(o) \/ NeverHealthy(o)
               \/ Healthy(o) \/ StartLoad(o) \/ GiveUp(o)
        BY <2>2, <1>b DEF StartBuild, BuildFails, SandboxFails, NeverHealthy, Healthy,
           StartLoad, GiveUp
    <2>3. CASE \/ ClaimRun(o) \/ BuildSucceeds(o) \/ SandboxStarts(o) \/ Dispatch(o)
               \/ DispatchLost(o) \/ SeeVerdict(o) \/ PollExpires(o) \/ Teardown(o)
               \/ OrchCrash(o)
        BY <2>3 DEF ClaimRun, BuildSucceeds, SandboxStarts, Dispatch, DispatchLost,
           SeeVerdict, PollExpires, Teardown, OrchCrash, busVars
    <2> QED BY <1>2, <2>1, <2>2, <2>3 DEF OrchStep
<1>3. CASE \E f \in Replicas : FleetStep(f) \/ FleetCrash(f)
    BY <1>3 DEF FleetStep, ClaimShard, FlushDelta, FlushFinal, FleetCrash
<1> QED BY <1>1, <1>2, <1>3

(* DoneHasScore is inductive together with what finalize() knows between   *)
(* its writes.                                                             *)
ScoreBeforeDone ==
    /\ DoneHasScore
    /\ \A t \in Thread :
          /\ thread[t].at = "result" => thread[t].score # NoScore
          /\ thread[t].at = "done" => result[thread[t].run].score # NoScore

LEMMA ScoreStep ==
    ASSUME BusTypeOK, IngTypeOK, ScoreBeforeDone,
           \/ MainStep \/ SweepStep \/ IngCrash
           \/ \E S \in SUBSET Runs : Sweep(S)
    PROVE  ScoreBeforeDone'
<1> USE DEF ScoreBeforeDone, DoneHasScore
<1>a. /\ thread \in [Thread -> {Looping} \cup ThreadCall]
      /\ result \in [Runs -> Result]
      /\ run \in [Runs -> RunHash]
    BY DEF IngTypeOK, BusTypeOK
<1>b. /\ \A t \in Thread : thread[t].at # "loop" => thread[t] \in ThreadCall
      /\ Looping.at = "loop"
    BY <1>a DEF Looping
<1>1. CASE ReadBatches
    BY <1>1 DEF ReadBatches
<1>2. CASE AbsorbLate
    BY <1>2 DEF AbsorbLate, busVars
<1>3. CASE Absorb
    <2>1. thread'["main"].at \in {"compute", "live"}
        BY <1>3, <1>a DEF Absorb, Looping, Thread
    <2> QED BY <1>3, <1>a, <2>1 DEF Absorb, busVars, Thread
<1>4. CASE Live
    <2>1. \A r \in Runs : result'[r].score = result[r].score
        BY <1>4, <1>a DEF Live, Result
    <2> QED BY <1>4, <1>a, <1>b, <2>1 DEF Live, busVars, ThreadCall
<1>5. CASE \E S \in SUBSET Runs : Sweep(S)
    BY <1>5 DEF Sweep, busVars
<1>6. CASE SweepNext
    <2>1. thread'["sweep"].at = "compute"
        BY <1>6, <1>a DEF SweepNext, Looping, Thread
    <2> QED BY <1>6, <1>a, <2>1 DEF SweepNext, busVars, Thread
<1>7. ASSUME NEW t \in Thread, FinalizeStep(t)
      PROVE  ScoreBeforeDone'
    <2>1. CASE ComputeScore(t)
        BY <2>1, <1>a, <1>b, IngesterAssumption DEF ComputeScore, ThreadCall, NoScore, busVars
    <2>2. CASE WriteResult(t)
        <3>1. thread[t] \in ThreadCall /\ thread[t].score # NoScore
            BY <2>2, <1>b DEF WriteResult, Step
        <3>2. \A r \in Runs : result[r].score # NoScore => result'[r].score # NoScore
            BY <2>2, <1>a, <3>1 DEF WriteResult, Result
        <3>3. result'[thread[t].run].score # NoScore
            BY <2>2, <1>a, <3>1 DEF WriteResult, Result, ThreadCall
        <3>4. \A u \in Thread : thread[u].at = "done" => thread[u].run \in Runs
            BY <1>b DEF ThreadCall
        <3> QED BY <2>2, <1>a, <3>1, <3>2, <3>3, <3>4 DEF WriteResult, Step, ThreadCall, busVars
    <2>3. CASE WriteDone(t)
        BY <2>3, <1>a, <1>b DEF WriteDone, Step, SetStatus, RunHash, ThreadCall
    <2>4. CASE CompareBest(t)
        BY <2>4, <1>a DEF CompareBest, Step, ThreadCall, busVars
    <2>5. CASE AddToBoard(t)
        BY <2>5, <1>a DEF AddToBoard, Step, ThreadCall, busVars
    <2>6. CASE SetBest(t)
        BY <2>6, <1>a DEF SetBest, Step, ThreadCall, busVars
    <2>7. CASE ReadRows(t)
        BY <2>7, <1>a DEF ReadRows, ThreadCall, busVars
    <2>8. CASE Publish(t)
        BY <2>8, <1>a DEF Publish, Step, ThreadCall, busVars
    <2>9. CASE Persist(t)
        BY <2>9, <1>a DEF Persist, Step, ThreadCall, busVars
    <2>10. CASE DropAggregate(t)
        BY <2>10, <1>a, <1>b DEF DropAggregate, busVars
    <2> QED BY <1>7, <2>1, <2>2, <2>3, <2>4, <2>5, <2>6, <2>7, <2>8, <2>9, <2>10
            DEF FinalizeStep
<1>8. CASE IngCrash
    BY <1>8, <1>b DEF IngCrash
<1> QED BY <1>1, <1>2, <1>3, <1>4, <1>5, <1>6, <1>7, <1>8 DEF MainStep, SweepStep, Thread

(* Whoever reads a run as done finds its score in the result hash, at every *)
(* moment and after a crash between any two of finalize()'s writes.         *)
THEOREM DoneRunsHaveScores == Spec => []DoneHasScore
<1>1. Init => ScoreBeforeDone
    BY DEF Init, BusInit, IngInit, ScoreBeforeDone, DoneHasScore, Looping
<1>2. TypeOK /\ ScoreBeforeDone /\ [Next]_vars => ScoreBeforeDone'
    <2> SUFFICES ASSUME TypeOK, ScoreBeforeDone, [Next]_vars
                 PROVE  ScoreBeforeDone'
        OBVIOUS
    <2>1. CASE /\ \/ \E x \in Runs : StoreRun(x) \/ EnqueueRun(x) \/ EnqueueFails(x)
                  \/ \E o \in Orchestrators : OrchStep(o) \/ PollExpires(o) \/ OrchCrash(o)
                  \/ \E f \in Replicas : FleetStep(f) \/ FleetCrash(f)
               /\ UNCHANGED ingVars
        <3>1. \A r \in Runs : run'[r].status = "done" => run[r].status = "done"
            BY <2>1, OthersNeverSayDone DEF TypeOK
        <3> QED BY <2>1, <3>1 DEF ingVars, memoryVars, ScoreBeforeDone, DoneHasScore
    <2>2. CASE \/ MainStep \/ SweepStep \/ IngCrash
               \/ \E S \in SUBSET Runs : Sweep(S)
        BY <2>2, ScoreStep DEF TypeOK
    <2>3. CASE UNCHANGED vars
        BY <2>3 DEF vars, busVars, ingVars, memoryVars, ScoreBeforeDone, DoneHasScore
    <2> QED BY <2>1, <2>2, <2>3, ComponentSteps
<1>3. ScoreBeforeDone => DoneHasScore
    BY DEF ScoreBeforeDone
<1> QED BY <1>1, <1>2, <1>3, ArenaTypes, PTL DEF Spec

-----------------------------------------------------------------------------
(* Wherever a shard, a batch or an aggregate of a run is, the run has been *)
(* probed: the score is there before the first shard leaves, and nothing   *)
(* takes it away.                                                          *)
Probed == {r \in Runs : run[r].conformance_score}

ProbedUpstream ==
    /\ \A o \in Orchestrators : orch[o].at \in {"load", "fanout"} => orch[o].run \in Probed
    /\ \A i \in 1 .. Len(loadJobs) : loadJobs[i].run \in Probed
    /\ \A f \in Replicas : fleet[f] # NoShard => fleet[f].run \in Probed
    /\ \A i \in 1 .. Len(teleRaw) : teleRaw[i].run \in Probed

ProbedInIngester ==
    /\ \A i \in 1 .. Len(inbox) : inbox[i].run \in Probed
    /\ \A r \in Runs : runs[r] # NoAgg => r \in Probed
    /\ stale \subseteq Probed
    /\ \A t \in Thread :
          /\ thread[t].at = "compute" => thread[t].run \in Probed
          /\ thread[t].at = "result" => thread[t].conf
    /\ VerdictUsesConformance

LEMMA ProbedStays ==
    ASSUME TypeOK, [Next]_vars
    PROVE  Probed \subseteq Probed'
<1> SUFFICES ASSUME NEW r \in Runs, run[r].conformance_score
             PROVE  run'[r].conformance_score
    BY DEF Probed
<1>1. CASE \/ \E x \in Runs : StoreRun(x) \/ EnqueueRun(x) \/ EnqueueFails(x)
           \/ \E o \in Orchestrators : OrchStep(o) \/ PollExpires(o) \/ OrchCrash(o)
           \/ \E f \in Replicas : FleetStep(f) \/ FleetCrash(f)
    BY <1>1, OthersNeverSayDone DEF TypeOK
<1>2. CASE UNCHANGED run
    BY <1>2
<1>3. ASSUME NEW t \in Thread, WriteDone(t)
      PROVE  run'[r].conformance_score
    BY <1>3 DEF WriteDone, SetStatus, TypeOK, BusTypeOK, RunHash
<1>4. CASE \/ MainStep \/ SweepStep \/ IngCrash \/ \E S \in SUBSET Runs : Sweep(S)
    BY <1>2, <1>3, <1>4 DEF MainStep, SweepStep, FinalizeStep, ReadBatches, AbsorbLate,
       Absorb, Live, Sweep, SweepNext, ComputeScore, WriteResult, CompareBest, AddToBoard,
       SetBest, ReadRows, Publish, Persist, DropAggregate, IngCrash, busVars, Thread
<1> QED BY <1>1, <1>2, <1>4, ComponentSteps DEF vars, busVars

LEMMA AppendProbed ==
    ASSUME NEW T, NEW q \in Seq(T), NEW x, NEW P,
           \A i \in 1 .. Len(q) : q[i].run \in P, x.run \in P
    PROVE  \A i \in 1 .. Len(Append(q, x)) : Append(q, x)[i].run \in P
<1> TAKE i \in 1 .. Len(Append(q, x))
<1>1. i \in 1 .. Len(q) + 1 /\ Len(q) \in Nat
    OBVIOUS
<1>2. CASE i = Len(q) + 1
    <2>1. Append(q, x)[i] = x
        BY <1>2
    <2> QED BY <2>1
<1>3. CASE i \in 1 .. Len(q)
    <2>1. Append(q, x)[i] = q[i]
        BY <1>3
    <2> QED BY <1>3, <2>1
<1> QED BY <1>1, <1>2, <1>3

LEMMA ProbedOrch ==
    ASSUME TypeOK, ProbedUpstream, Probed \subseteq Probed', NEW o \in Orchestrators,
           OrchStep(o) \/ PollExpires(o) \/ OrchCrash(o), UNCHANGED fleet
    PROVE  ProbedUpstream'
<1>a. /\ orch \in [Orchestrators -> {Idle} \cup OrchCall]
      /\ loadJobs \in Seq(LoadShard)
      /\ run \in [Runs -> RunHash]
    BY DEF TypeOK, BusTypeOK, OrchTypeOK
<1>b. Idle.at = "idle" /\ \A p \in Orchestrators : orch[p].at # "idle" => orch[p] \in OrchCall
    BY <1>a DEF Idle
<1>d. ASSUME UNCHANGED <<loadJobs, teleRaw>>,
             \A p \in Orchestrators : orch'[p].at \in {"load", "fanout"} => orch'[p].run \in Probed'
      PROVE  ProbedUpstream'
    BY <1>d DEF ProbedUpstream
<1>e. ASSUME NEW at, at \notin {"load", "fanout"} \/ orch[o].run \in Probed',
             GoTo(o, at), orch[o].at # "idle", UNCHANGED <<loadJobs, teleRaw>>
      PROVE  ProbedUpstream'
    <2>1. orch'[o].at = at /\ orch'[o].run = orch[o].run
        BY <1>a, <1>b, <1>e DEF GoTo, OrchCall
    <2>2. \A p \in Orchestrators : p # o => orch'[p] = orch[p]
        BY <1>a, <1>e DEF GoTo
    <2> QED BY <1>d, <1>e, <2>1, <2>2 DEF ProbedUpstream
<1>f. ASSUME NEW c, c.at \notin {"load", "fanout"},
             orch' = [orch EXCEPT ![o] = c], UNCHANGED <<loadJobs, teleRaw>>
      PROVE  ProbedUpstream'
    <2>1. orch'[o] = c /\ \A p \in Orchestrators : p # o => orch'[p] = orch[p]
        BY <1>a, <1>f
    <2> QED BY <1>d, <1>f, <2>1 DEF ProbedUpstream
<1>g. ASSUME NextShard(o), orch[o].at = "fanout"
      PROVE  \A p \in Orchestrators : orch'[p].at \in {"load", "fanout"} => orch'[p].run \in Probed'
    <2>1. orch'[o].run = orch[o].run /\ \A p \in Orchestrators : p # o => orch'[p] = orch[p]
        BY <1>a, <1>g DEF NextShard
    <2> QED BY <1>g, <2>1 DEF ProbedUpstream
<1>1. CASE ClaimRun(o)
    BY <1>1, <1>f DEF ClaimRun
<1>2. CASE StartBuild(o)
    BY <1>2, <1>e DEF StartBuild
<1>3. CASE BuildFails(o)
    BY <1>3, <1>b, <1>f DEF BuildFails
<1>4. CASE BuildSucceeds(o)
    BY <1>4, <1>e DEF BuildSucceeds, busVars
<1>5. CASE SandboxFails(o)
    BY <1>5, <1>e DEF SandboxFails
<1>6. CASE SandboxStarts(o)
    BY <1>6, <1>e DEF SandboxStarts, busVars
<1>7. CASE NeverHealthy(o)
    BY <1>7, <1>e DEF NeverHealthy
<1>8. CASE Healthy(o)
    BY <1>8, <1>e DEF Healthy
<1>9. CASE Probe(o)
    <2>1. orch[o].run \in Runs
        BY <1>9, <1>b DEF Probe, OrchCall
    <2>2. orch[o].run \in Probed'
        BY <1>9, <1>a, <2>1 DEF Probe, Probed, RunHash
    <2> QED BY <1>9, <1>e, <2>2 DEF Probe
<1>10. CASE StartLoad(o)
    <2>1. orch[o].run \in Probed'
        BY <1>10 DEF StartLoad, ProbedUpstream
    <2> QED BY <1>10, <1>e, <2>1 DEF StartLoad
<1>11. CASE Dispatch(o)
    <2>1. \A i \in 1 .. Len(loadJobs') : loadJobs'[i].run \in Probed'
        <3> DEFINE new == [run |-> orch[o].run, shard |-> orch[o].shard]
        <3>1. loadJobs' = Append(loadJobs, new) /\ new.run \in Probed'
            BY <1>11 DEF Dispatch, ProbedUpstream
        <3>2. \A i \in 1 .. Len(loadJobs) : loadJobs[i].run \in Probed'
            BY DEF ProbedUpstream
        <3> HIDE DEF new
        <3> QED BY <1>a, <3>1, <3>2, AppendProbed
    <2> QED BY <1>11, <1>g, <2>1 DEF Dispatch, ProbedUpstream
<1>12. CASE DispatchLost(o)
    BY <1>12, <1>d, <1>g DEF DispatchLost
<1>13. CASE SeeVerdict(o)
    BY <1>13, <1>e DEF SeeVerdict, busVars
<1>14. CASE PollExpires(o)
    BY <1>14, <1>e DEF PollExpires, busVars
<1>15. CASE GiveUp(o)
    BY <1>15, <1>e DEF GiveUp
<1>16. CASE Teardown(o)
    BY <1>16, <1>b, <1>f DEF Teardown, busVars
<1>17. CASE OrchCrash(o)
    BY <1>17, <1>b, <1>f DEF OrchCrash
<1> QED BY <1>1, <1>2, <1>3, <1>4, <1>5, <1>6, <1>7, <1>8, <1>9, <1>10, <1>11, <1>12,
           <1>13, <1>14, <1>15, <1>16, <1>17 DEF OrchStep

LEMMA ProbedFleet ==
    ASSUME TypeOK, ProbedUpstream, Probed \subseteq Probed', NEW f \in Replicas,
           FleetStep(f) \/ FleetCrash(f), UNCHANGED orch
    PROVE  ProbedUpstream'
<1>a. /\ fleet \in [Replicas -> {NoShard} \cup [run : Runs, shard : Shards, n : 0 .. MaxFlush]]
      /\ loadJobs \in Seq(LoadShard) /\ teleRaw \in Seq(TelemetryBatch)
    BY DEF TypeOK, BusTypeOK, FleetTypeOK
<1>b. ASSUME NEW final, fleet[f] # NoShard, Send(f, final)
      PROVE  \A i \in 1 .. Len(teleRaw') : teleRaw'[i].run \in Probed'
    <2> DEFINE b == [run |-> fleet[f].run, shard |-> fleet[f].shard, n |-> fleet[f].n,
                     final |-> final]
    <2>1. b.run \in Probed' /\ (teleRaw' = Append(teleRaw, b) \/ teleRaw' = teleRaw)
        BY <1>b DEF Send, ProbedUpstream
    <2>2. \A i \in 1 .. Len(teleRaw) : teleRaw[i].run \in Probed'
        BY DEF ProbedUpstream
    <2> HIDE DEF b
    <2> QED BY <1>a, <2>1, <2>2, AppendProbed
<1>1. CASE ClaimShard(f)
    <2>1. Head(loadJobs) = loadJobs[1] /\ 1 \in 1 .. Len(loadJobs)
        BY <1>1, <1>a DEF ClaimShard
    <2>2. \A i \in 1 .. Len(Tail(loadJobs)) : i + 1 \in 1 .. Len(loadJobs)
                                            /\ Tail(loadJobs)[i] = loadJobs[i + 1]
        BY <1>1, <1>a DEF ClaimShard
    <2>3. fleet'[f].run \in Probed' /\ \A g \in Replicas : g # f => fleet'[g] = fleet[g]
        BY <1>1, <1>a, <2>1 DEF ClaimShard, ProbedUpstream
    <2> QED BY <1>1, <2>2, <2>3 DEF ClaimShard, ProbedUpstream
<1>2. CASE FlushDelta(f)
    <2>1. fleet'[f].run = fleet[f].run /\ \A g \in Replicas : g # f => fleet'[g] = fleet[g]
        BY <1>2, <1>a DEF FlushDelta, NoShard
    <2> QED BY <1>2, <1>b, <2>1 DEF FlushDelta, ProbedUpstream
<1>3. CASE FlushFinal(f)
    <2>1. fleet'[f] = NoShard /\ \A g \in Replicas : g # f => fleet'[g] = fleet[g]
        BY <1>3, <1>a DEF FlushFinal
    <2> QED BY <1>3, <1>b, <2>1 DEF FlushFinal, ProbedUpstream
<1>4. CASE FleetCrash(f)
    <2>1. fleet'[f] = NoShard /\ \A g \in Replicas : g # f => fleet'[g] = fleet[g]
        BY <1>4, <1>a DEF FleetCrash
    <2> QED BY <1>4, <2>1 DEF FleetCrash, ProbedUpstream
<1> QED BY <1>1, <1>2, <1>3, <1>4 DEF FleetStep

LEMMA ProbedIngester ==
    ASSUME TypeOK, ProbedUpstream, ProbedInIngester, Probed \subseteq Probed',
           \/ MainStep \/ SweepStep \/ IngCrash
           \/ \E S \in SUBSET Runs : Sweep(S),
           UNCHANGED <<orch, fleet>>
    PROVE  ProbedUpstream' /\ ProbedInIngester'
<1>a. /\ thread \in [Thread -> {Looping} \cup ThreadCall]
      /\ result \in [Runs -> Result]
      /\ runs \in [Runs -> Agg]
      /\ inbox \in Seq(TelemetryBatch)
      /\ teleRaw \in Seq(TelemetryBatch)
      /\ stale \in SUBSET Runs
    BY DEF TypeOK, IngTypeOK, BusTypeOK
<1>b. /\ \A t \in Thread : thread[t].at # "loop" => thread[t] \in ThreadCall
      /\ Looping.at = "loop"
    BY <1>a DEF Looping
<1>c. ASSUME UNCHANGED <<loadJobs, teleRaw>>
      PROVE  ProbedUpstream'
    BY <1>c DEF ProbedUpstream
<1>d. ASSUME UNCHANGED result
      PROVE  VerdictUsesConformance'
    BY <1>d DEF ProbedInIngester, VerdictUsesConformance
<1>e. ASSUME inbox # <<>>, inbox' = Tail(inbox)
      PROVE  /\ Head(inbox).run \in Probed
             /\ \A i \in 1 .. Len(inbox') : inbox'[i].run \in Probed'
    <2>1. Head(inbox) = inbox[1] /\ 1 \in 1 .. Len(inbox)
        BY <1>a, <1>e
    <2>2. \A i \in 1 .. Len(Tail(inbox)) : i + 1 \in 1 .. Len(inbox)
                                         /\ Tail(inbox)[i] = inbox[i + 1]
        BY <1>a, <1>e
    <2> QED BY <1>e, <2>1, <2>2 DEF ProbedInIngester
<1>f. ASSUME NEW t \in Thread, NEW c, thread' = [thread EXCEPT ![t] = c],
             c.at = "compute" => c.run \in Probed',
             c.at = "result" => c.conf
      PROVE  \A u \in Thread : /\ thread'[u].at = "compute" => thread'[u].run \in Probed'
                               /\ thread'[u].at = "result" => thread'[u].conf
    <2>1. thread'[t] = c /\ \A u \in Thread : u # t => thread'[u] = thread[u]
        BY <1>a, <1>f
    <2> QED BY <1>f, <2>1 DEF ProbedInIngester
<1>1. CASE ReadBatches
    <2> DEFINE n == IF Len(teleRaw) < ReadCount THEN Len(teleRaw) ELSE ReadCount
    <2>1. Len(teleRaw) \in Nat /\ n \in 0 .. Len(teleRaw)
        BY <1>a, IngesterAssumption
    <2>2. /\ inbox' = SubSeq(teleRaw, 1, n)
          /\ teleRaw' = SubSeq(teleRaw, n + 1, Len(teleRaw))
        BY <1>1 DEF ReadBatches
    <2> HIDE DEF n
    <2>3. \A i \in 1 .. Len(inbox') : i \in 1 .. Len(teleRaw) /\ inbox'[i] = teleRaw[i]
        BY <1>a, <2>1, <2>2
    <2>4. \A i \in 1 .. Len(teleRaw') : /\ n + i \in 1 .. Len(teleRaw)
                                        /\ teleRaw'[i] = teleRaw[n + i]
        BY <1>a, <2>1, <2>2
    <2>5. ProbedUpstream'
        BY <1>1, <2>4 DEF ReadBatches, ProbedUpstream
    <2>6. ProbedInIngester'
        BY <1>1, <1>d, <2>3 DEF ReadBatches, ProbedUpstream, ProbedInIngester
    <2> QED BY <2>5, <2>6
<1>2. CASE AbsorbLate
    BY <1>2, <1>c, <1>d, <1>e DEF AbsorbLate, busVars, ProbedInIngester
<1>3. CASE Absorb
    <2> DEFINE b   == Head(inbox)
               agg == Merge(runs[b.run], b)
               c   == [Looping EXCEPT !.at = IF Complete(agg) THEN "compute" ELSE "live",
                                      !.run = b.run, !.folded = agg.folded]
    <2>1. b.run \in Probed /\ \A i \in 1 .. Len(inbox') : inbox'[i].run \in Probed'
        BY <1>3, <1>e DEF Absorb
    <2>2. thread' = [thread EXCEPT !["main"] = c] /\ "main" \in Thread
        BY <1>3 DEF Absorb, Thread
    <2>3. c.run \in Probed' /\ c.at # "result"
        BY <2>1 DEF Looping
    <2>4. \A r \in Runs : r # b.run => runs'[r] = runs[r]
        BY <1>3, <1>a DEF Absorb
    <2> HIDE DEF b, c
    <2>5. \A u \in Thread : /\ thread'[u].at = "compute" => thread'[u].run \in Probed'
                            /\ thread'[u].at = "result" => thread'[u].conf
        BY <1>f, <2>2, <2>3
    <2> QED BY <1>3, <1>c, <1>d, <2>1, <2>4, <2>5 DEF Absorb, busVars, ProbedInIngester
<1>4. CASE Live
    <2>1. \A r \in Runs : result'[r].score = result[r].score /\ result'[r].conf = result[r].conf
        BY <1>4, <1>a DEF Live, Result
    <2>2. VerdictUsesConformance'
        BY <2>1 DEF ProbedInIngester, VerdictUsesConformance
    <2>3. thread' = [thread EXCEPT !["main"] = Looping] /\ "main" \in Thread
        BY <1>4 DEF Live, Thread
    <2>4. \A u \in Thread : /\ thread'[u].at = "compute" => thread'[u].run \in Probed'
                            /\ thread'[u].at = "result" => thread'[u].conf
        BY <1>b, <1>f, <2>3
    <2> QED BY <1>4, <1>c, <2>2, <2>4 DEF Live, busVars, ProbedInIngester
<1>5. CASE \E S \in SUBSET Runs : Sweep(S)
    <2>1. PICK S \in SUBSET Runs : Sweep(S)
        BY <1>5
    <2>2. S \subseteq Probed' /\ stale' = S
        BY <2>1 DEF Sweep, Claimable, ProbedInIngester
    <2>3. \A r \in Runs : r \notin S => runs'[r] = runs[r]
        BY <2>1 DEF Sweep
    <2> QED BY <2>1, <1>c, <1>d, <2>2, <2>3 DEF Sweep, busVars, ProbedInIngester
<1>6. CASE SweepNext
    <2>1. PICK r \in stale :
              /\ stale' = stale \ {r}
              /\ thread' = [thread EXCEPT !["sweep"] =
                    [Looping EXCEPT !.at = "compute", !.run = r, !.folded = runs[r].folded]]
        BY <1>6 DEF SweepNext
    <2> DEFINE c == [Looping EXCEPT !.at = "compute", !.run = r, !.folded = runs[r].folded]
    <2>2. c.run \in Probed' /\ c.at # "result" /\ "sweep" \in Thread
        BY <2>1 DEF Looping, ProbedInIngester, Thread
    <2>3. thread' = [thread EXCEPT !["sweep"] = c]
        BY <2>1
    <2> HIDE DEF c
    <2>4. \A u \in Thread : /\ thread'[u].at = "compute" => thread'[u].run \in Probed'
                            /\ thread'[u].at = "result" => thread'[u].conf
        BY <1>f, <2>2, <2>3
    <2> QED BY <1>6, <1>c, <1>d, <2>1, <2>4 DEF SweepNext, busVars, ProbedInIngester
<1>g. ASSUME NEW t \in Thread, NEW from, NEW to, to \notin {"compute", "result"}, from # "loop",
             Step(t, from, to)
      PROVE  \A u \in Thread : /\ thread'[u].at = "compute" => thread'[u].run \in Probed'
                               /\ thread'[u].at = "result" => thread'[u].conf
    <2>1. thread'[t].at = to /\ \A u \in Thread : u # t => thread'[u] = thread[u]
        BY <1>a, <1>b, <1>g DEF Step, ThreadCall
    <2> QED BY <1>g, <2>1 DEF ProbedInIngester
<1>7. ASSUME NEW t \in Thread, FinalizeStep(t)
      PROVE  ProbedUpstream' /\ ProbedInIngester'
    <2>1. CASE ComputeScore(t)
        <3>1. PICK sc \in Scores :
                  thread' = [thread EXCEPT ![t].at = "result", ![t].score = sc,
                                ![t].conf = run[thread[t].run].conformance_score]
            BY <2>1 DEF ComputeScore
        <3>2. thread[t] \in ThreadCall /\ run[thread[t].run].conformance_score
            BY <2>1, <1>b DEF ComputeScore, ProbedInIngester, Probed
        <3>3. thread'[t].at = "result" /\ thread'[t].conf = run[thread[t].run].conformance_score
            BY <3>1, <3>2, <1>a DEF ThreadCall
        <3>4. \A u \in Thread : u # t => thread'[u] = thread[u]
            BY <3>1, <1>a
        <3>5. \A u \in Thread : /\ thread'[u].at = "compute" => thread'[u].run \in Probed'
                                /\ thread'[u].at = "result" => thread'[u].conf
            BY <3>2, <3>3, <3>4 DEF ProbedInIngester
        <3> QED BY <2>1, <1>c, <1>d, <3>5 DEF ComputeScore, busVars, ProbedInIngester
    <2>2. CASE WriteResult(t)
        <3>1. thread[t].conf
            BY <2>2 DEF WriteResult, Step, ProbedInIngester
        <3>2. \A r \in Runs : result'[r] = result[r] \/ result'[r].conf = thread[t].conf
            BY <2>2, <1>a DEF WriteResult
        <3>3. VerdictUsesConformance'
            BY <3>1, <3>2 DEF ProbedInIngester, VerdictUsesConformance
        <3>4. \A u \in Thread : /\ thread'[u].at = "compute" => thread'[u].run \in Probed'
                                /\ thread'[u].at = "result" => thread'[u].conf
            BY <2>2, <1>g DEF WriteResult
        <3> QED BY <2>2, <1>c, <3>3, <3>4 DEF WriteResult, busVars, ProbedInIngester
    <2>3. CASE WriteDone(t)
        BY <2>3, <1>c, <1>d, <1>g DEF WriteDone, ProbedInIngester
    <2>4. CASE CompareBest(t)
        BY <2>4, <1>c, <1>d, <1>g DEF CompareBest, busVars, ProbedInIngester
    <2>5. CASE AddToBoard(t)
        BY <2>5, <1>c, <1>d, <1>g DEF AddToBoard, busVars, ProbedInIngester
    <2>6. CASE SetBest(t)
        BY <2>6, <1>c, <1>d, <1>g DEF SetBest, busVars, ProbedInIngester
    <2>7. CASE ReadRows(t)
        <3>1. thread'[t].at = "publish" /\ \A u \in Thread : u # t => thread'[u] = thread[u]
            BY <2>7, <1>a, <1>b DEF ReadRows, ThreadCall
        <3> QED BY <2>7, <1>c, <1>d, <3>1 DEF ReadRows, busVars, ProbedInIngester
    <2>8. CASE Publish(t)
        BY <2>8, <1>c, <1>d, <1>g DEF Publish, busVars, ProbedInIngester
    <2>9. CASE Persist(t)
        BY <2>9, <1>c, <1>d, <1>g DEF Persist, busVars, ProbedInIngester
    <2>10. CASE DropAggregate(t)
        <3>1. \A u \in Thread : /\ thread'[u].at = "compute" => thread'[u].run \in Probed'
                                /\ thread'[u].at = "result" => thread'[u].conf
            BY <2>10, <1>b, <1>f DEF DropAggregate
        <3>2. \A r \in Runs : runs'[r] # NoAgg => runs[r] # NoAgg
            BY <2>10, <1>a DEF DropAggregate
        <3> QED BY <2>10, <1>c, <1>d, <3>1, <3>2 DEF DropAggregate, busVars, ProbedInIngester
    <2> QED BY <1>7, <2>1, <2>2, <2>3, <2>4, <2>5, <2>6, <2>7, <2>8, <2>9, <2>10
            DEF FinalizeStep
<1>8. CASE IngCrash
    BY <1>8, <1>b, <1>c, <1>d DEF IngCrash, ProbedInIngester
<1> QED BY <1>1, <1>2, <1>3, <1>4, <1>5, <1>6, <1>7, <1>8 DEF MainStep, SweepStep, Thread

(* Every composite score uses the conformance score of its run: the        *)
(* orchestrator writes it before the first shard leaves, so that it is     *)
(* there wherever a shard, a batch or an aggregate of the run is, however  *)
(* many services crash and however late the batches come.                  *)
THEOREM VerdictsUseConformance == Spec => []VerdictUsesConformance
<1> DEFINE ProbedFirst == ProbedUpstream /\ ProbedInIngester
<1>1. Init => ProbedFirst
    BY DEF Init, BusInit, OrchInit, FleetInit, IngInit, ProbedUpstream, ProbedInIngester,
       VerdictUsesConformance, Idle, Looping
<1>2. TypeOK /\ ProbedFirst /\ [Next]_vars => ProbedFirst'
    <2> SUFFICES ASSUME TypeOK, ProbedUpstream, ProbedInIngester, [Next]_vars
                 PROVE  ProbedUpstream' /\ ProbedInIngester'
        OBVIOUS
    <2>1. Probed \subseteq Probed'
        BY ProbedStays
    <2>2. ASSUME UNCHANGED ingVars
          PROVE  ProbedInIngester'
        BY <2>1, <2>2 DEF ingVars, memoryVars, ProbedInIngester, VerdictUsesConformance
    <2>3. CASE /\ \E r \in Runs : StoreRun(r) \/ EnqueueRun(r) \/ EnqueueFails(r)
               /\ UNCHANGED <<orchVars, fleet, ingVars>>
        <3>1. UNCHANGED <<orch, fleet, loadJobs, teleRaw>>
            BY <2>3 DEF orchVars, StoreRun, EnqueueRun, EnqueueFails
        <3> QED BY <2>1, <2>2, <2>3, <3>1 DEF ProbedUpstream
    <2>4. CASE /\ \E o \in Orchestrators : OrchStep(o) \/ PollExpires(o) \/ OrchCrash(o)
               /\ UNCHANGED <<request, fleet, ingVars>>
        BY <2>1, <2>2, <2>4, ProbedOrch
    <2>5. CASE /\ \E f \in Replicas : FleetStep(f) \/ FleetCrash(f)
               /\ UNCHANGED <<request, orchVars, ingVars>>
        BY <2>1, <2>2, <2>5, ProbedFleet DEF orchVars
    <2>6. CASE /\ \/ MainStep \/ SweepStep \/ IngCrash
                  \/ \E S \in SUBSET Runs : Sweep(S)
               /\ UNCHANGED <<request, orchVars, fleet>>
        BY <2>1, <2>6, ProbedIngester DEF orchVars
    <2>7. CASE UNCHANGED vars
        BY <2>1, <2>2, <2>7 DEF vars, busVars, orchVars, ProbedUpstream
    <2> QED BY <2>3, <2>4, <2>5, <2>6, <2>7, ComponentSteps
<1>3. ProbedFirst => VerdictUsesConformance
    BY DEF ProbedInIngester
<1> QED BY <1>1, <1>2, <1>3, ArenaTypes, PTL DEF Spec

-----------------------------------------------------------------------------
(***************************************************************************)
(* Part 2.                                                                 *)
(*                                                                         *)
(* The life of a run only goes forward: a proof of Arena's NeverGoesBack   *)
(* for any number of runs, shards, replicas, orchestrators and faults.     *)
(*                                                                         *)
(* No service reads the status it overwrites.  What keeps the order is     *)
(* that one token per run moves through the system: the request, then the  *)
(* entry of runs.jobs, then one call of handle(); and that nothing of the  *)
(* run is downstream of the fan-out before handle() has written "load".    *)
(***************************************************************************)

-----------------------------------------------------------------------------
(* The batches on their way to absorb(), the oldest first. *)
Pipe == inbox \o teleRaw

(* The runs of which a shard, a batch or an aggregate exists. *)
Downstream ==
    {r \in Runs :
        \/ \E i \in 1 .. Len(loadJobs) : loadJobs[i].run = r
        \/ \E f \in Replicas : fleet[f].run = r
        \/ \E i \in 1 .. Len(Pipe) : Pipe[i].run = r
        \/ runs[r] # NoAgg}

(* A sequence and what a stream operation makes of it, element by element. *)
LEMMA AppendElements ==
    ASSUME NEW T, NEW q \in Seq(T), NEW x
    PROVE  /\ Len(Append(q, x)) = Len(q) + 1
           /\ \A i \in 1 .. Len(q) : Append(q, x)[i] = q[i]
           /\ Append(q, x)[Len(q) + 1] = x
OBVIOUS

LEMMA TailElements ==
    ASSUME NEW T, NEW q \in Seq(T), q # <<>>
    PROVE  /\ Head(q) = q[1]
           /\ Len(q) \in Nat \ {0}
           /\ Len(Tail(q)) = Len(q) - 1
           /\ \A i \in 1 .. Len(Tail(q)) : Tail(q)[i] = q[i + 1]
OBVIOUS

LEMMA ConcatElements ==
    ASSUME NEW T, NEW p \in Seq(T), NEW q \in Seq(T)
    PROVE  /\ p \o q \in Seq(T)
           /\ Len(p) \in Nat /\ Len(q) \in Nat
           /\ Len(p \o q) = Len(p) + Len(q)
           /\ \A i \in 1 .. Len(p) : (p \o q)[i] = p[i]
           /\ \A i \in 1 .. Len(q) : (p \o q)[Len(p) + i] = q[i]
           /\ \A i \in Len(p) + 1 .. Len(p) + Len(q) : (p \o q)[i] = q[i - Len(p)]
OBVIOUS

(* absorb() takes the first batch of the pipe. *)
LEMMA AbsorbTakes ==
    ASSUME TypeOK, inbox # <<>>, inbox' = Tail(inbox), UNCHANGED teleRaw
    PROVE  /\ 1 \in 1 .. Len(Pipe) /\ Pipe[1] = Head(inbox)
           /\ Len(Pipe) = Len(Pipe') + 1
           /\ \A i \in 1 .. Len(Pipe') : Pipe'[i] = Pipe[i + 1]
<1>a. inbox \in Seq(TelemetryBatch) /\ teleRaw \in Seq(TelemetryBatch)
    BY DEF TypeOK, BusTypeOK, IngTypeOK
<1>1. /\ inbox' \in Seq(TelemetryBatch) /\ Len(inbox) = Len(inbox') + 1
      /\ Head(inbox) = inbox[1] /\ 1 \in 1 .. Len(inbox)
    BY <1>a, TailElements
<1>2. \A i \in 1 .. Len(inbox') : inbox'[i] = inbox[i + 1]
    BY <1>a
<1>3. Len(Pipe') = Len(inbox') + Len(teleRaw) /\ Len(Pipe) = Len(inbox) + Len(teleRaw)
    BY <1>a, <1>1 DEF Pipe
<1>4. \A i \in 1 .. Len(Pipe') : Pipe'[i] = Pipe[i + 1]
    <2> TAKE i \in 1 .. Len(Pipe')
    <2>1. CASE i \in 1 .. Len(inbox')
        BY <1>a, <1>1, <1>2, <2>1, ConcatElements DEF Pipe
    <2>2. CASE i \in Len(inbox') + 1 .. Len(inbox') + Len(teleRaw)
        <3>1. Pipe'[i] = teleRaw[i - Len(inbox')]
            BY <1>a, <1>1, <2>2, ConcatElements DEF Pipe
        <3>2. Pipe[i + 1] = teleRaw[i + 1 - Len(inbox)]
            BY <1>a, <1>1, <2>2, ConcatElements DEF Pipe
        <3> QED BY <1>a, <1>1, <2>2, <3>1, <3>2
    <2> QED BY <1>a, <1>1, <1>3, <2>1, <2>2
<1>5. Pipe[1] = Head(inbox) /\ 1 \in 1 .. Len(Pipe)
    BY <1>a, <1>1, ConcatElements DEF Pipe
<1> QED BY <1>a, <1>1, <1>3, <1>4, <1>5

(* Reading batches from the stream leaves the pipe as it is. *)
LEMMA ReadKeepsPipe ==
    ASSUME TypeOK, ReadBatches
    PROVE  /\ Len(Pipe') = Len(Pipe) /\ Len(Pipe) \in Nat
           /\ \A i \in 1 .. Len(Pipe') : Pipe'[i] = Pipe[i]
<1> DEFINE n == IF Len(teleRaw) < ReadCount THEN Len(teleRaw) ELSE ReadCount
<1>a. inbox \in Seq(TelemetryBatch) /\ teleRaw \in Seq(TelemetryBatch)
    BY DEF TypeOK, BusTypeOK, IngTypeOK
<1>1. Len(teleRaw) \in Nat /\ n \in 0 .. Len(teleRaw)
    BY <1>a, IngesterAssumption
<1>2. /\ inbox' = SubSeq(teleRaw, 1, n)
      /\ teleRaw' = SubSeq(teleRaw, n + 1, Len(teleRaw))
      /\ inbox = <<>>
    BY DEF ReadBatches
<1> HIDE DEF n
<1>3. /\ inbox' \in Seq(TelemetryBatch) /\ Len(inbox') = n
      /\ \A i \in 1 .. n : inbox'[i] = teleRaw[i]
    BY <1>a, <1>1, <1>2
<1>4. /\ teleRaw' \in Seq(TelemetryBatch) /\ Len(teleRaw') = Len(teleRaw) - n
      /\ \A i \in 1 .. Len(teleRaw) - n : teleRaw'[i] = teleRaw[n + i]
    BY <1>a, <1>1, <1>2
<1>5. Pipe = teleRaw
    BY <1>a, <1>2 DEF Pipe
<1>6. /\ Len(Pipe') = Len(teleRaw)
      /\ \A i \in 1 .. n : Pipe'[i] = inbox'[i]
      /\ \A i \in n + 1 .. Len(teleRaw) : Pipe'[i] = teleRaw'[i - n]
    <2>1. Pipe' = inbox' \o teleRaw'
        BY DEF Pipe
    <2>2. n + (Len(teleRaw) - n) = Len(teleRaw)
        BY <1>1
    <2>3. /\ Len(Pipe') = Len(inbox') + Len(teleRaw')
          /\ \A i \in 1 .. Len(inbox') : Pipe'[i] = inbox'[i]
          /\ \A i \in Len(inbox') + 1 .. Len(inbox') + Len(teleRaw') :
                 Pipe'[i] = teleRaw'[i - Len(inbox')]
        BY <1>3, <1>4, <2>1, ConcatElements, SMTT(30)
    <2> QED BY <1>3, <1>4, <2>2, <2>3
<1>7. \A i \in n + 1 .. Len(teleRaw) : teleRaw'[i - n] = teleRaw[i]
    <2> SUFFICES ASSUME NEW i \in n + 1 .. Len(teleRaw)
                 PROVE  teleRaw'[i - n] = teleRaw[i]
        OBVIOUS
    <2>1. i - n \in 1 .. Len(teleRaw) - n /\ n + (i - n) = i
        BY <1>1
    <2> QED BY <1>4, <2>1
<1> QED BY <1>1, <1>3, <1>5, <1>6, <1>7

(* The ingester only takes batches from the front of the pipe: reading     *)
(* them moves none, absorbing takes one, and a crash takes all that were   *)
(* delivered.                                                              *)
LEMMA IngesterTakes ==
    ASSUME TypeOK,
           \/ MainStep \/ SweepStep \/ IngCrash
           \/ \E S \in SUBSET Runs : Sweep(S)
    PROVE  \E d \in Nat : /\ Len(Pipe) = Len(Pipe') + d
                          /\ \A i \in 1 .. Len(Pipe') : Pipe'[i] = Pipe[i + d]
<1>a. inbox \in Seq(TelemetryBatch) /\ teleRaw \in Seq(TelemetryBatch)
    BY DEF TypeOK, BusTypeOK, IngTypeOK
<1>b. Pipe \in Seq(TelemetryBatch) /\ Len(Pipe) \in Nat
    BY <1>a DEF Pipe
<1>c. CASE UNCHANGED <<inbox, teleRaw>>
    <2>1. Pipe' = Pipe
        BY <1>c DEF Pipe
    <2> WITNESS 0 \in Nat
    <2> QED BY <1>b, <2>1
<1>1. CASE ReadBatches
    <2> WITNESS 0 \in Nat
    <2> QED BY <1>1, ReadKeepsPipe
<1>2. CASE AbsorbLate \/ Absorb
    <2>1. inbox # <<>> /\ inbox' = Tail(inbox) /\ UNCHANGED teleRaw
        BY <1>2 DEF AbsorbLate, Absorb, busVars
    <2> WITNESS 1 \in Nat
    <2> QED BY <2>1, AbsorbTakes
<1>3. CASE \/ Live \/ SweepNext \/ \E S \in SUBSET Runs : Sweep(S)
    BY <1>3, <1>c DEF Live, SweepNext, Sweep, busVars
<1>4. CASE \E t \in Thread : FinalizeStep(t)
    BY <1>4, <1>c DEF FinalizeStep, ComputeScore, WriteResult, WriteDone, CompareBest,
       AddToBoard, SetBest, ReadRows, Publish, Persist, DropAggregate, busVars
<1>5. CASE IngCrash
    <2>1. inbox' = <<>> /\ teleRaw' = teleRaw
        BY <1>5 DEF IngCrash
    <2>2. Pipe' = teleRaw
        BY <1>a, <2>1 DEF Pipe
    <2>3. Len(Pipe) = Len(teleRaw) + Len(inbox) /\ Len(inbox) \in Nat
        BY <1>a, ConcatElements DEF Pipe
    <2>4. \A i \in 1 .. Len(teleRaw) : Pipe[i + Len(inbox)] = teleRaw[i]
        BY <1>a, ConcatElements DEF Pipe
    <2> WITNESS Len(inbox) \in Nat
    <2> QED BY <2>2, <2>3, <2>4
<1> QED BY <1>1, <1>2, <1>3, <1>4, <1>5 DEF MainStep, SweepStep, Thread

(* A replica adds at most one batch, of the shard it runs, at the end. *)
LEMMA FleetSends ==
    ASSUME TypeOK, NEW f \in Replicas, NEW final \in BOOLEAN, fleet[f] # NoShard,
           Send(f, final), UNCHANGED inbox
    PROVE  \/ Pipe' = Pipe
           \/ /\ Len(Pipe') = Len(Pipe) + 1
              /\ \A i \in 1 .. Len(Pipe) : Pipe'[i] = Pipe[i]
              /\ Pipe'[Len(Pipe) + 1] = [run |-> fleet[f].run, shard |-> fleet[f].shard,
                                         n |-> fleet[f].n, final |-> final]
<1> DEFINE b == [run |-> fleet[f].run, shard |-> fleet[f].shard, n |-> fleet[f].n,
                 final |-> final]
<1>a. inbox \in Seq(TelemetryBatch) /\ teleRaw \in Seq(TelemetryBatch)
    BY DEF TypeOK, BusTypeOK, IngTypeOK
<1>1. CASE teleRaw' = teleRaw
    BY <1>1 DEF Pipe
<1>2. CASE teleRaw' = Append(teleRaw, b)
    <2>1. b \in TelemetryBatch
        BY DEF TypeOK, FleetTypeOK, TelemetryBatch
    <2> HIDE DEF b
    <2>2. /\ teleRaw' \in Seq(TelemetryBatch) /\ Len(teleRaw') = Len(teleRaw) + 1
          /\ \A i \in 1 .. Len(teleRaw) : teleRaw'[i] = teleRaw[i]
          /\ teleRaw'[Len(teleRaw) + 1] = b
        BY <1>2, <1>a, <2>1
    <2>3. /\ Len(Pipe) = Len(inbox) + Len(teleRaw) /\ Len(inbox) \in Nat /\ Len(teleRaw) \in Nat
          /\ \A i \in 1 .. Len(inbox) : Pipe[i] = inbox[i]
          /\ \A i \in Len(inbox) + 1 .. Len(inbox) + Len(teleRaw) :
                 Pipe[i] = teleRaw[i - Len(inbox)]
        BY <1>a, ConcatElements DEF Pipe
    <2>4. /\ Len(Pipe') = Len(inbox) + Len(teleRaw')
          /\ \A i \in 1 .. Len(inbox) : Pipe'[i] = inbox[i]
          /\ \A i \in Len(inbox) + 1 .. Len(inbox) + Len(teleRaw') :
                 Pipe'[i] = teleRaw'[i - Len(inbox)]
        <3>1. Pipe' = inbox \o teleRaw'
            BY DEF Pipe
        <3> HIDE DEF Pipe
        <3> QED BY <1>a, <2>2, <3>1, ConcatElements, ZenonT(30)
    <2>5. Pipe'[Len(Pipe) + 1] = b
        <3>1. Len(Pipe) + 1 \in Len(inbox) + 1 .. Len(inbox) + Len(teleRaw')
            BY <2>2, <2>3
        <3>2. (Len(Pipe) + 1) - Len(inbox) = Len(teleRaw) + 1
            BY <2>3
        <3> QED BY <2>2, <2>4, <3>1, <3>2
    <2>6. \A i \in 1 .. Len(Pipe) : Pipe'[i] = Pipe[i]
        <3> TAKE i \in 1 .. Len(Pipe)
        <3>1. CASE i \in 1 .. Len(inbox)
            BY <2>3, <2>4, <3>1
        <3>2. CASE i \in Len(inbox) + 1 .. Len(inbox) + Len(teleRaw)
            <4>1. /\ i \in Len(inbox) + 1 .. Len(inbox) + Len(teleRaw')
                  /\ i - Len(inbox) \in 1 .. Len(teleRaw)
                BY <2>2, <2>3, <3>2
            <4> QED BY <2>2, <2>3, <2>4, <3>2, <4>1
        <3> QED BY <2>3, <3>1, <3>2
    <2> QED BY <2>2, <2>3, <2>4, <2>5, <2>6 DEF b
<1> QED BY <1>1, <1>2 DEF Send

(* A run gets downstream by a dispatch and in no other way. *)
LEMMA OnlyDispatchAdds ==
    ASSUME TypeOK, OneOwnerPerVerdict, [Next]_vars, NEW r \in Downstream'
    PROVE  r \in Downstream \/ FanningOut(r)
<1>a. /\ r \in Runs
      /\ loadJobs \in Seq(LoadShard)
      /\ inbox \in Seq(TelemetryBatch) /\ teleRaw \in Seq(TelemetryBatch)
      /\ Pipe \in Seq(TelemetryBatch)
      /\ fleet \in [Replicas -> {NoShard} \cup [run : Runs, shard : Shards, n : 0 .. MaxFlush]]
      /\ runs \in [Runs -> Agg]
    BY DEF Downstream, Pipe, TypeOK, BusTypeOK, FleetTypeOK, IngTypeOK
<1>b. NoShard.run \notin Runs
    BY BusAssumption DEF NoShard
<1>c. ASSUME UNCHANGED <<loadJobs, fleet, teleRaw, inbox, runs>>
      PROVE  r \in Downstream
    BY <1>c DEF Downstream, Pipe
<1>1. CASE /\ \E x \in Runs : StoreRun(x) \/ EnqueueRun(x) \/ EnqueueFails(x)
           /\ UNCHANGED <<orchVars, fleet, ingVars>>
    BY <1>1, <1>c DEF StoreRun, EnqueueRun, EnqueueFails, ingVars, memoryVars
<1>2. ASSUME NEW o \in Orchestrators, OrchStep(o) \/ PollExpires(o) \/ OrchCrash(o),
             UNCHANGED <<request, fleet, ingVars>>
      PROVE  r \in Downstream \/ FanningOut(r)
    <2>1. UNCHANGED <<fleet, inbox, runs>>
        BY <1>2 DEF ingVars, memoryVars
    <2>2. CASE Dispatch(o)
        <3> DEFINE x == [run |-> orch[o].run, shard |-> orch[o].shard]
        <3>1. loadJobs' = Append(loadJobs, x) /\ Pipe' = Pipe
            BY <2>1, <2>2 DEF Dispatch, Pipe
        <3> HIDE DEF x
        <3>2. ASSUME NEW i \in 1 .. Len(loadJobs'), loadJobs'[i].run = r
              PROVE  r \in Downstream \/ x.run = r
            <4>1. i \in 1 .. Len(loadJobs) \/ i = Len(loadJobs) + 1
                BY <1>a, <3>1, <3>2
            <4> QED BY <1>a, <3>1, <3>2, <4>1, AppendElements DEF Downstream
        <3>3. x.run = r => FanningOut(r)
            BY <2>2 DEF x, Dispatch, FanningOut
        <3>4. CASE \E i \in 1 .. Len(loadJobs') : loadJobs'[i].run = r
            BY <3>2, <3>3, <3>4
        <3> QED BY <1>a, <2>1, <3>1, <3>4 DEF Downstream
    <2>3. CASE ~Dispatch(o)
        <3>1. UNCHANGED <<loadJobs, teleRaw>>
            BY <1>2, <2>3 DEF OrchStep, ClaimRun, StartBuild, BuildFails, BuildSucceeds,
               SandboxFails, SandboxStarts, NeverHealthy, Healthy, Probe, StartLoad,
               DispatchLost, SeeVerdict, PollExpires, GiveUp, Teardown, OrchCrash, busVars
        <3> QED BY <1>c, <2>1, <3>1
    <2> QED BY <2>2, <2>3
<1>3. ASSUME NEW f \in Replicas, FleetStep(f) \/ FleetCrash(f),
             UNCHANGED <<request, orchVars, ingVars>>
      PROVE  r \in Downstream
    <2>1. UNCHANGED <<inbox, runs>>
        BY <1>3 DEF ingVars, memoryVars
    <2>2. CASE ClaimShard(f)
        <3>1. Pipe' = Pipe
            BY <2>1, <2>2 DEF ClaimShard, Pipe
        <3>2. loadJobs # <<>> /\ loadJobs' = Tail(loadJobs)
            BY <2>2 DEF ClaimShard
        <3>3. fleet'[f].run = loadJobs[1].run /\ \A g \in Replicas : g # f => fleet'[g] = fleet[g]
            BY <1>a, <2>2 DEF ClaimShard
        <3>4. /\ 1 \in 1 .. Len(loadJobs)
              /\ \A i \in 1 .. Len(loadJobs') : /\ i + 1 \in 1 .. Len(loadJobs)
                                                /\ loadJobs'[i] = loadJobs[i + 1]
            BY <1>a, <3>2, TailElements
        <3> QED BY <2>1, <3>1, <3>3, <3>4 DEF Downstream
    <2>3. ASSUME NEW final \in BOOLEAN, fleet[f] # NoShard, Send(f, final), UNCHANGED loadJobs,
                 \A g \in Replicas : fleet'[g].run \in {NoRun, fleet[g].run}
          PROVE  r \in Downstream
        <3>1. \A i \in 1 .. Len(Pipe') : \/ i \in 1 .. Len(Pipe) /\ Pipe'[i] = Pipe[i]
                                         \/ Pipe'[i].run = fleet[f].run
            <4>1. CASE Pipe' = Pipe
                BY <4>1
            <4>2. CASE /\ Len(Pipe') = Len(Pipe) + 1
                       /\ \A i \in 1 .. Len(Pipe) : Pipe'[i] = Pipe[i]
                       /\ Pipe'[Len(Pipe) + 1].run = fleet[f].run
                <5>1. Len(Pipe) \in Nat
                    BY <1>a
                <5> QED BY <4>2, <5>1
            <4>3. \/ Pipe' = Pipe
                  \/ /\ Len(Pipe') = Len(Pipe) + 1
                     /\ \A i \in 1 .. Len(Pipe) : Pipe'[i] = Pipe[i]
                     /\ Pipe'[Len(Pipe) + 1] = [run |-> fleet[f].run, shard |-> fleet[f].shard,
                                                n |-> fleet[f].n, final |-> final]
                BY <2>1, <2>3, FleetSends
            <4> QED BY <4>1, <4>2, <4>3
        <3> QED BY <1>a, <2>1, <2>3, <3>1, BusAssumption DEF Downstream
    <2>4. CASE FlushDelta(f)
        <3>1. \A g \in Replicas : fleet'[g].run \in {NoRun, fleet[g].run}
            BY <1>a, <2>4 DEF FlushDelta, NoShard
        <3> QED BY <2>3, <2>4, <3>1 DEF FlushDelta
    <2>5. CASE FlushFinal(f)
        <3>1. \A g \in Replicas : fleet'[g].run \in {NoRun, fleet[g].run}
            BY <1>a, <2>5 DEF FlushFinal, NoShard
        <3> QED BY <2>3, <2>5, <3>1 DEF FlushFinal
    <2>6. CASE FleetCrash(f)
        <3>1. \A g \in Replicas : fleet'[g].run \in {NoRun, fleet[g].run}
            BY <1>a, <2>6 DEF FleetCrash, NoShard
        <3>2. Pipe' = Pipe /\ loadJobs' = loadJobs
            BY <2>1, <2>6 DEF FleetCrash, Pipe
        <3> QED BY <1>a, <2>1, <3>1, <3>2, BusAssumption DEF Downstream
    <2> QED BY <1>3, <2>2, <2>4, <2>5, <2>6 DEF FleetStep
<1>4. ASSUME \/ MainStep \/ SweepStep \/ IngCrash
             \/ \E S \in SUBSET Runs : Sweep(S),
             UNCHANGED <<request, orchVars, fleet>>
      PROVE  r \in Downstream
    <2>1. loadJobs' = loadJobs
        BY <1>4 DEF MainStep, SweepStep, FinalizeStep, ReadBatches, AbsorbLate, Absorb, Live,
           Sweep, SweepNext, ComputeScore, WriteResult, WriteDone, CompareBest, AddToBoard,
           SetBest, ReadRows, Publish, Persist, DropAggregate, IngCrash, busVars
    <2>2. PICK d \in Nat : /\ Len(Pipe) = Len(Pipe') + d
                           /\ \A i \in 1 .. Len(Pipe') : Pipe'[i] = Pipe[i + d]
        BY <1>4, IngesterTakes
    <2>3. \A i \in 1 .. Len(Pipe') : i + d \in 1 .. Len(Pipe)
        BY <1>a, <2>2
    <2>4. CASE \E i \in 1 .. Len(Pipe') : Pipe'[i].run = r
        BY <1>a, <2>2, <2>3, <2>4 DEF Downstream
    <2>5. ASSUME runs'[r] # NoAgg
          PROVE  r \in Downstream
        <3>1. CASE runs[r] # NoAgg
            BY <1>a, <3>1 DEF Downstream
        <3>2. CASE runs[r] = NoAgg
            <4>1. CASE Absorb
                <5>1. /\ inbox # <<>> /\ inbox' = Tail(inbox) /\ teleRaw' = teleRaw
                      /\ runs'[r] = runs[r] \/ r = Head(inbox).run
                    BY <1>a, <4>1 DEF Absorb, busVars
                <5>2. Pipe[1] = Head(inbox) /\ 1 \in 1 .. Len(Pipe)
                    BY <5>1, AbsorbTakes
                <5> QED BY <1>a, <2>5, <3>2, <5>1, <5>2 DEF Downstream
            <4>2. CASE \E S \in SUBSET Runs : Sweep(S)
                <5>1. runs'[r] = runs[r]
                    BY <1>a, <3>2, <4>2 DEF Sweep, Claimable
                <5> QED BY <2>5, <3>2, <5>1
            <4>3. CASE \E t \in Thread : DropAggregate(t)
                <5>1. runs'[r] = runs[r]
                    BY <1>a, <3>2, <4>3 DEF DropAggregate
                <5> QED BY <2>5, <3>2, <5>1
            <4>4. CASE IngCrash
                <5>1. runs'[r] = NoAgg
                    BY <1>a, <4>4 DEF IngCrash
                <5> QED BY <2>5, <5>1
            <4>5. CASE UNCHANGED runs
                BY <2>5, <3>2, <4>5
            <4> QED BY <1>4, <4>1, <4>2, <4>3, <4>4, <4>5 DEF MainStep, SweepStep,
                   FinalizeStep, ReadBatches, AbsorbLate, Live, SweepNext, ComputeScore,
                   WriteResult, WriteDone, CompareBest, AddToBoard, SetBest, ReadRows,
                   Publish, Persist, Thread
        <3> QED BY <3>1, <3>2
    <2> QED BY <1>4, <2>1, <2>4, <2>5 DEF Downstream
<1>5. CASE UNCHANGED vars
    BY <1>5, <1>c DEF vars, busVars, ingVars, memoryVars
<1> QED BY <1>1, <1>2, <1>3, <1>4, <1>5, ComponentSteps

-----------------------------------------------------------------------------
(* The runs that have reached the load phase or the end. *)
Loaded == {r \in Runs : Phase(run[r].status) >= 4}

(* What the status of a run may be while handle() stands at `at`.  From    *)
(* the fan-out on the verdict may have come already.                       *)
StatusAt(at) ==
    CASE at = "claimed"                        -> {"queued"}
      [] at \in {"build", "start", "health"}   -> {"building"}
      [] at \in {"probe", "load"}              -> {"conformance"}
      [] at \in {"fanout", "wait", "expired"}  -> {"load", "done", "failed"}
      [] OTHER                                 -> Status

(* A run waits in its request, in one entry of runs.jobs, or in one call   *)
(* of handle(), and its status says how far it got.                        *)
RequestsStand ==
    \A r \in Runs : /\ request[r] = "none" => run[r].status = "none"
                    /\ request[r] = "stored" => run[r].status = "queued"

JobsStand ==
    /\ \A i \in 1 .. Len(runsJobs) : /\ request[runsJobs[i]] = "accepted"
                                     /\ run[runsJobs[i]].status = "queued"
    /\ \A i, j \in 1 .. Len(runsJobs) : i # j => runsJobs[i] # runsJobs[j]

HandlersStand ==
    \A o \in Orchestrators : orch[o].at # "idle" =>
       /\ request[orch[o].run] = "accepted"
       /\ run[orch[o].run].status \in StatusAt(orch[o].at)
       /\ \A i \in 1 .. Len(runsJobs) : runsJobs[i] # orch[o].run
       /\ \A p \in Orchestrators : p # o => orch[p].run # orch[o].run

OneToken == RequestsStand /\ JobsStand /\ HandlersStand

(* Nothing of a run is downstream before "load" is written.  This and      *)
(* OneToken are inductive together.                                        *)
RunLife == OneToken /\ Downstream \subseteq Loaded

LEMMA StatusWritten ==
    ASSUME BusTypeOK, NEW r \in Runs, NEW s, SetStatus(r, s)
    PROVE  run'[r].status = s /\ \A q \in Runs : q # r => run'[q] = run[q]
BY DEF BusTypeOK, RunHash, SetStatus

(* A step of handle() in replica o, which may return. *)
LEMMA HandlerMoves ==
    ASSUME TypeOK, OneToken, NEW o \in Orchestrators, orch[o].at # "idle",
           UNCHANGED <<request, runsJobs>>,
           \A p \in Orchestrators : p # o => orch'[p] = orch[p],
           \/ orch'[o] = Idle
           \/ /\ orch'[o].run = orch[o].run
              /\ run'[orch[o].run].status \in StatusAt(orch'[o].at),
           \A q \in Runs : q # orch[o].run => run'[q].status = run[q].status
    PROVE  OneToken'
<1> DEFINE r == orch[o].run
<1>a. /\ r \in Runs /\ runsJobs \in Seq(Runs)
      /\ \A p \in Orchestrators : orch[p].at # "idle" => orch[p].run \in Runs
    BY DEF TypeOK, OrchTypeOK, BusTypeOK, OrchCall, Idle
<1>b. /\ request[r] = "accepted"
      /\ \A i \in 1 .. Len(runsJobs) : runsJobs[i] # r
      /\ \A p \in Orchestrators : p # o => orch[p].run # r
    BY DEF OneToken, HandlersStand
<1>c. Idle.at = "idle" /\ Idle.run \notin Runs
    BY BusAssumption DEF Idle
<1>1. RequestsStand'
    BY <1>b DEF OneToken, RequestsStand
<1>2. JobsStand'
    BY <1>a, <1>b DEF OneToken, JobsStand
<1>3. HandlersStand'
    <2> SUFFICES ASSUME NEW p \in Orchestrators, orch'[p].at # "idle"
                 PROVE  /\ request[orch'[p].run] = "accepted"
                        /\ run'[orch'[p].run].status \in StatusAt(orch'[p].at)
                        /\ \A i \in 1 .. Len(runsJobs) : runsJobs[i] # orch'[p].run
                        /\ \A q \in Orchestrators : q # p => orch'[q].run # orch'[p].run
        BY DEF HandlersStand, StatusAt
    <2>1. CASE p = o
        BY <1>b, <1>c, <2>1
    <2>2. CASE p # o
        <3>1. orch'[p] = orch[p] /\ orch[p].run \in Runs /\ orch[p].run # r
            BY <1>a, <1>b, <2>2
        <3>2. /\ request[orch[p].run] = "accepted"
              /\ run[orch[p].run].status \in StatusAt(orch[p].at)
              /\ \A i \in 1 .. Len(runsJobs) : runsJobs[i] # orch[p].run
              /\ \A q \in Orchestrators : q # p => orch[q].run # orch[p].run
            BY <3>1 DEF OneToken, HandlersStand
        <3>3. \A q \in Orchestrators : q # p => orch'[q].run # orch[p].run
            BY <1>c, <3>1, <3>2
        <3> QED BY <3>1, <3>2, <3>3
    <2> QED BY <2>1, <2>2
<1> QED BY <1>1, <1>2, <1>3 DEF OneToken

LEMMA GatewayLife ==
    ASSUME TypeOK, OneToken, NEW x \in Runs,
           StoreRun(x) \/ EnqueueRun(x) \/ EnqueueFails(x), UNCHANGED orch
    PROVE  /\ OneToken'
           /\ \A r \in Runs : Phase(run[r].status) <= Phase(run'[r].status)
<1>a. /\ run \in [Runs -> RunHash] /\ runsJobs \in Seq(Runs) /\ Len(runsJobs) \in Nat
      /\ request \in [Runs -> {"none", "stored", "accepted", "refused"}]
      /\ \A o \in Orchestrators : orch[o].at # "idle" => orch[o].run \in Runs
    BY DEF TypeOK, GatewayTypeOK, OrchTypeOK, BusTypeOK, OrchCall, Idle
<1>b. \A i \in 1 .. Len(runsJobs) : runsJobs[i] \in Runs /\ runsJobs[i] # x
    <2>1. request[x] # "accepted"
        BY DEF StoreRun, EnqueueRun, EnqueueFails
    <2> QED BY <1>a, <2>1 DEF OneToken, JobsStand
<1>c. \A o \in Orchestrators : orch[o].at # "idle" => orch[o].run # x
    <2>1. request[x] # "accepted"
        BY DEF StoreRun, EnqueueRun, EnqueueFails
    <2> QED BY <2>1 DEF OneToken, HandlersStand
<1>d. \A q \in Runs : q # x => run'[q] = run[q] /\ request'[q] = request[q]
    BY <1>a DEF StoreRun, EnqueueRun, EnqueueFails, SetStatus
<1>e. HandlersStand' <=>
          \A o \in Orchestrators : orch[o].at # "idle" =>
             /\ request'[orch[o].run] = "accepted"
             /\ run'[orch[o].run].status \in StatusAt(orch[o].at)
             /\ \A i \in 1 .. Len(runsJobs') : runsJobs'[i] # orch[o].run
             /\ \A p \in Orchestrators : p # o => orch[p].run # orch[o].run
    BY DEF HandlersStand, StatusAt
<1>1. CASE StoreRun(x)
    <2>1. /\ request[x] = "none" /\ request'[x] = "stored" /\ runsJobs' = runsJobs
          /\ run[x].status = "none" /\ run'[x].status = "queued"
        BY <1>1, <1>a, StatusWritten DEF StoreRun, OneToken, RequestsStand, TypeOK
    <2>2. RequestsStand'
        BY <1>d, <2>1 DEF OneToken, RequestsStand
    <2>3. JobsStand'
        BY <1>b, <1>d, <2>1 DEF OneToken, JobsStand
    <2>4. HandlersStand'
        BY <1>a, <1>c, <1>d, <1>e, <2>1 DEF OneToken, HandlersStand
    <2>5. \A r \in Runs : Phase(run[r].status) <= Phase(run'[r].status)
        <3> TAKE r \in Runs
        <3>1. CASE r = x
            BY <2>1, <3>1 DEF Phase
        <3>2. CASE r # x
            BY <1>d, <3>2 DEF Phase
        <3> QED BY <3>1, <3>2
    <2> QED BY <2>2, <2>3, <2>4, <2>5 DEF OneToken
<1>f. ASSUME UNCHANGED run
      PROVE  \A r \in Runs : Phase(run[r].status) <= Phase(run'[r].status)
    BY <1>f DEF Phase
<1>2. CASE EnqueueRun(x)
    <2>1. /\ run' = run /\ request'[x] = "accepted" /\ run[x].status = "queued"
          /\ runsJobs' = Append(runsJobs, x)
        BY <1>2, <1>a DEF EnqueueRun, OneToken, RequestsStand
    <2>2. RequestsStand'
        BY <1>d, <2>1 DEF OneToken, RequestsStand
    <2>3. /\ Len(runsJobs') = Len(runsJobs) + 1
          /\ \A i \in 1 .. Len(runsJobs) : runsJobs'[i] = runsJobs[i]
          /\ runsJobs'[Len(runsJobs) + 1] = x
        BY <1>a, <2>1, AppendElements
    <2>4. \A i \in 1 .. Len(runsJobs') : \/ i = Len(runsJobs) + 1 /\ runsJobs'[i] = x
                                         \/ /\ i \in 1 .. Len(runsJobs)
                                            /\ runsJobs'[i] = runsJobs[i]
        BY <1>a, <2>3
    <2>5. JobsStand'
        <3>1. \A i \in 1 .. Len(runsJobs') : /\ request'[runsJobs'[i]] = "accepted"
                                             /\ run'[runsJobs'[i]].status = "queued"
            BY <1>b, <1>d, <2>1, <2>4 DEF OneToken, JobsStand
        <3>2. \A i, j \in 1 .. Len(runsJobs') : i # j => runsJobs'[i] # runsJobs'[j]
            BY <1>b, <2>4 DEF OneToken, JobsStand
        <3> QED BY <3>1, <3>2 DEF JobsStand
    <2>6. HandlersStand'
        BY <1>a, <1>c, <1>d, <1>e, <2>1, <2>4 DEF OneToken, HandlersStand
    <2> QED BY <1>f, <2>1, <2>2, <2>5, <2>6 DEF OneToken
<1>3. CASE EnqueueFails(x)
    <2>1. run' = run /\ request'[x] = "refused" /\ runsJobs' = runsJobs
        BY <1>3, <1>a DEF EnqueueFails
    <2>2. RequestsStand'
        BY <1>d, <2>1 DEF OneToken, RequestsStand
    <2>3. JobsStand'
        BY <1>b, <1>d, <2>1 DEF OneToken, JobsStand
    <2>4. HandlersStand'
        BY <1>a, <1>c, <1>d, <1>e, <2>1 DEF OneToken, HandlersStand
    <2> QED BY <1>f, <2>1, <2>2, <2>3, <2>4 DEF OneToken
<1> QED BY <1>1, <1>2, <1>3

LEMMA OrchLife ==
    ASSUME TypeOK, OneToken, NEW o \in Orchestrators,
           OrchStep(o) \/ PollExpires(o) \/ OrchCrash(o), UNCHANGED request
    PROVE  /\ OneToken'
           /\ \A r \in Runs : Phase(run[r].status) <= Phase(run'[r].status)
<1> DEFINE r == orch[o].run
           from == run[r].status
<1>a. /\ run \in [Runs -> RunHash] /\ runsJobs \in Seq(Runs) /\ BusTypeOK
      /\ orch \in [Orchestrators -> {Idle} \cup OrchCall]
      /\ Idle.at = "idle" /\ Idle.run \notin Runs
    BY BusAssumption DEF TypeOK, OrchTypeOK, BusTypeOK, Idle
<1>b. \A p \in Orchestrators : orch[p].at # "idle" => orch[p] \in OrchCall /\ orch[p].run \in Runs
    BY <1>a DEF OrchCall
<1>c. orch[o].at # "idle" => from \in StatusAt(orch[o].at) /\ from \in Status
    BY <1>a, <1>b DEF OneToken, HandlersStand, RunHash
<1>d. ASSUME NEW at, GoTo(o, at), orch[o].at # "idle"
      PROVE  /\ orch'[o].run = r /\ orch'[o].at = at
             /\ \A p \in Orchestrators : p # o => orch'[p] = orch[p]
    BY <1>a, <1>b, <1>d DEF GoTo, OrchCall
<1>e. ASSUME orch' = [orch EXCEPT ![o] = Idle]
      PROVE  orch'[o] = Idle /\ \A p \in Orchestrators : p # o => orch'[p] = orch[p]
    BY <1>a, <1>e
<1>f. ASSUME NextShard(o)
      PROVE  /\ orch'[o].run = r /\ orch'[o].at \in {"fanout", "wait"}
             /\ \A p \in Orchestrators : p # o => orch'[p] = orch[p]
    BY <1>a, <1>f DEF NextShard
<1>g. ASSUME UNCHANGED run
      PROVE  \A q \in Runs : Phase(run[q].status) <= Phase(run'[q].status)
    BY <1>g DEF Phase
<1>h. ASSUME NEW s, SetStatus(r, s), orch[o].at # "idle", Phase(from) <= Phase(s)
      PROVE  /\ run'[r].status = s
             /\ \A q \in Runs : q # r => run'[q].status = run[q].status
             /\ \A q \in Runs : Phase(run[q].status) <= Phase(run'[q].status)
    <2>1. run'[r].status = s /\ \A q \in Runs : q # r => run'[q] = run[q]
        BY <1>a, <1>b, <1>h, StatusWritten
    <2>2. \A q \in Runs : Phase(run[q].status) \in Nat
        BY DEF Phase
    <2> QED BY <1>h, <2>1, <2>2
<1>1. CASE ClaimRun(o)
    <2> DEFINE x == Head(runsJobs)
    <2>1. /\ orch'[o] = [at |-> "claimed", run |-> x, shard |-> 0]
          /\ \A p \in Orchestrators : p # o => orch'[p] = orch[p]
          /\ run' = run /\ runsJobs # <<>> /\ runsJobs' = Tail(runsJobs)
        BY <1>1, <1>a DEF ClaimRun
    <2>2. /\ x = runsJobs[1] /\ 1 \in 1 .. Len(runsJobs)
          /\ \A i \in 1 .. Len(runsJobs') : /\ i + 1 \in 1 .. Len(runsJobs) /\ i + 1 # 1
                                            /\ runsJobs'[i] = runsJobs[i + 1]
        BY <1>a, <2>1, TailElements
    <2> HIDE DEF x
    <2>3. /\ request[x] = "accepted" /\ run[x].status = "queued"
          /\ \A i \in 1 .. Len(runsJobs') : runsJobs'[i] # x
          /\ \A p \in Orchestrators : orch[p].at # "idle" => orch[p].run # x
        BY <2>2 DEF OneToken, JobsStand, HandlersStand
    <2>4. x \in Runs /\ \A p \in Orchestrators : orch[p].at = "idle" => orch[p].run \notin Runs
        BY <1>a, <2>2 DEF OrchCall
    <2>5. RequestsStand'
        BY <2>1 DEF OneToken, RequestsStand
    <2>6. JobsStand'
        <3>1. \A i \in 1 .. Len(runsJobs') : /\ request'[runsJobs'[i]] = "accepted"
                                             /\ run'[runsJobs'[i]].status = "queued"
            BY <2>1, <2>2 DEF OneToken, JobsStand
        <3>2. \A i, j \in 1 .. Len(runsJobs') : i # j => i + 1 # j + 1
            OBVIOUS
        <3>3. \A i, j \in 1 .. Len(runsJobs') : i # j => runsJobs'[i] # runsJobs'[j]
            BY <2>2, <3>2 DEF OneToken, JobsStand
        <3> QED BY <3>1, <3>3 DEF JobsStand
    <2>7. HandlersStand'
        <3> SUFFICES ASSUME NEW p \in Orchestrators, orch'[p].at # "idle"
                     PROVE  /\ request[orch'[p].run] = "accepted"
                            /\ run[orch'[p].run].status \in StatusAt(orch'[p].at)
                            /\ \A i \in 1 .. Len(runsJobs') : runsJobs'[i] # orch'[p].run
                            /\ \A q \in Orchestrators : q # p => orch'[q].run # orch'[p].run
            BY <2>1 DEF HandlersStand, StatusAt
        <3>1. CASE p = o
            <4>1. orch'[p].run = x /\ orch'[p].at = "claimed"
                BY <2>1, <3>1
            <4>2. \A q \in Orchestrators : q # p => orch[q].run # x
                BY <2>3, <2>4
            <4> QED BY <2>1, <2>3, <3>1, <4>1, <4>2 DEF StatusAt
        <3>2. CASE p # o
            <4>1. orch'[p] = orch[p] /\ orch[p].run # x
                BY <2>1, <2>3, <3>2
            <4>2. /\ request[orch[p].run] = "accepted"
                  /\ run[orch[p].run].status \in StatusAt(orch[p].at)
                  /\ \A i \in 1 .. Len(runsJobs) : runsJobs[i] # orch[p].run
                  /\ \A q \in Orchestrators : q # p => orch[q].run # orch[p].run
                BY <4>1 DEF OneToken, HandlersStand
            <4> QED BY <2>1, <2>2, <4>1, <4>2
        <3> QED BY <3>1, <3>2
    <2> QED BY <1>g, <2>1, <2>5, <2>6, <2>7 DEF OneToken
<1>2. CASE StartBuild(o)
    <2>1. orch[o].at = "claimed" /\ from = "queued"
        BY <1>2, <1>c DEF StartBuild, StatusAt
    <2>2. Phase(from) <= Phase("building") /\ "building" \in StatusAt("build")
        BY <2>1 DEF Phase, StatusAt
    <2> QED BY <1>2, <1>d, <1>h, <2>1, <2>2, HandlerMoves DEF StartBuild
<1>k. ASSUME SetStatus(r, "failed"), orch[o].at # "idle"
      PROVE  /\ run'[r].status = "failed"
             /\ \A q \in Runs : q # r => run'[q].status = run[q].status
             /\ \A q \in Runs : Phase(run[q].status) <= Phase(run'[q].status)
    <2>1. Phase(from) <= Phase("failed")
        BY DEF Phase
    <2> QED BY <1>h, <1>k, <2>1
<1>l. "failed" \in StatusAt("teardown")
    BY DEF StatusAt, Status
<1>3. CASE BuildFails(o)
    BY <1>3, <1>e, <1>k, HandlerMoves DEF BuildFails
<1>4. CASE BuildSucceeds(o)
    <2>1. orch[o].at = "build" /\ from \in StatusAt("start")
        BY <1>4, <1>c DEF BuildSucceeds, StatusAt
    <2> QED BY <1>4, <1>d, <1>g, <2>1, HandlerMoves DEF BuildSucceeds, busVars
<1>5. CASE SandboxFails(o)
    BY <1>5, <1>d, <1>k, <1>l, HandlerMoves DEF SandboxFails
<1>6. CASE SandboxStarts(o)
    <2>1. orch[o].at = "start" /\ from \in StatusAt("health")
        BY <1>6, <1>c DEF SandboxStarts, StatusAt
    <2> QED BY <1>6, <1>d, <1>g, <2>1, HandlerMoves DEF SandboxStarts, busVars
<1>7. CASE NeverHealthy(o)
    BY <1>7, <1>d, <1>k, <1>l, HandlerMoves DEF NeverHealthy
<1>8. CASE Healthy(o)
    <2>1. orch[o].at = "health" /\ from = "building"
        BY <1>8, <1>c DEF Healthy, StatusAt
    <2>2. Phase(from) <= Phase("conformance") /\ "conformance" \in StatusAt("probe")
        BY <2>1 DEF Phase, StatusAt
    <2> QED BY <1>8, <1>d, <1>h, <2>1, <2>2, HandlerMoves DEF Healthy
<1>9. CASE Probe(o)
    <2>1. orch[o].at = "probe" /\ from \in StatusAt("load")
        BY <1>9, <1>c DEF Probe, StatusAt
    <2>2. \A q \in Runs : run'[q].status = run[q].status
        BY <1>9, <1>a DEF Probe, RunHash
    <2>3. \A q \in Runs : Phase(run[q].status) <= Phase(run'[q].status)
        BY <2>2 DEF Phase
    <2> QED BY <1>9, <1>b, <1>d, <2>1, <2>2, <2>3, HandlerMoves DEF Probe
<1>10. CASE StartLoad(o)
    <2>1. orch[o].at = "load" /\ from = "conformance"
        BY <1>10, <1>c DEF StartLoad, StatusAt
    <2>2. Phase(from) <= Phase("load") /\ "load" \in StatusAt("fanout")
        BY <2>1 DEF Phase, StatusAt
    <2> QED BY <1>10, <1>d, <1>h, <2>1, <2>2, HandlerMoves DEF StartLoad
<1>11. CASE Dispatch(o) \/ DispatchLost(o)
    <2>1. orch[o].at = "fanout" /\ from \in StatusAt("fanout") /\ from \in StatusAt("wait")
        BY <1>11, <1>c DEF Dispatch, DispatchLost, StatusAt
    <2> QED BY <1>11, <1>f, <1>g, <2>1, HandlerMoves DEF Dispatch, DispatchLost
<1>12. CASE SeeVerdict(o)
    <2>1. orch[o].at = "wait" /\ from \in StatusAt("teardown")
        BY <1>12, <1>c DEF SeeVerdict, StatusAt
    <2> QED BY <1>12, <1>d, <1>g, <2>1, HandlerMoves DEF SeeVerdict, busVars
<1>13. CASE PollExpires(o)
    <2>1. orch[o].at = "wait" /\ from \in StatusAt("expired")
        BY <1>13, <1>c DEF PollExpires, StatusAt
    <2> QED BY <1>13, <1>d, <1>g, <2>1, HandlerMoves DEF PollExpires, busVars
<1>14. CASE GiveUp(o)
    BY <1>14, <1>d, <1>k, <1>l, HandlerMoves DEF GiveUp
<1>15. CASE Teardown(o)
    BY <1>15, <1>e, <1>g, HandlerMoves DEF Teardown, busVars
<1>16. CASE OrchCrash(o)
    <2>1. orch[o].at # "idle"
        BY <1>16, <1>a DEF OrchCrash, OrchCall
    <2> QED BY <1>16, <1>e, <1>g, <2>1, HandlerMoves DEF OrchCrash
<1> QED BY <1>1, <1>2, <1>3, <1>4, <1>5, <1>6, <1>7, <1>8, <1>9, <1>10, <1>11, <1>12,
           <1>13, <1>14, <1>15, <1>16 DEF OrchStep

(* The one status the ingester writes, and only for a run whose aggregate  *)
(* exists.                                                                 *)
LEMMA IngLife ==
    ASSUME TypeOK, OneOwnerPerVerdict, RunLife,
           \/ MainStep \/ SweepStep \/ IngCrash
           \/ \E S \in SUBSET Runs : Sweep(S),
           UNCHANGED <<request, orch>>
    PROVE  /\ OneToken'
           /\ \A r \in Runs : Phase(run[r].status) <= Phase(run'[r].status)
<1>a. BusTypeOK /\ run \in [Runs -> RunHash]
    BY DEF TypeOK, BusTypeOK
<1>b. runsJobs' = runsJobs
    BY DEF MainStep, SweepStep, FinalizeStep, ReadBatches, AbsorbLate, Absorb, Live,
       Sweep, SweepNext, ComputeScore, WriteResult, WriteDone, CompareBest, AddToBoard,
       SetBest, ReadRows, Publish, Persist, DropAggregate, IngCrash, busVars
<1>1. ASSUME NEW t \in Thread, WriteDone(t)
      PROVE  /\ OneToken'
             /\ \A r \in Runs : Phase(run[r].status) <= Phase(run'[r].status)
    <2> DEFINE x == thread[t].run
    <2>1. thread[t].at = "done" /\ SetStatus(x, "done")
        BY <1>1 DEF WriteDone, Step
    <2>2. x \in Runs /\ runs[x].finalized
        BY <2>1 DEF TypeOK, IngTypeOK, ThreadCall, Looping, OneOwnerPerVerdict, Finalizing
    <2>3. x \in Loaded
        BY <2>2 DEF NoAgg, Downstream, RunLife
    <2>4. run'[x].status = "done" /\ \A q \in Runs : q # x => run'[q] = run[q]
        BY <1>a, <2>1, <2>2, StatusWritten
    <2>5. run[x].status \in {"load", "done", "failed"}
        BY <1>a, <2>2, <2>3 DEF Loaded, Phase, RunHash, Status
    <2>6. \A r \in Runs : Phase(run[r].status) <= Phase(run'[r].status)
        <3> TAKE r \in Runs
        <3>1. CASE r = x
            BY <2>4, <3>1 DEF Phase
        <3>2. CASE r # x
            BY <2>4, <3>2 DEF Phase
        <3> QED BY <3>1, <3>2
    <2> HIDE DEF x
    <2>7. RequestsStand'
        BY <2>2, <2>4, <2>5 DEF RunLife, OneToken, RequestsStand
    <2>8. JobsStand'
        <3>1. \A i \in 1 .. Len(runsJobs) : runsJobs[i] \in Runs /\ runsJobs[i] # x
            BY <1>a, <2>5 DEF BusTypeOK, RunLife, OneToken, JobsStand
        <3> QED BY <1>b, <2>4, <3>1 DEF RunLife, OneToken, JobsStand
    <2>9. HandlersStand'
        <3> SUFFICES ASSUME NEW o \in Orchestrators, orch[o].at # "idle"
                     PROVE  run'[orch[o].run].status \in StatusAt(orch[o].at)
            BY <1>b DEF RunLife, OneToken, HandlersStand, StatusAt
        <3>1. /\ orch[o].run \in Runs
              /\ run[orch[o].run].status \in StatusAt(orch[o].at)
            BY DEF RunLife, OneToken, HandlersStand, TypeOK, OrchTypeOK, Idle, OrchCall
        <3>2. CASE orch[o].run = x
            BY <2>4, <2>5, <3>1, <3>2 DEF StatusAt, Status
        <3>3. CASE orch[o].run # x
            BY <2>4, <3>1, <3>3
        <3> QED BY <3>2, <3>3
    <2> QED BY <2>6, <2>7, <2>8, <2>9 DEF OneToken
<1>2. CASE UNCHANGED run
    <2>1. \A r \in Runs : Phase(run[r].status) <= Phase(run'[r].status)
        BY <1>2 DEF Phase
    <2>2. OneToken'
        BY <1>2, <1>b DEF RunLife, OneToken, RequestsStand, JobsStand, HandlersStand, StatusAt
    <2> QED BY <2>1, <2>2
<1> QED BY <1>1, <1>2 DEF MainStep, SweepStep, FinalizeStep, ReadBatches, AbsorbLate, Absorb,
       Live, Sweep, SweepNext, ComputeScore, WriteResult, CompareBest, AddToBoard, SetBest,
       ReadRows, Publish, Persist, DropAggregate, IngCrash, busVars, Thread

LEMMA LifeStep ==
    ASSUME TypeOK, OneOwnerPerVerdict, RunLife, [Next]_vars
    PROVE  /\ RunLife'
           /\ \A r \in Runs : Phase(run[r].status) <= Phase(run'[r].status)
<1>1. /\ OneToken'
      /\ \A r \in Runs : Phase(run[r].status) <= Phase(run'[r].status)
    <2>1. CASE /\ \E r \in Runs : StoreRun(r) \/ EnqueueRun(r) \/ EnqueueFails(r)
               /\ UNCHANGED <<orchVars, fleet, ingVars>>
        BY <2>1, GatewayLife DEF orchVars, RunLife
    <2>2. CASE /\ \E o \in Orchestrators : OrchStep(o) \/ PollExpires(o) \/ OrchCrash(o)
               /\ UNCHANGED <<request, fleet, ingVars>>
        BY <2>2, OrchLife DEF RunLife
    <2>3. CASE /\ \/ MainStep \/ SweepStep \/ IngCrash
                  \/ \E S \in SUBSET Runs : Sweep(S)
               /\ UNCHANGED <<request, orchVars, fleet>>
        BY <2>3, IngLife DEF orchVars
    <2>4. CASE UNCHANGED <<run, request, runsJobs, orch>>
        <3>1. \A r \in Runs : Phase(run[r].status) <= Phase(run'[r].status)
            BY <2>4 DEF Phase
        <3>2. OneToken'
            BY <2>4 DEF RunLife, OneToken, RequestsStand, JobsStand, HandlersStand, StatusAt
        <3> QED BY <3>1, <3>2
    <2>5. CASE /\ \E f \in Replicas : FleetStep(f) \/ FleetCrash(f)
               /\ UNCHANGED <<request, orchVars, ingVars>>
        BY <2>4, <2>5 DEF orchVars, FleetStep, ClaimShard, FlushDelta, FlushFinal, FleetCrash
    <2>6. CASE UNCHANGED vars
        BY <2>4, <2>6 DEF vars, busVars, orchVars
    <2> QED BY <2>1, <2>2, <2>3, <2>5, <2>6, ComponentSteps
<1>2. Loaded \subseteq Loaded'
    <2>1. \A r \in Runs : Phase(run[r].status) \in Nat /\ Phase(run'[r].status) \in Nat
        BY DEF Phase
    <2>2. Loaded' = {r \in Runs : Phase(run'[r].status) >= 4}
        BY DEF Loaded, Phase
    <2> QED BY <1>1, <2>1, <2>2 DEF Loaded
<1>3. ASSUME NEW r, FanningOut(r)
      PROVE  r \in Loaded
    <2>1. PICK o \in Orchestrators : orch[o].run = r /\ orch[o].at = "fanout"
        BY <1>3 DEF FanningOut
    <2>2. r \in Runs /\ run[r].status \in {"load", "done", "failed"}
        BY <2>1 DEF RunLife, OneToken, HandlersStand, StatusAt, TypeOK, OrchTypeOK, OrchCall, Idle
    <2> QED BY <2>2 DEF Loaded, Phase
<1>4. Downstream' \subseteq Loaded'
    BY <1>2, <1>3, OnlyDispatchAdds DEF RunLife
<1> QED BY <1>1, <1>4 DEF RunLife

(* At every moment a run is in one place upstream of the fan-out, in its   *)
(* request, in runs.jobs or in one replica's handle(), with the status of  *)
(* that place, and nothing of it is downstream before it says "load".      *)
THEOREM RunsHaveOneLife == Spec => []RunLife
<1>1. Init => RunLife
    BY BusAssumption DEF Init, BusInit, GatewayInit, OrchInit, FleetInit, IngInit, RunLife,
       OneToken, RequestsStand, JobsStand, HandlersStand, Downstream, Pipe, Idle, NoShard
<1>2. TypeOK /\ OneOwnerPerVerdict /\ RunLife /\ [Next]_vars => RunLife'
    BY LifeStep
<1> QED BY <1>1, <1>2, ArenaTypes, VerdictsHaveOneOwner, PTL DEF Spec

(* Three services write the status of a run without looking at it, and     *)
(* still no write, late, after a crash or by the other service, ever takes *)
(* a run back to an earlier phase.                                         *)
THEOREM RunsNeverGoBack == Spec => NeverGoesBack
<1>1. TypeOK /\ OneOwnerPerVerdict /\ RunLife /\ [Next]_vars =>
          [\A r \in Runs : Phase(run[r].status) <= Phase(run'[r].status)]_vars
    BY LifeStep
<1> QED BY <1>1, ArenaTypes, VerdictsHaveOneOwner, RunsHaveOneLife, PTL DEF Spec, NeverGoesBack

-----------------------------------------------------------------------------
(***************************************************************************)
(* Part 3.                                                                 *)
(*                                                                         *)
(* A verdict on the count of final batches comes last of all: a proof of   *)
(* Arena's CountedVerdictIsWhole for any number of runs, shards, replicas, *)
(* orchestrators, flushes and faults.                                      *)
(*                                                                         *)
(* absorb() counts the shards whose final batch it has seen and never      *)
(* looks at the rest of the system.  The count is right because a shard is *)
(* always in one place, and its final batch is the last thing of it that   *)
(* ever leaves that place.                                                 *)
(***************************************************************************)

-----------------------------------------------------------------------------
(* Shard s of run r is still to be dispatched; it is in load.jobs or in a  *)
(* replica; either.                                                        *)
ToCome(r, s) ==
    \E o \in Orchestrators : orch[o].at = "fanout" /\ orch[o].run = r /\ orch[o].shard <= s

Dispatched(r, s) ==
    \/ \E i \in 1 .. Len(loadJobs) : loadJobs[i].run = r /\ loadJobs[i].shard = s
    \/ \E f \in Replicas : fleet[f].run = r /\ fleet[f].shard = s

Unfinished(r, s) == ToCome(r, s) \/ Dispatched(r, s)

(* A batch is of shard s of run r. *)
IsOf(b, r, s) == b.run = r /\ b.shard = s

SameShard(x, y) == x.run = y.run /\ x.shard = y.shard

(* An unfinished shard is in one place. *)
OnePlace ==
    /\ \A i, j \in 1 .. Len(loadJobs) : i # j => ~SameShard(loadJobs[i], loadJobs[j])
    /\ \A i \in 1 .. Len(loadJobs), f \in Replicas : ~SameShard(loadJobs[i], fleet[f])
    /\ \A f, g \in Replicas : f # g /\ fleet[f] # NoShard => ~SameShard(fleet[f], fleet[g])
    /\ \A r \in Runs, s \in Shards : ~(ToCome(r, s) /\ Dispatched(r, s))

(* Nothing of a shard follows its final batch, on the way or absorbed. *)
FinalIsLast ==
    \A r \in Runs, s \in Shards :
       /\ \A i \in 1 .. Len(Pipe) : IsOf(Pipe[i], r, s) /\ Pipe[i].final =>
             /\ ~Unfinished(r, s)
             /\ \A j \in 1 .. Len(Pipe) : j > i => ~IsOf(Pipe[j], r, s)
       /\ s \in runs[r].finalShards =>
             /\ ~Unfinished(r, s)
             /\ \A i \in 1 .. Len(Pipe) : ~IsOf(Pipe[i], r, s)

(* What the main goroutine finalizes has the final batch of every shard. *)
AllFinal ==
    thread["main"].at \in Finalizing => runs[thread["main"].run].finalShards = Shards

(* The inductive invariant behind CountedVerdictIsWhole. *)
ShardsInOrder == OnePlace /\ FinalIsLast /\ AllFinal

-----------------------------------------------------------------------------
(* What a step of handle() does to the shards to come: StartLoad makes all *)
(* shards of a run unfinished of which nothing was downstream; a turn of   *)
(* the loop moves or drops one; no other step touches a shard.             *)
LEMMA OrchShards ==
    ASSUME TypeOK, RunLife, OnePlace, NEW o \in Orchestrators,
           OrchStep(o) \/ PollExpires(o) \/ OrchCrash(o), UNCHANGED fleet
    PROVE  /\ OnePlace'
           /\ \A r \in Runs, s \in Shards :
                 Unfinished(r, s)' =>
                    \/ Unfinished(r, s)
                    \/ StartLoad(o) /\ r = orch[o].run /\ r \notin Downstream
<1> DEFINE r0 == orch[o].run
           s0 == orch[o].shard
<1>a. /\ orch \in [Orchestrators -> {Idle} \cup OrchCall]
      /\ loadJobs \in Seq(LoadShard) /\ Len(loadJobs) \in Nat
      /\ Idle.at = "idle" /\ Shards \subseteq Int
    BY BusAssumption DEF TypeOK, OrchTypeOK, BusTypeOK, Idle, Shards
<1>b. \A p \in Orchestrators : orch[p].at = "fanout" => orch[p].run \in Runs /\ orch[p].shard \in Shards
    BY <1>a DEF OrchCall
<1>c. ASSUME UNCHANGED loadJobs,
             \A r \in Runs, s \in Shards : ToCome(r, s)' => ToCome(r, s)
      PROVE  /\ OnePlace'
             /\ \A r \in Runs, s \in Shards : Unfinished(r, s)' => Unfinished(r, s)
    BY <1>c DEF OnePlace, Unfinished, Dispatched, SameShard
<1>d. ASSUME NEW c, orch' = [orch EXCEPT ![o] = c], c.at # "fanout", UNCHANGED loadJobs
      PROVE  /\ OnePlace'
             /\ \A r \in Runs, s \in Shards : Unfinished(r, s)' => Unfinished(r, s)
    <2>1. orch'[o] = c /\ \A p \in Orchestrators : p # o => orch'[p] = orch[p]
        BY <1>a, <1>d
    <2>2. \A r \in Runs, s \in Shards : ToCome(r, s)' => ToCome(r, s)
        BY <1>d, <2>1 DEF ToCome
    <2> QED BY <1>c, <1>d, <2>2
<1>e. ASSUME NEW at, GoTo(o, at), at # "fanout", orch[o].at # "idle", UNCHANGED loadJobs
      PROVE  /\ OnePlace'
             /\ \A r \in Runs, s \in Shards : Unfinished(r, s)' => Unfinished(r, s)
    <2>1. [orch[o] EXCEPT !.at = at].at = at
        BY <1>a, <1>e DEF OrchCall
    <2> QED BY <1>d, <1>e, <2>1 DEF GoTo
<1>f. ASSUME NextShard(o), orch[o].at = "fanout"
      PROVE  \A r \in Runs, s \in Shards :
                ToCome(r, s)' => ToCome(r, s) /\ ~(r = r0 /\ s = s0)
    <2>1. /\ orch'[o].run = r0 /\ orch'[o].shard = s0 + 1
          /\ \A p \in Orchestrators : p # o => orch'[p] = orch[p]
        BY <1>a, <1>f DEF NextShard
    <2>2. s0 \in Int /\ \A p \in Orchestrators : p # o => orch[p].run # r0
        BY <1>a, <1>b, <1>f DEF RunLife, OneToken, HandlersStand
    <2> SUFFICES ASSUME NEW r \in Runs, NEW s \in Shards, NEW p \in Orchestrators,
                        orch'[p].at = "fanout", orch'[p].run = r, orch'[p].shard <= s
                 PROVE  ToCome(r, s) /\ ~(r = r0 /\ s = s0)
        BY DEF ToCome
    <2>3. CASE p # o
        BY <2>1, <2>2, <2>3 DEF ToCome
    <2>4. CASE p = o
        <3>1. s0 + 1 <= s /\ s \in Int
            BY <1>a, <2>1, <2>4
        <3>2. s0 <= s /\ s # s0
            BY <2>2, <3>1
        <3> QED BY <1>f, <2>1, <2>4, <3>2 DEF ToCome
    <2> QED BY <2>3, <2>4
<1>1. CASE StartLoad(o)
    <2>1. orch[o].at = "load" /\ orch'[o].run = r0 /\ UNCHANGED loadJobs
          /\ \A p \in Orchestrators : p # o => orch'[p] = orch[p]
        BY <1>1, <1>a DEF StartLoad, GoTo, OrchCall
    <2>2. r0 \in Runs /\ run[r0].status = "conformance"
        BY <1>a, <2>1 DEF RunLife, OneToken, HandlersStand, StatusAt, OrchCall
    <2>3. r0 \notin Downstream
        BY <2>2 DEF RunLife, Loaded, Phase
    <2>4. \A r \in Runs, s \in Shards : ToCome(r, s)' => ToCome(r, s) \/ r = r0
        BY <2>1 DEF ToCome
    <2>5. \A s \in Shards : ~Dispatched(r0, s)
        BY <2>2, <2>3 DEF Downstream, Dispatched
    <2>6. \A r, s : Dispatched(r, s)' <=> Dispatched(r, s)
        BY <2>1 DEF Dispatched
    <2>7. OnePlace'
        BY <2>1, <2>4, <2>5, <2>6 DEF OnePlace, SameShard
    <2> QED BY <1>1, <2>2, <2>3, <2>4, <2>6, <2>7 DEF Unfinished
<1>2. CASE Dispatch(o)
    <2> DEFINE x == [run |-> r0, shard |-> s0]
    <2>1. orch[o].at = "fanout" /\ NextShard(o) /\ loadJobs' = Append(loadJobs, x)
        BY <1>2 DEF Dispatch
    <2>2. r0 \in Runs /\ s0 \in Shards /\ s0 \in Int
        BY <1>a, <1>b, <2>1
    <2>3. ToCome(r0, s0)
        BY <2>1, <2>2 DEF ToCome
    <2>4. \A r \in Runs, s \in Shards : ToCome(r, s)' => ToCome(r, s) /\ ~(r = r0 /\ s = s0)
        BY <1>f, <2>1
    <2>5. \A i \in 1 .. Len(loadJobs') : \/ i = Len(loadJobs) + 1 /\ loadJobs'[i] = x
                                         \/ /\ i \in 1 .. Len(loadJobs)
                                            /\ loadJobs'[i] = loadJobs[i]
        <3> HIDE DEF x
        <3> QED BY <1>a, <2>1, AppendElements
    <2>6. x.run = r0 /\ x.shard = s0
        OBVIOUS
    <2> HIDE DEF x
    <2>7. \A r, s : Dispatched(r, s)' => Dispatched(r, s) \/ (r = r0 /\ s = s0)
        BY <2>5, <2>6 DEF Dispatched
    <2>8. ~Dispatched(r0, s0)
        BY <2>2, <2>3 DEF OnePlace
    <2>9. /\ \A i \in 1 .. Len(loadJobs) : ~SameShard(loadJobs[i], x) /\ ~SameShard(x, loadJobs[i])
          /\ \A f \in Replicas : ~SameShard(x, fleet[f])
        BY <2>6, <2>8 DEF Dispatched, SameShard
    <2>10. \A i, j \in 1 .. Len(loadJobs') : i # j => ~SameShard(loadJobs'[i], loadJobs'[j])
        BY <2>5, <2>9 DEF OnePlace
    <2>11. \A i \in 1 .. Len(loadJobs'), f \in Replicas : ~SameShard(loadJobs'[i], fleet[f])
        BY <2>5, <2>9 DEF OnePlace
    <2>12. OnePlace'
        BY <2>4, <2>7, <2>10, <2>11 DEF OnePlace, SameShard
    <2> QED BY <2>3, <2>4, <2>7, <2>12 DEF Unfinished
<1>3. CASE DispatchLost(o)
    BY <1>3, <1>c, <1>f DEF DispatchLost
<1>4. CASE ClaimRun(o)
    <2> DEFINE c == [at |-> "claimed", run |-> Head(runsJobs), shard |-> 0]
    <2>1. orch' = [orch EXCEPT ![o] = c] /\ c.at # "fanout" /\ UNCHANGED loadJobs
        BY <1>4 DEF ClaimRun
    <2> HIDE DEF c
    <2> QED BY <1>d, <2>1
<1>5. CASE BuildFails(o) \/ Teardown(o) \/ OrchCrash(o)
    BY <1>5, <1>a, <1>d DEF BuildFails, Teardown, OrchCrash, busVars
<1>6. CASE \/ StartBuild(o) \/ BuildSucceeds(o) \/ SandboxFails(o) \/ SandboxStarts(o)
           \/ NeverHealthy(o) \/ Healthy(o) \/ Probe(o) \/ SeeVerdict(o) \/ PollExpires(o)
           \/ GiveUp(o)
    BY <1>6, <1>e DEF StartBuild, BuildSucceeds, SandboxFails, SandboxStarts, NeverHealthy,
       Healthy, Probe, SeeVerdict, PollExpires, GiveUp, busVars
<1> QED BY <1>1, <1>2, <1>3, <1>4, <1>5, <1>6 DEF OrchStep

(* A replica takes a shard from load.jobs and keeps it; when it lets go of *)
(* the shard, the shard is finished.                                       *)
LEMMA FleetShards ==
    ASSUME TypeOK, OnePlace, NEW f \in Replicas,
           FleetStep(f) \/ FleetCrash(f), UNCHANGED orch
    PROVE  /\ OnePlace'
           /\ \A r \in Runs, s \in Shards :
                 /\ Unfinished(r, s)' => Unfinished(r, s)
                 /\ fleet'[f] = NoShard /\ fleet[f].run = r /\ fleet[f].shard = s
                       => ~Unfinished(r, s)'
<1>a. /\ fleet \in [Replicas -> {NoShard} \cup [run : Runs, shard : Shards, n : 0 .. MaxFlush]]
      /\ loadJobs \in Seq(LoadShard) /\ Len(loadJobs) \in Nat
      /\ NoShard.run \notin Runs
    BY BusAssumption DEF TypeOK, FleetTypeOK, BusTypeOK, NoShard
<1>b. \A i \in 1 .. Len(loadJobs) : loadJobs[i].run \in Runs
    <2>1. \A i \in 1 .. Len(loadJobs) : loadJobs[i] \in LoadShard
        BY <1>a
    <2> QED BY <2>1 DEF LoadShard
<1>c. \A r, s : ToCome(r, s)' <=> ToCome(r, s)
    BY DEF ToCome
<1>1. CASE ClaimShard(f)
    <2>1. /\ fleet[f] = NoShard /\ loadJobs # <<>> /\ loadJobs' = Tail(loadJobs)
          /\ fleet'[f].run = Head(loadJobs).run /\ fleet'[f].shard = Head(loadJobs).shard
          /\ \A g \in Replicas : g # f => fleet'[g] = fleet[g]
        BY <1>1, <1>a DEF ClaimShard
    <2>2. /\ Head(loadJobs) = loadJobs[1] /\ 1 \in 1 .. Len(loadJobs)
          /\ \A i \in 1 .. Len(loadJobs') : /\ i + 1 \in 1 .. Len(loadJobs) /\ i + 1 # 1
                                            /\ loadJobs'[i] = loadJobs[i + 1]
        BY <1>a, <2>1, TailElements
    <2>3. fleet'[f].run \in Runs /\ fleet'[f] # NoShard
        BY <1>a, <1>b, <2>1, <2>2
    <2>4. \A r, s : Dispatched(r, s)' => Dispatched(r, s)
        BY <2>1, <2>2 DEF Dispatched
    <2>5. \A i, j \in 1 .. Len(loadJobs') : i # j => ~SameShard(loadJobs'[i], loadJobs'[j])
        <3>1. \A i, j \in 1 .. Len(loadJobs') : i # j => i + 1 # j + 1
            OBVIOUS
        <3> QED BY <2>2, <3>1 DEF OnePlace
    <2>6. \A i \in 1 .. Len(loadJobs'), g \in Replicas : ~SameShard(loadJobs'[i], fleet'[g])
        <3> SUFFICES ASSUME NEW i \in 1 .. Len(loadJobs'), NEW g \in Replicas
                     PROVE  ~SameShard(loadJobs'[i], fleet'[g])
            OBVIOUS
        <3>1. CASE g = f
            <4>1. ~SameShard(loadJobs[i + 1], loadJobs[1])
                BY <2>2 DEF OnePlace
            <4> QED BY <2>1, <2>2, <3>1, <4>1 DEF SameShard
        <3>2. CASE g # f
            BY <2>1, <2>2, <3>2 DEF OnePlace
        <3> QED BY <3>1, <3>2
    <2>7. \A g, h \in Replicas : g # h /\ fleet'[g] # NoShard => ~SameShard(fleet'[g], fleet'[h])
        <3> SUFFICES ASSUME NEW g \in Replicas, NEW h \in Replicas, g # h, fleet'[g] # NoShard
                     PROVE  ~SameShard(fleet'[g], fleet'[h])
            OBVIOUS
        <3>1. CASE g = f
            <4>1. ~SameShard(loadJobs[1], fleet[h])
                BY <2>2 DEF OnePlace
            <4> QED BY <2>1, <2>2, <3>1, <4>1 DEF SameShard
        <3>2. CASE h = f
            <4>1. ~SameShard(loadJobs[1], fleet[g])
                BY <2>2 DEF OnePlace
            <4> QED BY <2>1, <2>2, <3>2, <4>1 DEF SameShard
        <3>3. CASE g # f /\ h # f
            BY <2>1, <3>3 DEF OnePlace
        <3> QED BY <3>1, <3>2, <3>3
    <2>8. OnePlace'
        BY <1>c, <2>4, <2>5, <2>6, <2>7 DEF OnePlace, SameShard, NoShard
    <2> QED BY <1>c, <2>3, <2>4, <2>8 DEF Unfinished
<1>2. CASE FlushDelta(f)
    <2>1. /\ loadJobs' = loadJobs /\ fleet[f] # NoShard
          /\ \A g \in Replicas : fleet'[g].run = fleet[g].run /\ fleet'[g].shard = fleet[g].shard
          /\ \A g \in Replicas : g # f => fleet'[g] = fleet[g]
        BY <1>2, <1>a DEF FlushDelta
    <2>2. fleet'[f].run \in Runs /\ fleet'[f] # NoShard
        BY <1>a, <2>1
    <2>3. \A g \in Replicas : fleet'[g] # NoShard => fleet[g] # NoShard
        BY <2>1
    <2>4. \A r, s : Dispatched(r, s)' <=> Dispatched(r, s)
        BY <2>1 DEF Dispatched
    <2>5. OnePlace'
        BY <1>c, <2>1, <2>3, <2>4 DEF OnePlace, SameShard, NoShard
    <2> QED BY <1>c, <2>2, <2>4, <2>5 DEF Unfinished
<1>3. CASE FlushFinal(f) \/ FleetCrash(f)
    <2>1. /\ loadJobs' = loadJobs /\ fleet[f] # NoShard /\ fleet'[f] = NoShard
          /\ \A g \in Replicas : g # f => fleet'[g] = fleet[g]
        BY <1>3, <1>a DEF FlushFinal, FleetCrash
    <2>2. \A r \in Runs, s \in Shards : Dispatched(r, s)' => Dispatched(r, s)
        BY <1>a, <2>1 DEF Dispatched
    <2>3. \A r \in Runs, s \in Shards :
              fleet[f].run = r /\ fleet[f].shard = s => ~Dispatched(r, s)' /\ ~ToCome(r, s)
        <3> SUFFICES ASSUME NEW r \in Runs, NEW s \in Shards,
                            fleet[f].run = r, fleet[f].shard = s
                     PROVE  ~Dispatched(r, s)' /\ ~ToCome(r, s)
            OBVIOUS
        <3>1. \A i \in 1 .. Len(loadJobs) : ~(loadJobs[i].run = r /\ loadJobs[i].shard = s)
            BY DEF OnePlace, SameShard
        <3>2. \A g \in Replicas : ~(fleet'[g].run = r /\ fleet'[g].shard = s)
            BY <1>a, <2>1 DEF OnePlace, SameShard
        <3>3. ~Dispatched(r, s)'
            BY <2>1, <3>1, <3>2 DEF Dispatched
        <3>4. Dispatched(r, s)
            BY DEF Dispatched
        <3> QED BY <3>3, <3>4 DEF OnePlace
    <2>4. \A i \in 1 .. Len(loadJobs), g \in Replicas : ~SameShard(loadJobs[i], fleet'[g])
        BY <1>a, <1>b, <2>1 DEF OnePlace, SameShard
    <2>5. \A g, h \in Replicas : g # h /\ fleet'[g] # NoShard => ~SameShard(fleet'[g], fleet'[h])
        BY <1>a, <2>1 DEF OnePlace, SameShard
    <2>6. OnePlace'
        BY <1>c, <2>1, <2>2, <2>4, <2>5 DEF OnePlace, SameShard, NoShard
    <2> QED BY <1>c, <2>2, <2>3, <2>6 DEF Unfinished
<1> QED BY <1>1, <1>2, <1>3 DEF FleetStep

-----------------------------------------------------------------------------
(* Where nothing new is sent, and no finished shard becomes unfinished, a  *)
(* final batch stays the last of its shard.                                *)
LEMMA FinalStaysLast ==
    ASSUME TypeOK, FinalIsLast, UNCHANGED <<inbox, teleRaw, runs>>,
           \A r \in Runs, s \in Shards :
              Unfinished(r, s)' => Unfinished(r, s) \/ r \notin Downstream
    PROVE  FinalIsLast'
<1>1. Pipe' = Pipe
    BY DEF Pipe
<1>2. \A r \in Runs, s \in Shards :
          /\ s \in runs[r].finalShards => r \in Downstream
          /\ \A i \in 1 .. Len(Pipe) : IsOf(Pipe[i], r, s) => r \in Downstream
    BY DEF Downstream, NoAgg, IsOf
<1> QED BY <1>1, <1>2 DEF FinalIsLast, IsOf

LEMMA FleetFinals ==
    ASSUME TypeOK, OnePlace, FinalIsLast, NEW f \in Replicas,
           FleetStep(f) \/ FleetCrash(f), UNCHANGED <<orch, inbox, runs>>
    PROVE  FinalIsLast'
<1>a. /\ fleet \in [Replicas -> {NoShard} \cup [run : Runs, shard : Shards, n : 0 .. MaxFlush]]
      /\ Pipe \in Seq(TelemetryBatch) /\ Len(Pipe) \in Nat
    BY DEF TypeOK, FleetTypeOK, BusTypeOK, IngTypeOK, Pipe
<1>b. \A r \in Runs, s \in Shards :
          /\ Unfinished(r, s)' => Unfinished(r, s)
          /\ fleet'[f] = NoShard /\ fleet[f].run = r /\ fleet[f].shard = s => ~Unfinished(r, s)'
    BY FleetShards
<1>c. CASE UNCHANGED teleRaw
    BY <1>b, <1>c, FinalStaysLast
<1>d. ASSUME NEW final \in BOOLEAN, fleet[f] # NoShard, Send(f, final),
             final => fleet'[f] = NoShard
      PROVE  FinalIsLast'
    <2> DEFINE k == Len(Pipe) + 1
    <2>1. CASE Pipe' = Pipe
        BY <1>b, <2>1 DEF FinalIsLast, IsOf
    <2>2. CASE /\ Len(Pipe') = k
               /\ \A i \in 1 .. Len(Pipe) : Pipe'[i] = Pipe[i]
               /\ Pipe'[k].run = fleet[f].run /\ Pipe'[k].shard = fleet[f].shard
               /\ Pipe'[k].final = final
        <3> SUFFICES ASSUME NEW r \in Runs, NEW s \in Shards
                     PROVE  /\ \A i \in 1 .. k : IsOf(Pipe'[i], r, s) /\ Pipe'[i].final =>
                                   /\ ~Unfinished(r, s)'
                                   /\ \A j \in 1 .. k : j > i => ~IsOf(Pipe'[j], r, s)
                            /\ s \in runs[r].finalShards =>
                                   /\ ~Unfinished(r, s)'
                                   /\ \A i \in 1 .. k : ~IsOf(Pipe'[i], r, s)
            BY <2>2 DEF FinalIsLast, IsOf
        <3>1. \A i \in 1 .. Len(Pipe) : IsOf(Pipe'[i], r, s) <=> IsOf(Pipe[i], r, s)
            BY <2>2 DEF IsOf
        <3>2. IsOf(Pipe'[k], r, s) => Unfinished(r, s) /\ (final => ~Unfinished(r, s)')
            <4> SUFFICES ASSUME fleet[f].run = r, fleet[f].shard = s
                         PROVE  Unfinished(r, s) /\ (final => ~Unfinished(r, s)')
                BY <2>2 DEF IsOf
            <4>1. Unfinished(r, s)
                BY DEF Unfinished, Dispatched
            <4> QED BY <1>b, <1>d, <4>1
        <3>3. \A i \in 1 .. k : i = k \/ (i \in 1 .. Len(Pipe) /\ Pipe'[i] = Pipe[i])
            BY <1>a, <2>2
        <3>4. \A j \in 1 .. k : ~(j > k)
            BY <1>a
        <3>5. ASSUME NEW i \in 1 .. k, IsOf(Pipe'[i], r, s), Pipe'[i].final
              PROVE  /\ ~Unfinished(r, s)'
                     /\ \A j \in 1 .. k : j > i => ~IsOf(Pipe'[j], r, s)
            <4>1. CASE i = k
                BY <2>2, <3>2, <3>4, <3>5, <4>1
            <4>2. CASE i \in 1 .. Len(Pipe) /\ Pipe'[i] = Pipe[i]
                <5>1. /\ ~Unfinished(r, s)
                      /\ \A j \in 1 .. Len(Pipe) : j > i => ~IsOf(Pipe[j], r, s)
                    BY <3>1, <3>5, <4>2 DEF FinalIsLast
                <5> QED BY <1>b, <3>1, <3>2, <3>3, <5>1
            <4> QED BY <3>3, <4>1, <4>2
        <3>6. ASSUME s \in runs[r].finalShards
              PROVE  /\ ~Unfinished(r, s)'
                     /\ \A i \in 1 .. k : ~IsOf(Pipe'[i], r, s)
            BY <1>b, <3>1, <3>2, <3>3, <3>6 DEF FinalIsLast
        <3> QED BY <3>5, <3>6
    <2>3. \/ Pipe' = Pipe
          \/ /\ Len(Pipe') = Len(Pipe) + 1
             /\ \A i \in 1 .. Len(Pipe) : Pipe'[i] = Pipe[i]
             /\ Pipe'[Len(Pipe) + 1] = [run |-> fleet[f].run, shard |-> fleet[f].shard,
                                        n |-> fleet[f].n, final |-> final]
        BY <1>d, FleetSends
    <2> QED BY <2>1, <2>2, <2>3
<1>1. CASE ClaimShard(f) \/ FleetCrash(f)
    BY <1>1, <1>c DEF ClaimShard, FleetCrash
<1>2. CASE FlushDelta(f)
    BY <1>2, <1>d DEF FlushDelta
<1>3. CASE FlushFinal(f)
    <2>1. fleet'[f] = NoShard
        BY <1>3, <1>a DEF FlushFinal
    <2> QED BY <1>3, <1>d, <2>1 DEF FlushFinal
<1> QED BY <1>1, <1>2, <1>3 DEF FleetStep

LEMMA ShardCount == IsFiniteSet(Shards) /\ Cardinality(Shards) = TotalShards
<1>1. 0 \in Int /\ TotalShards - 1 \in Int /\ TotalShards \in Nat \ {0}
    BY BusAssumption
<1>2. IsFiniteSet(Shards) /\ Cardinality(Shards) = IF 0 > TotalShards - 1 THEN 0
                                                   ELSE (TotalShards - 1) - 0 + 1
    BY <1>1, FS_Interval DEF Shards
<1> QED BY <1>1, <1>2

(* A set of shards with TotalShards members has them all. *)
LEMMA AllShards ==
    ASSUME NEW S \in SUBSET Shards, Cardinality(S) >= TotalShards
    PROVE  S = Shards
<1>1. IsFiniteSet(Shards) /\ Cardinality(Shards) = TotalShards
    BY ShardCount
<1>2. /\ IsFiniteSet(S) /\ Cardinality(S) <= Cardinality(Shards)
      /\ Cardinality(S) = Cardinality(Shards) => S = Shards
    BY <1>1, FS_Subset
<1>3. Cardinality(S) \in Nat
    BY <1>2, FS_CardinalityType
<1> QED BY <1>1, <1>2, <1>3, BusAssumption

(* Whom the ingester learns to be final: absorb() of a final batch, which  *)
(* it takes from the front of the pipe, and nothing else.                  *)
LEMMA IngesterCounts ==
    ASSUME TypeOK,
           \/ MainStep \/ SweepStep \/ IngCrash
           \/ \E S \in SUBSET Runs : Sweep(S),
           NEW r \in Runs, NEW s \in runs'[r].finalShards, s \notin runs[r].finalShards
    PROVE  /\ 1 \in 1 .. Len(Pipe) /\ Pipe[1].final /\ IsOf(Pipe[1], r, s)
           /\ Len(Pipe) = Len(Pipe') + 1
<1>a. /\ inbox \in Seq(TelemetryBatch) /\ teleRaw \in Seq(TelemetryBatch)
      /\ runs \in [Runs -> Agg]
      /\ NoAgg.finalShards = {}
    BY DEF TypeOK, BusTypeOK, IngTypeOK, NoAgg
<1>1. CASE Absorb
    <2> DEFINE b   == Head(inbox)
               agg == Merge(runs[b.run], b)
    <2>1. /\ inbox # <<>> /\ inbox' = Tail(inbox) /\ teleRaw' = teleRaw
          /\ runs' = [runs EXCEPT ![b.run] = [agg EXCEPT !.finalized = Complete(agg)]]
        BY <1>1 DEF Absorb, busVars
    <2>3. Pipe[1] = b /\ 1 \in 1 .. Len(Pipe) /\ Len(Pipe) = Len(Pipe') + 1
        BY <2>1, AbsorbTakes
    <2>4. b \in TelemetryBatch
        BY <1>a, <2>1
    <2>5. b.run \in Runs /\ runs[b.run] \in Agg
        BY <1>a, <2>4 DEF TelemetryBatch
    <2>6. agg.finalShards = IF b.final THEN runs[b.run].finalShards \cup {b.shard}
                            ELSE runs[b.run].finalShards
        BY <2>5 DEF Merge, Agg
    <2>7. [agg EXCEPT !.finalized = Complete(agg)].finalShards = agg.finalShards
        BY <2>5 DEF Merge, Agg
    <2>8. r = b.run /\ s \in agg.finalShards
        <3> HIDE DEF agg, b
        <3> QED BY <1>a, <2>1, <2>5, <2>7
    <2>9. b.final /\ s = b.shard
        BY <2>6, <2>8
    <2> QED BY <2>3, <2>8, <2>9 DEF IsOf
<1>2. CASE \E S \in SUBSET Runs : Sweep(S)
    <2>1. runs'[r].finalShards = runs[r].finalShards
        BY <1>2, <1>a DEF Sweep, Agg
    <2> QED BY <2>1
<1>3. CASE \E t \in Thread : DropAggregate(t)
    <2>1. runs'[r] = runs[r] \/ runs'[r] = NoAgg
        BY <1>3, <1>a DEF DropAggregate
    <2> QED BY <1>a, <2>1
<1>4. CASE IngCrash
    <2>1. runs'[r] = NoAgg
        BY <1>4 DEF IngCrash
    <2> QED BY <1>a, <2>1
<1>5. CASE UNCHANGED runs
    BY <1>5
<1> QED BY <1>1, <1>2, <1>3, <1>4, <1>5 DEF MainStep, SweepStep, FinalizeStep, ReadBatches,
       AbsorbLate, Live, SweepNext, ComputeScore, WriteResult, WriteDone, CompareBest,
       AddToBoard, SetBest, ReadRows, Publish, Persist, Thread

LEMMA IngFinals ==
    ASSUME TypeOK, FinalIsLast,
           \/ MainStep \/ SweepStep \/ IngCrash
           \/ \E S \in SUBSET Runs : Sweep(S),
           UNCHANGED <<orch, fleet>>
    PROVE  FinalIsLast'
<1>a. Len(Pipe) \in Nat
    BY DEF TypeOK, BusTypeOK, IngTypeOK, Pipe
<1>b. loadJobs' = loadJobs
    BY DEF MainStep, SweepStep, FinalizeStep, ReadBatches, AbsorbLate, Absorb, Live,
       Sweep, SweepNext, ComputeScore, WriteResult, WriteDone, CompareBest, AddToBoard,
       SetBest, ReadRows, Publish, Persist, DropAggregate, IngCrash, busVars
<1>1. \A r, s : Unfinished(r, s)' <=> Unfinished(r, s)
    BY <1>b DEF Unfinished, ToCome, Dispatched
<1>2. PICK d \in Nat : /\ Len(Pipe) = Len(Pipe') + d
                       /\ \A i \in 1 .. Len(Pipe') : Pipe'[i] = Pipe[i + d]
    BY IngesterTakes
<1>3. \A i \in 1 .. Len(Pipe') : i + d \in 1 .. Len(Pipe)
    BY <1>a, <1>2
<1> SUFFICES ASSUME NEW r \in Runs, NEW s \in Shards
             PROVE  /\ \A i \in 1 .. Len(Pipe') : IsOf(Pipe'[i], r, s) /\ Pipe'[i].final =>
                          /\ ~Unfinished(r, s)
                          /\ \A j \in 1 .. Len(Pipe') : j > i => ~IsOf(Pipe'[j], r, s)
                    /\ s \in runs'[r].finalShards =>
                          /\ ~Unfinished(r, s)
                          /\ \A i \in 1 .. Len(Pipe') : ~IsOf(Pipe'[i], r, s)
    BY <1>1 DEF FinalIsLast, IsOf
<1>4. ASSUME NEW i \in 1 .. Len(Pipe'), IsOf(Pipe'[i], r, s), Pipe'[i].final
      PROVE  /\ ~Unfinished(r, s)
             /\ \A j \in 1 .. Len(Pipe') : j > i => ~IsOf(Pipe'[j], r, s)
    <2>1. \A j \in 1 .. Len(Pipe') : j > i => j + d > i + d
        BY <1>2
    <2> QED BY <1>2, <1>3, <1>4, <2>1 DEF FinalIsLast
<1>5. ASSUME s \in runs'[r].finalShards
      PROVE  /\ ~Unfinished(r, s)
             /\ \A i \in 1 .. Len(Pipe') : ~IsOf(Pipe'[i], r, s)
    <2>1. CASE s \in runs[r].finalShards
        BY <1>2, <1>3, <2>1 DEF FinalIsLast
    <2>2. CASE s \notin runs[r].finalShards
        <3>1. /\ 1 \in 1 .. Len(Pipe) /\ Pipe[1].final /\ IsOf(Pipe[1], r, s)
              /\ Len(Pipe) = Len(Pipe') + 1
            BY <1>5, <2>2, IngesterCounts
        <3>2. d = 1 /\ \A i \in 1 .. Len(Pipe') : i + d > 1
            BY <1>2, <3>1, <1>a
        <3> QED BY <1>2, <1>3, <3>1, <3>2 DEF FinalIsLast
    <2> QED BY <2>1, <2>2
<1> QED BY <1>4, <1>5

LEMMA IngAllFinal ==
    ASSUME TypeOK, OneOwnerPerVerdict, AllFinal,
           \/ MainStep \/ SweepStep \/ IngCrash
           \/ \E S \in SUBSET Runs : Sweep(S)
    PROVE  AllFinal'
<1> USE DEF AllFinal
<1>a. /\ thread \in [Thread -> {Looping} \cup ThreadCall] /\ "main" \in Thread
      /\ runs \in [Runs -> Agg]
      /\ Looping.at \notin Finalizing
      /\ thread["main"].at \in Finalizing => thread["main"].run \in Runs
      /\ "loop" \notin Finalizing /\ "live" \notin Finalizing
    BY DEF TypeOK, IngTypeOK, Looping, Finalizing, Thread, ThreadCall
<1>b. ASSUME thread'["main"].at \in Finalizing => /\ thread["main"].at \in Finalizing
                                                  /\ thread'["main"].run = thread["main"].run,
             \A r \in Runs : runs'[r].finalShards = runs[r].finalShards
      PROVE  AllFinal'
    BY <1>a, <1>b
<1>1. CASE ReadBatches \/ AbsorbLate
    BY <1>1, <1>b DEF ReadBatches, AbsorbLate
<1>2. CASE Absorb
    <2> DEFINE b   == Head(inbox)
               agg == Merge(runs[b.run], b)
    <2>1. b \in TelemetryBatch
        BY <1>2 DEF Absorb, TypeOK, IngTypeOK
    <2>2. b.run \in Runs /\ runs[b.run] \in Agg /\ b.shard \in Shards
        BY <1>a, <2>1 DEF TelemetryBatch
    <2>3. agg.finalShards \in SUBSET Shards
        BY <2>2 DEF Merge, Agg
    <2>4. [agg EXCEPT !.finalized = Complete(agg)].finalShards = agg.finalShards
        BY <2>2 DEF Merge, Agg
    <2>5. /\ thread'["main"].at = IF Complete(agg) THEN "compute" ELSE "live"
          /\ thread'["main"].run = b.run
        BY <1>2, <1>a DEF Absorb, Looping
    <2>6. runs'[b.run] = [agg EXCEPT !.finalized = Complete(agg)]
        BY <1>2, <1>a, <2>2 DEF Absorb
    <2>7. Complete(agg) => agg.finalShards = Shards
        BY <2>3, AllShards DEF Complete
    <2> HIDE DEF agg, b
    <2> QED BY <1>a, <2>4, <2>5, <2>6, <2>7
<1>3. CASE Live
    <2>1. thread'["main"] = Looping
        BY <1>3, <1>a DEF Live
    <2> QED BY <1>a, <2>1
<1>4. CASE \E S \in SUBSET Runs : Sweep(S)
    <2>1. \A r \in Runs : runs'[r].finalShards = runs[r].finalShards
        BY <1>4, <1>a DEF Sweep, Agg
    <2> QED BY <1>4, <1>b, <2>1 DEF Sweep
<1>5. CASE SweepNext
    <2>1. thread'["main"] = thread["main"] /\ runs' = runs
        BY <1>5, <1>a DEF SweepNext
    <2> QED BY <1>b, <2>1
<1>6. ASSUME NEW t \in Thread, FinalizeStep(t)
      PROVE  AllFinal'
    <2>1. CASE DropAggregate(t)
        <3>1. CASE t = "main"
            <4>1. thread'["main"] = Looping
                BY <1>a, <2>1, <3>1 DEF DropAggregate
            <4> QED BY <1>a, <4>1
        <3>2. CASE t = "sweep"
            <4>1. thread'["main"] = thread["main"] /\ thread["sweep"].at = "delete"
                BY <1>a, <2>1, <3>2 DEF DropAggregate
            <4>2. \A r \in Runs : r # thread["sweep"].run => runs'[r] = runs[r]
                BY <1>a, <2>1, <3>2 DEF DropAggregate
            <4>3. thread["main"].at \in Finalizing => thread["main"].run # thread["sweep"].run
                BY <4>1 DEF OneOwnerPerVerdict, Finalizing
            <4> QED BY <1>a, <4>1, <4>2, <4>3
        <3> QED BY <3>1, <3>2 DEF Thread
    <2>2. CASE ~DropAggregate(t)
        <3>1. runs' = runs /\ thread[t].at \in Finalizing
            BY <1>6, <2>2 DEF FinalizeStep, ComputeScore, WriteResult, WriteDone, CompareBest,
               AddToBoard, SetBest, ReadRows, Publish, Persist, Step, Finalizing
        <3>2. thread[t] \in ThreadCall
            BY <1>a, <3>1
        <3>3. ASSUME NEW from, NEW to, Step(t, from, to)
              PROVE  thread'[t].run = thread[t].run /\ \A u \in Thread : u # t => thread'[u] = thread[u]
            BY <1>a, <3>2, <3>3 DEF Step, ThreadCall
        <3>4. CASE ComputeScore(t)
            BY <1>a, <1>b, <3>1, <3>2, <3>4 DEF ComputeScore, ThreadCall
        <3>5. CASE ReadRows(t)
            BY <1>a, <1>b, <3>1, <3>2, <3>5 DEF ReadRows, ThreadCall
        <3>6. CASE \/ WriteResult(t) \/ WriteDone(t) \/ CompareBest(t) \/ AddToBoard(t)
                   \/ SetBest(t) \/ Publish(t) \/ Persist(t)
            <4>1. \E from, to : Step(t, from, to)
                BY <3>6 DEF WriteResult, WriteDone, CompareBest, AddToBoard, SetBest, Publish,
                   Persist
            <4> QED BY <1>a, <1>b, <3>1, <3>3, <4>1
        <3> QED BY <1>6, <2>2, <3>4, <3>5, <3>6 DEF FinalizeStep
    <2> QED BY <2>1, <2>2
<1>7. CASE IngCrash
    <2>1. thread'["main"] = Looping
        BY <1>7, <1>a DEF IngCrash
    <2> QED BY <1>a, <2>1
<1> QED BY <1>1, <1>2, <1>3, <1>4, <1>5, <1>6, <1>7 DEF MainStep, SweepStep, Thread

-----------------------------------------------------------------------------
(* A shard is in one place at a time, its final batch is the last of it,   *)
(* and a verdict on the count has the final batch of every shard.          *)
THEOREM ShardsKeepOrder == Spec => []ShardsInOrder
<1>1. Init => ShardsInOrder
    BY BusAssumption DEF Init, BusInit, OrchInit, FleetInit, IngInit, ShardsInOrder, OnePlace,
       FinalIsLast, AllFinal, ToCome, Pipe, Idle, NoShard, NoAgg, Looping, Finalizing, Thread
<1>2. TypeOK /\ OneOwnerPerVerdict /\ RunLife /\ ShardsInOrder /\ [Next]_vars => ShardsInOrder'
    <2> SUFFICES ASSUME TypeOK, OneOwnerPerVerdict, RunLife, OnePlace, FinalIsLast, AllFinal,
                        [Next]_vars
                 PROVE  OnePlace' /\ FinalIsLast' /\ AllFinal'
        BY DEF ShardsInOrder
    <2>1. ASSUME UNCHANGED <<loadJobs, fleet, orch>>
          PROVE  OnePlace' /\ \A r, s : Unfinished(r, s)' <=> Unfinished(r, s)
        BY <2>1 DEF OnePlace, Unfinished, ToCome, Dispatched, SameShard, NoShard
    <2>2. ASSUME UNCHANGED ingVars
          PROVE  AllFinal' /\ UNCHANGED <<inbox, runs>>
        BY <2>2 DEF AllFinal, ingVars, memoryVars
    <2>3. CASE /\ \E r \in Runs : StoreRun(r) \/ EnqueueRun(r) \/ EnqueueFails(r)
               /\ UNCHANGED <<orchVars, fleet, ingVars>>
        <3>1. UNCHANGED <<loadJobs, teleRaw, orch>>
            BY <2>3 DEF StoreRun, EnqueueRun, EnqueueFails, orchVars
        <3> QED BY <2>1, <2>2, <2>3, <3>1, FinalStaysLast
    <2>4. CASE /\ \E o \in Orchestrators : OrchStep(o) \/ PollExpires(o) \/ OrchCrash(o)
               /\ UNCHANGED <<request, fleet, ingVars>>
        <3>1. UNCHANGED teleRaw
            BY <2>4 DEF OrchStep, ClaimRun, StartBuild, BuildFails, BuildSucceeds, SandboxFails,
               SandboxStarts, NeverHealthy, Healthy, Probe, StartLoad, Dispatch, DispatchLost,
               SeeVerdict, PollExpires, GiveUp, Teardown, OrchCrash, busVars
        <3> QED BY <2>2, <2>4, <3>1, OrchShards, FinalStaysLast
    <2>5. CASE /\ \E f \in Replicas : FleetStep(f) \/ FleetCrash(f)
               /\ UNCHANGED <<request, orchVars, ingVars>>
        BY <2>2, <2>5, FleetShards, FleetFinals DEF orchVars
    <2>6. CASE /\ \/ MainStep \/ SweepStep \/ IngCrash
                  \/ \E S \in SUBSET Runs : Sweep(S)
               /\ UNCHANGED <<request, orchVars, fleet>>
        <3>1. loadJobs' = loadJobs
            BY <2>6 DEF MainStep, SweepStep, FinalizeStep, ReadBatches, AbsorbLate, Absorb, Live,
               Sweep, SweepNext, ComputeScore, WriteResult, WriteDone, CompareBest, AddToBoard,
               SetBest, ReadRows, Publish, Persist, DropAggregate, IngCrash, busVars
        <3> QED BY <2>1, <2>6, <3>1, IngFinals, IngAllFinal DEF orchVars
    <2>7. CASE UNCHANGED vars
        <3>1. UNCHANGED <<loadJobs, teleRaw, orch, fleet, ingVars>>
            BY <2>7 DEF vars, busVars, orchVars
        <3> QED BY <2>1, <2>2, <3>1, FinalStaysLast
    <2> QED BY <2>3, <2>4, <2>5, <2>6, <2>7, ComponentSteps
<1> QED BY <1>1, <1>2, ArenaTypes, VerdictsHaveOneOwner, RunsHaveOneLife, PTL DEF Spec

(* When absorb() has counted the final batches of a run and finalizes it,  *)
(* no shard of the run is waiting, running or to be dispatched and no      *)
(* batch of it is on the way, whatever crashed or was lost before.         *)
THEOREM CountedVerdictsAreWhole == Spec => []CountedVerdictIsWhole
<1>1. TypeOK /\ ShardsInOrder => CountedVerdictIsWhole
    <2> SUFFICES ASSUME TypeOK, ShardsInOrder, thread["main"].at \in Finalizing
                 PROVE  LET r == thread["main"].run IN
                        ~FanningOut(r) /\ ~Queued(r) /\ ~Running(r) /\ ~InFlight(r)
        BY DEF CountedVerdictIsWhole
    <2> DEFINE r == thread["main"].run
    <2>1. r \in Runs /\ runs[r].finalShards = Shards
        BY DEF TypeOK, IngTypeOK, Looping, ThreadCall, Finalizing, Thread, ShardsInOrder, AllFinal
    <2>2. \A s \in Shards : ~Unfinished(r, s) /\ \A i \in 1 .. Len(Pipe) : ~IsOf(Pipe[i], r, s)
        BY <2>1 DEF ShardsInOrder, FinalIsLast
    <2> HIDE DEF r
    <2>3. ~FanningOut(r)
        <3> SUFFICES ASSUME NEW o \in Orchestrators, orch[o].run = r, orch[o].at = "fanout"
                     PROVE  FALSE
            BY DEF FanningOut
        <3>1. orch[o].shard \in Shards /\ orch[o].shard <= orch[o].shard
            BY BusAssumption DEF TypeOK, OrchTypeOK, OrchCall, Idle, Shards
        <3> QED BY <2>2, <3>1 DEF Unfinished, ToCome
    <2>4. ~Queued(r)
        <3> SUFFICES ASSUME NEW i \in DOMAIN loadJobs, loadJobs[i].run = r
                     PROVE  FALSE
            BY DEF Queued
        <3>1. i \in 1 .. Len(loadJobs) /\ loadJobs[i] \in LoadShard
            BY DEF TypeOK, BusTypeOK
        <3>2. loadJobs[i].shard \in Shards
            BY <3>1 DEF LoadShard
        <3> QED BY <2>2, <3>1, <3>2 DEF Unfinished, Dispatched
    <2>5. ~Running(r)
        <3> SUFFICES ASSUME NEW f \in Replicas, fleet[f].run = r
                     PROVE  FALSE
            BY DEF Running
        <3>1. fleet[f].shard \in Shards
            BY <2>1, BusAssumption DEF TypeOK, FleetTypeOK, NoShard
        <3> QED BY <2>2, <3>1 DEF Unfinished, Dispatched
    <2>6. ~InFlight(r)
        <3>1. /\ inbox \in Seq(TelemetryBatch) /\ teleRaw \in Seq(TelemetryBatch)
              /\ \A i \in DOMAIN inbox : i \in 1 .. Len(inbox) /\ inbox[i] \in TelemetryBatch
              /\ \A i \in DOMAIN teleRaw : i \in 1 .. Len(teleRaw) /\ teleRaw[i] \in TelemetryBatch
            BY DEF TypeOK, BusTypeOK, IngTypeOK
        <3>2. ASSUME NEW i \in DOMAIN inbox, inbox[i].run = r
              PROVE  FALSE
            <4>1. inbox[i].shard \in Shards
                BY <3>1 DEF TelemetryBatch
            <4>2. Pipe[i] = inbox[i] /\ i \in 1 .. Len(Pipe)
                BY <3>1, ConcatElements DEF Pipe
            <4> QED BY <2>2, <3>2, <4>1, <4>2 DEF IsOf
        <3>3. ASSUME NEW i \in DOMAIN teleRaw, teleRaw[i].run = r
              PROVE  FALSE
            <4>1. teleRaw[i].shard \in Shards
                BY <3>1 DEF TelemetryBatch
            <4>2. Pipe[Len(inbox) + i] = teleRaw[i] /\ Len(inbox) + i \in 1 .. Len(Pipe)
                BY <3>1, ConcatElements DEF Pipe
            <4> QED BY <2>2, <3>3, <4>1, <4>2 DEF IsOf
        <3> QED BY <3>2, <3>3 DEF InFlight
    <2> QED BY <2>3, <2>4, <2>5, <2>6 DEF r
<1> QED BY <1>1, ArenaTypes, ShardsKeepOrder, PTL

-----------------------------------------------------------------------------
(***************************************************************************)
(* Part 4.                                                                 *)
(*                                                                         *)
(* Where nothing fails and nothing stalls, and there is a replica for      *)
(* every shard, each run gets exactly one verdict: proofs of Arena's       *)
(* OneRowPerRun, BestRunKept, ScoreMatchesMetrics and TerminalIsFinal for  *)
(* any number of runs, shards, orchestrators and flushes.                  *)
(*                                                                         *)
(* All four fail in general, for the sweep and the orchestrator's deadline *)
(* decide runs whose telemetry is still to come.  What has to be shown is  *)
(* that under these conditions neither ever fires.                         *)
(***************************************************************************)

(* The conditions, which are about the deployment: no fault, no stall, and *)
(* as many fleet replicas as there may be shards at a time.                *)
Calm ==
    /\ Prompt
    /\ Faults = {}
    /\ IsFiniteSet(Runs) /\ IsFiniteSet(Replicas)
    /\ Cardinality(Replicas) >= Cardinality(Runs) * TotalShards

-----------------------------------------------------------------------------
(* Nothing of shard s of run r is before absorb(); of no shard of r. *)
Gone(r, s) == ~Unfinished(r, s) /\ \A i \in 1 .. Len(Pipe) : ~IsOf(Pipe[i], r, s)

Finished(r) == \A s \in Shards : Gone(r, s)

Over(r) == run[r].status \in {"done", "failed"}

(* finalize() before it writes "done", and after. *)
Unscored == {"compute", "result", "done"}
Scored   == {"zscore", "zadd", "best", "rows", "publish", "archive", "delete"}

MainHas(r, S) == thread["main"].run = r /\ thread["main"].at \in S

(* The fan-out starts with shard 0, and no deadline is ever missed. *)
FanOutWhole ==
    \A o \in Orchestrators :
       /\ orch[o].at \in {"claimed", "build", "start", "health", "probe", "load"} =>
             orch[o].shard = 0
       /\ orch[o].at # "expired"

(* Until the verdict every shard is unfinished, or its final batch is on   *)
(* the way or counted.                                                     *)
NothingLost ==
    \A r \in Runs, s \in Shards : run[r].status = "load" =>
       \/ Unfinished(r, s)
       \/ \E i \in 1 .. Len(Pipe) : IsOf(Pipe[i], r, s) /\ Pipe[i].final
       \/ s \in runs[r].finalShards

(* After the verdict nothing of the run is left. *)
NothingAfter ==
    \A r \in Runs : Over(r) => Finished(r) /\ (runs[r] # NoAgg => MainHas(r, Scored))

(* Only the main goroutine gives verdicts, on runs in the load phase. *)
OneJudge ==
    /\ stale = {} /\ thread["sweep"] = Looping
    /\ \A r \in Runs : runs[r].finalShards = Shards => runs[r].finalized
    /\ thread["main"].at \in Unscored \cup {"live"} => run[thread["main"].run].status = "load"
    /\ thread["main"].at \in Scored => run[thread["main"].run].status = "done"

CalmLife == FanOutWhole /\ NothingLost /\ NothingAfter /\ OneJudge

(* The invariants that hold without the conditions. *)
Known == TypeOK /\ OneOwnerPerVerdict /\ RunLife /\ ShardsInOrder

-----------------------------------------------------------------------------
(* A shard that waits has a replica that waits: no two replicas run the    *)
(* same shard, so that not all of them can be busy with the others.        *)
LEMMA ReplicaForEveryShard ==
    ASSUME Calm, Known, NEW r \in Runs, Queued(r)
    PROVE  ~AllBusy
<1> SUFFICES ASSUME AllBusy PROVE FALSE
    OBVIOUS
<1>1. PICK i \in DOMAIN loadJobs : loadJobs[i].run = r
    BY DEF Queued
<1>2. i \in 1 .. Len(loadJobs) /\ loadJobs[i] \in LoadShard
    BY DEF Known, TypeOK, BusTypeOK
<1> DEFINE s == loadJobs[i].shard
           All == Runs \X Shards
           T == All \ {<<r, s>>}
           g == [f \in Replicas |-> <<fleet[f].run, fleet[f].shard>>]
<1>3. s \in Shards
    BY <1>2 DEF LoadShard
<1>4. IsFiniteSet(All) /\ Cardinality(All) = Cardinality(Runs) * TotalShards
    <2>1. IsFiniteSet(Shards) /\ Cardinality(Shards) = TotalShards
        BY ShardCount
    <2> QED BY <2>1, FS_Product DEF Calm
<1>5. IsFiniteSet(T) /\ Cardinality(T) < Cardinality(Replicas)
    <2>1. <<r, s>> \in All
        BY <1>3
    <2>2. IsFiniteSet(T) /\ Cardinality(T) = Cardinality(All) - 1
        <3> DEFINE p == <<r, s>>
        <3>1. p \in All /\ T = All \ {p}
            BY <2>1
        <3> HIDE DEF p, All, T
        <3> QED BY <1>4, <3>1, FS_RemoveElement
    <2>3. Cardinality(All) \in Nat /\ Cardinality(Replicas) \in Nat
        BY <1>4, FS_CardinalityType DEF Calm
    <2> HIDE DEF T, All
    <2> QED BY <1>4, <2>2, <2>3 DEF Calm
<1>6. g \in [Replicas -> T]
    <2> SUFFICES ASSUME NEW f \in Replicas
                 PROVE  <<fleet[f].run, fleet[f].shard>> \in T
        OBVIOUS
    <2>1. fleet[f].run \in Runs /\ fleet[f].shard \in Shards
        BY DEF AllBusy, Known, TypeOK, FleetTypeOK
    <2>2. ~(fleet[f].run = r /\ fleet[f].shard = s)
        BY <1>1, <1>2 DEF Known, ShardsInOrder, OnePlace, SameShard
    <2> QED BY <2>1, <2>2
<1>7. \E f, h \in Replicas : f # h /\ g[f] = g[h]
    <2> HIDE DEF T, g
    <2> QED BY <1>5, <1>6, FS_PigeonHole DEF Calm
<1>8. PICK f \in Replicas, h \in Replicas : f # h /\ g[f] = g[h]
    BY <1>7
<1>9. fleet[f].run = fleet[h].run /\ fleet[f].shard = fleet[h].shard
    BY <1>8
<1> QED BY <1>8, <1>9 DEF AllBusy, Known, ShardsInOrder, OnePlace, SameShard

LEMMA NothingLeft ==
    ASSUME TypeOK, NEW r \in Runs, ~FanningOut(r), ~Queued(r), ~Running(r), ~InFlight(r)
    PROVE  Finished(r)
<1>a. /\ inbox \in Seq(TelemetryBatch) /\ teleRaw \in Seq(TelemetryBatch)
      /\ loadJobs \in Seq(LoadShard)
    BY DEF TypeOK, BusTypeOK, IngTypeOK
<1>1. \A s \in Shards : ~Unfinished(r, s)
    BY <1>a DEF FanningOut, Queued, Running, Unfinished, ToCome, Dispatched
<1>2. ASSUME NEW i \in 1 .. Len(Pipe), Pipe[i].run = r
      PROVE  FALSE
    <2>1. /\ Len(inbox) \in Nat /\ Len(teleRaw) \in Nat
          /\ Len(Pipe) = Len(inbox) + Len(teleRaw)
          /\ \A j \in 1 .. Len(inbox) : Pipe[j] = inbox[j]
          /\ \A j \in Len(inbox) + 1 .. Len(inbox) + Len(teleRaw) :
                 Pipe[j] = teleRaw[j - Len(inbox)]
        BY <1>a, ConcatElements DEF Pipe
    <2>2. CASE i \in 1 .. Len(inbox)
        BY <1>a, <1>2, <2>1, <2>2 DEF InFlight
    <2>3. CASE i \in Len(inbox) + 1 .. Len(inbox) + Len(teleRaw)
        <3>1. i - Len(inbox) \in 1 .. Len(teleRaw)
            BY <2>1, <2>3
        <3> QED BY <1>a, <1>2, <2>1, <2>3, <3>1 DEF InFlight
    <2> QED BY <1>2, <2>1, <2>2, <2>3
<1> QED BY <1>1, <1>2 DEF Finished, Gone, IsOf

(* A run in the load phase that is not yet decided is never silent, and    *)
(* never overdue while its orchestrator waits.                             *)
LEMMA NeverSilent ==
    ASSUME Calm, Known, CalmLife, NEW r \in Runs, Claimable(r)
    PROVE  ~Silent(r)
<1> SUFFICES ASSUME Silent(r) PROVE FALSE
    OBVIOUS
<1>1. ~Running(r) /\ ~InFlight(r) /\ ~FanningOut(r) /\ ~Queued(r) /\ ~MainHas(r, Finalizing)
    BY ReplicaForEveryShard DEF Silent, Calm, MainHas
<1>2. run[r].status = "load"
    <2>1. r \in Loaded
        BY DEF Claimable, Known, RunLife, Downstream
    <2>2. run[r].status \in {"load", "done", "failed"}
        BY <2>1 DEF Loaded, Phase, Known, TypeOK, BusTypeOK, RunHash, Status
    <2>3. ~Over(r)
        BY <1>1 DEF CalmLife, NothingAfter, Claimable, MainHas, Scored, Finalizing
    <2> QED BY <2>2, <2>3 DEF Over
<1>3. \A s \in Shards : ~Unfinished(r, s) /\ \A i \in 1 .. Len(Pipe) : ~IsOf(Pipe[i], r, s)
    BY <1>1, NothingLeft DEF Known, Finished, Gone
<1>4. runs[r].finalShards = Shards
    BY <1>2, <1>3 DEF CalmLife, NothingLost, Known, TypeOK, IngTypeOK, Agg
<1> QED BY <1>4 DEF CalmLife, OneJudge, Claimable

LEMMA NeverOverdue ==
    ASSUME Calm, Known, CalmLife, NEW o \in Orchestrators, PollExpires(o)
    PROVE  ~Overdue(orch[o].run)
<1> DEFINE r == orch[o].run
<1> SUFFICES ASSUME Overdue(r) PROVE FALSE
    OBVIOUS
<1>1. orch[o].at = "wait" /\ ~Over(r)
    BY DEF PollExpires, Over
<1>2. r \in Runs /\ run[r].status = "load"
    <2>1. r \in Runs
        BY <1>1 DEF Known, TypeOK, OrchTypeOK, OrchCall, Idle
    <2>2. run[r].status \in {"load", "done", "failed"}
        BY <1>1 DEF Known, RunLife, OneToken, HandlersStand, StatusAt
    <2> QED BY <1>1, <2>1, <2>2 DEF Over
<1>3. ~FanningOut(r)
    BY <1>1 DEF Known, RunLife, OneToken, HandlersStand, FanningOut
<1> HIDE DEF r
<1>4. ~Queued(r) /\ ~Running(r) /\ ~InFlight(r) /\ runs[r] = NoAgg
    BY <1>2, ReplicaForEveryShard DEF Overdue, Calm
<1>5. Finished(r)
    BY <1>2, <1>3, <1>4, NothingLeft DEF Known
<1>6. 0 \in Shards
    BY BusAssumption DEF Shards
<1> QED BY <1>2, <1>4, <1>5, <1>6 DEF CalmLife, NothingLost, Finished, Gone, NoAgg

(* So every step is one of a handler, a replica or the main goroutine.     *)
LEMMA CalmSteps ==
    ASSUME Calm, Known, CalmLife, [Next]_vars
    PROVE  \/ /\ \E r \in Runs : StoreRun(r) \/ EnqueueRun(r)
              /\ UNCHANGED <<orchVars, fleet, ingVars>>
           \/ /\ \E o \in Orchestrators : OrchStep(o) /\ ~DispatchLost(o) /\ ~GiveUp(o)
              /\ UNCHANGED <<request, fleet, ingVars>>
           \/ /\ \E f \in Replicas : FleetStep(f)
              /\ UNCHANGED <<request, orchVars, ingVars>>
           \/ /\ MainStep
              /\ UNCHANGED <<request, orchVars, fleet>>
           \/ UNCHANGED vars
<1>a. \A kind : ~Fault(kind)
    BY DEF Calm, Fault
<1>1. CASE GatewayNext
    BY <1>1, <1>a DEF GatewayNext, GatewayStep, EnqueueFails
<1>2. CASE OrchNext
    <2>1. PICK o \in Orchestrators : /\ \/ OrchStep(o)
                                        \/ PollExpires(o) /\ Overdue(orch[o].run)
                                        \/ OrchCrash(o)
                                     /\ UNCHANGED <<request, fleet, ingVars>>
        BY <1>2 DEF OrchNext, OrchMoves
    <2>2. ~(PollExpires(o) /\ Overdue(orch[o].run)) /\ ~OrchCrash(o) /\ ~DispatchLost(o)
        BY <1>a, NeverOverdue DEF OrchCrash, DispatchLost
    <2>3. ~GiveUp(o)
        BY DEF GiveUp, CalmLife, FanOutWhole
    <2> QED BY <2>1, <2>2, <2>3
<1>3. CASE FleetNext
    BY <1>3, <1>a DEF FleetNext, FleetMoves, FleetCrash
<1>4. CASE IngNext
    <2>1. ~IngCrash
        BY <1>a DEF IngCrash
    <2>2. ~SweepStep
        <3>1. thread["sweep"].at = "loop" /\ stale = {}
            BY DEF CalmLife, OneJudge, Looping
        <3> QED BY <3>1 DEF SweepStep, SweepNext, FinalizeStep, ComputeScore, WriteResult,
               WriteDone, CompareBest, AddToBoard, SetBest, ReadRows, Publish, Persist,
               DropAggregate, Step
    <2>3. ASSUME NEW S \in SUBSET {r \in Runs : Silent(r)}, Sweep(S)
          PROVE  FALSE
        <3>1. PICK r \in S : Claimable(r)
            BY <2>3 DEF Sweep
        <3> QED BY <2>3, <3>1, NeverSilent
    <2> QED BY <1>4, <2>1, <2>2, <2>3 DEF IngNext, MainMoves, SweepMoves
<1> QED BY <1>1, <1>2, <1>3, <1>4 DEF Next

-----------------------------------------------------------------------------
(* Where the shards, the batches and the ingester stay as they are, and    *)
(* only runs before the load phase change their status, all stays calm.    *)
LEMMA CalmStays ==
    ASSUME CalmLife, UNCHANGED <<orch, loadJobs, fleet, teleRaw, ingVars>>,
           \A r \in Runs : \/ run'[r].status = run[r].status
                           \/ {run[r].status, run'[r].status} \cap {"load", "done", "failed"} = {},
           thread["main"].at \in Unscored \cup Scored \cup {"live"} =>
              thread["main"].run \in Runs
    PROVE  CalmLife'
<1>1. Pipe' = Pipe /\ UNCHANGED <<runs, stale, thread>>
    BY DEF Pipe, ingVars, memoryVars
<1>2. \A r, s : Unfinished(r, s)' <=> Unfinished(r, s)
    BY DEF Unfinished, ToCome, Dispatched
<1>3. FanOutWhole'
    BY DEF CalmLife, FanOutWhole
<1>4. NothingLost'
    BY <1>1, <1>2 DEF CalmLife, NothingLost, IsOf
<1>5. NothingAfter'
    <2> SUFFICES ASSUME NEW r \in Runs, run'[r].status \in {"done", "failed"}
                 PROVE  /\ \A s \in Shards : /\ ~Unfinished(r, s)
                                             /\ \A i \in 1 .. Len(Pipe) : ~IsOf(Pipe[i], r, s)
                        /\ runs[r] # NoAgg => MainHas(r, Scored)
        BY <1>1, <1>2 DEF NothingAfter, Over, Finished, Gone, IsOf, MainHas
    <2>1. run[r].status \in {"done", "failed"}
        OBVIOUS
    <2> QED BY <2>1 DEF CalmLife, NothingAfter, Over, Finished, Gone
<1>6. OneJudge'
    <2>1. thread["main"].at \in Unscored \cup {"live"} => run'[thread["main"].run].status = "load"
        BY DEF CalmLife, OneJudge
    <2>2. thread["main"].at \in Scored => run'[thread["main"].run].status = "done"
        BY DEF CalmLife, OneJudge
    <2> QED BY <1>1, <2>1, <2>2 DEF CalmLife, OneJudge, Looping, NoRows
<1> QED BY <1>3, <1>4, <1>5, <1>6 DEF CalmLife

(* What a step of handle() does to the status of the runs: it writes only  *)
(* the one it handles, "load" when it starts the fan-out, and a failure    *)
(* only before that.                                                       *)
LEMMA OrchWrites ==
    ASSUME Known, NEW o \in Orchestrators, OrchStep(o), ~GiveUp(o), NEW r \in Runs
    PROVE  \/ run'[r].status = run[r].status
           \/ /\ r = orch[o].run /\ StartLoad(o)
              /\ run[r].status = "conformance" /\ run'[r].status = "load"
           \/ /\ r = orch[o].run /\ ~StartLoad(o)
              /\ run[r].status \in {"queued", "building"}
              /\ run'[r].status \in {"building", "conformance", "failed"}
<1>a. BusTypeOK /\ run \in [Runs -> RunHash]
    BY DEF Known, TypeOK, BusTypeOK
<1>b. orch[o].at # "idle" => /\ orch[o].run \in Runs
                             /\ run[orch[o].run].status \in StatusAt(orch[o].at)
    BY DEF Known, TypeOK, OrchTypeOK, OrchCall, Idle, RunLife, OneToken, HandlersStand
<1>1. CASE StartLoad(o)
    <2>1. orch[o].at = "load" /\ SetStatus(orch[o].run, "load")
        BY <1>1 DEF StartLoad
    <2>2. run[orch[o].run].status = "conformance" /\ orch[o].run \in Runs
        BY <1>b, <2>1 DEF StatusAt
    <2> QED BY <1>1, <1>a, <2>1, <2>2, StatusWritten
<1>2. ASSUME NEW st \in {"building", "conformance", "failed"}, SetStatus(orch[o].run, st),
             orch[o].at \in {"claimed", "build", "start", "health"}
      PROVE  \/ run'[r].status = run[r].status
             \/ /\ r = orch[o].run /\ ~StartLoad(o)
                /\ run[r].status \in {"queued", "building"}
                /\ run'[r].status \in {"building", "conformance", "failed"}
    <2>1. run[orch[o].run].status \in {"queued", "building"} /\ orch[o].run \in Runs
        BY <1>b, <1>2 DEF StatusAt
    <2>2. ~StartLoad(o)
        BY <1>2 DEF StartLoad
    <2> QED BY <1>2, <1>a, <2>1, <2>2, StatusWritten
<1>3. CASE StartBuild(o) \/ BuildFails(o) \/ SandboxFails(o) \/ NeverHealthy(o) \/ Healthy(o)
    BY <1>3, <1>2 DEF StartBuild, BuildFails, SandboxFails, NeverHealthy, Healthy
<1>4. CASE Probe(o)
    <2>1. orch[o].run \in Runs
        BY <1>4, <1>b DEF Probe
    <2> QED BY <1>4, <1>a, <2>1 DEF Probe, RunHash
<1>5. CASE UNCHANGED run
    BY <1>5
<1> QED BY <1>1, <1>3, <1>4, <1>5 DEF OrchStep, ClaimRun, BuildSucceeds, SandboxStarts, Dispatch,
       DispatchLost, SeeVerdict, Teardown, busVars

(* No shard is lost: the fan-out starts with all of them, and what leaves  *)
(* the loop is in load.jobs.                                               *)
LEMMA OrchLosesNothing ==
    ASSUME Known, FanOutWhole, NEW o \in Orchestrators, OrchStep(o), ~DispatchLost(o), ~GiveUp(o),
           UNCHANGED fleet
    PROVE  /\ FanOutWhole'
           /\ \A r \in Runs, s \in Shards :
                 \/ Unfinished(r, s)
                 \/ StartLoad(o) /\ r = orch[o].run
                 => Unfinished(r, s)'
<1>a. /\ orch \in [Orchestrators -> {Idle} \cup OrchCall]
      /\ loadJobs \in Seq(LoadShard) /\ Len(loadJobs) \in Nat
      /\ Idle.at = "idle" /\ Shards \subseteq Int
      /\ TotalShards \in Nat
    BY BusAssumption DEF Known, TypeOK, OrchTypeOK, BusTypeOK, Idle, Shards
<1>b. ASSUME NEW c, orch' = [orch EXCEPT ![o] = c], orch[o].at # "fanout",
             c.at # "expired",
             c.at \in {"claimed", "build", "start", "health", "probe", "load"} => c.shard = 0,
             UNCHANGED loadJobs
      PROVE  FanOutWhole' /\ \A r \in Runs, s \in Shards : Unfinished(r, s) => Unfinished(r, s)'
    <2>1. orch'[o] = c /\ \A p \in Orchestrators : p # o => orch'[p] = orch[p]
        BY <1>a, <1>b
    <2>2. FanOutWhole'
        BY <1>b, <2>1 DEF FanOutWhole
    <2>3. \A r \in Runs, s \in Shards : ToCome(r, s) => ToCome(r, s)'
        BY <1>b, <2>1 DEF ToCome
    <2> QED BY <1>b, <2>2, <2>3 DEF Unfinished, Dispatched
<1>c. ASSUME NEW at, GoTo(o, at), orch[o].at \notin {"idle", "fanout"}, at # "expired",
             at \in {"build", "start", "health", "probe", "load"} =>
                orch[o].at \in {"claimed", "build", "start", "health", "probe"},
             at # "claimed", UNCHANGED loadJobs
      PROVE  FanOutWhole' /\ \A r \in Runs, s \in Shards : Unfinished(r, s) => Unfinished(r, s)'
    <2> DEFINE c == [orch[o] EXCEPT !.at = at]
    <2>1. c.at = at /\ c.shard = orch[o].shard
        BY <1>a, <1>c DEF OrchCall
    <2>2. orch' = [orch EXCEPT ![o] = c]
        BY <1>c DEF GoTo
    <2>3. at \in {"build", "start", "health", "probe", "load"} => c.shard = 0
        BY <1>c, <2>1 DEF FanOutWhole
    <2> HIDE DEF c
    <2> QED BY <1>b, <1>c, <2>1, <2>2, <2>3
<1>1. CASE StartLoad(o)
    <2>1. orch[o].at = "load" /\ GoTo(o, "fanout") /\ UNCHANGED loadJobs
        BY <1>1 DEF StartLoad
    <2>2. orch[o].shard = 0
        BY <2>1 DEF FanOutWhole
    <2>3. orch'[o].at = "fanout" /\ orch'[o].run = orch[o].run /\ orch'[o].shard = 0
        BY <1>a, <2>1, <2>2 DEF GoTo, OrchCall
    <2>4. \A s \in Shards : 0 <= s
        BY <1>a DEF Shards
    <2>5. FanOutWhole' /\ \A r \in Runs, s \in Shards : Unfinished(r, s) => Unfinished(r, s)'
        BY <1>c, <2>1
    <2>6. \A r \in Runs, s \in Shards : r = orch[o].run => Unfinished(r, s)'
        <3> SUFFICES ASSUME NEW s \in Shards, NEW r \in Runs, r = orch[o].run
                     PROVE  ToCome(r, s)'
            BY DEF Unfinished
        <3> QED BY <2>3, <2>4 DEF ToCome
    <2> QED BY <2>5, <2>6
<1>2. CASE Dispatch(o)
    <2> DEFINE x == [run |-> orch[o].run, shard |-> orch[o].shard]
    <2>1. orch[o].at = "fanout" /\ NextShard(o) /\ loadJobs' = Append(loadJobs, x)
        BY <1>2 DEF Dispatch
    <2>2. orch[o].run \in Runs /\ orch[o].shard \in Shards
        BY <1>a, <2>1 DEF OrchCall
    <2>3. /\ orch'[o].at = IF orch[o].shard + 1 = TotalShards THEN "wait" ELSE "fanout"
          /\ orch'[o].run = orch[o].run /\ orch'[o].shard = orch[o].shard + 1
          /\ \A p \in Orchestrators : p # o => orch'[p] = orch[p]
        BY <1>a, <2>1 DEF NextShard
    <2>4. x.run = orch[o].run /\ x.shard = orch[o].shard
        OBVIOUS
    <2> HIDE DEF x
    <2>5. /\ Len(loadJobs) + 1 \in 1 .. Len(loadJobs') /\ loadJobs'[Len(loadJobs) + 1] = x
          /\ \A i \in 1 .. Len(loadJobs) : i \in 1 .. Len(loadJobs') /\ loadJobs'[i] = loadJobs[i]
        BY <1>a, <2>1, AppendElements
    <2>6. \A r, s : Dispatched(r, s) => Dispatched(r, s)'
        BY <2>5 DEF Dispatched
    <2>7. ASSUME NEW r \in Runs, NEW s \in Shards, ToCome(r, s)
          PROVE  Unfinished(r, s)'
        <3>1. PICK p \in Orchestrators : orch[p].at = "fanout" /\ orch[p].run = r /\ orch[p].shard <= s
            BY <2>7 DEF ToCome
        <3>2. CASE p # o
            <4>1. ToCome(r, s)'
                BY <2>3, <3>1, <3>2 DEF ToCome
            <4> QED BY <4>1 DEF Unfinished
        <3>3. CASE p = o /\ orch[o].shard = s
            <4>1. x.run = r /\ x.shard = s
                BY <2>4, <3>1, <3>3
            <4>2. Dispatched(r, s)'
                BY <2>5, <4>1 DEF Dispatched
            <4> QED BY <4>2 DEF Unfinished
        <3>4. CASE p = o /\ orch[o].shard # s
            <4>1. orch[o].shard + 1 <= s /\ orch[o].shard + 1 # TotalShards
                BY <1>a, <2>2, <3>1, <3>4 DEF Shards
            <4>2. ToCome(r, s)'
                BY <2>3, <3>1, <3>4, <4>1 DEF ToCome
            <4> QED BY <4>2 DEF Unfinished
        <3> QED BY <3>2, <3>3, <3>4
    <2>8. FanOutWhole'
        BY <2>3 DEF FanOutWhole
    <2> QED BY <1>2, <2>1, <2>6, <2>7, <2>8 DEF Unfinished, StartLoad
<1>3. CASE ClaimRun(o)
    <2> DEFINE c == [at |-> "claimed", run |-> Head(runsJobs), shard |-> 0]
    <2>1. orch' = [orch EXCEPT ![o] = c] /\ UNCHANGED loadJobs /\ orch[o].at = "idle"
        BY <1>3, <1>a DEF ClaimRun
    <2>2. c.at = "claimed" /\ c.shard = 0
        OBVIOUS
    <2> HIDE DEF c
    <2> QED BY <1>b, <2>1, <2>2 DEF StartLoad
<1>4. CASE BuildFails(o) \/ Teardown(o)
    BY <1>4, <1>a, <1>b DEF BuildFails, Teardown, busVars, StartLoad
<1>5. CASE \/ StartBuild(o) \/ BuildSucceeds(o) \/ SandboxFails(o) \/ SandboxStarts(o)
           \/ NeverHealthy(o) \/ Healthy(o) \/ Probe(o) \/ SeeVerdict(o)
    BY <1>5, <1>c DEF StartBuild, BuildSucceeds, SandboxFails, SandboxStarts, NeverHealthy,
       Healthy, Probe, SeeVerdict, busVars, StartLoad
<1> QED BY <1>1, <1>2, <1>3, <1>4, <1>5 DEF OrchStep

(* What a call of finalize() in the main goroutine works on. *)
LEMMA MainRun ==
    ASSUME TypeOK
    PROVE  /\ thread \in [Thread -> {Looping} \cup ThreadCall] /\ "main" \in Thread
           /\ Finalizing = Unscored \cup Scored
           /\ thread["main"].at \in Unscored \cup Scored \cup {"live"} =>
                 thread["main"].run \in Runs /\ thread["main"] \in ThreadCall
           /\ "loop" \notin Unscored \cup Scored \cup {"live"}
           /\ Looping.at = "loop" /\ Looping.run = NoRun
BY DEF TypeOK, IngTypeOK, Looping, ThreadCall, Thread, Unscored, Scored, Finalizing

LEMMA CalmGateway ==
    ASSUME Known, CalmLife, NEW x \in Runs, StoreRun(x) \/ EnqueueRun(x),
           UNCHANGED <<orchVars, fleet, ingVars>>
    PROVE  CalmLife'
<1>1. UNCHANGED <<orch, loadJobs, teleRaw>>
    BY DEF StoreRun, EnqueueRun, orchVars
<1>2. \A r \in Runs : \/ run'[r].status = run[r].status
                      \/ run[r].status = "none" /\ run'[r].status = "queued"
    <2>1. CASE StoreRun(x)
        <3>1. run[x].status = "none" /\ SetStatus(x, "queued")
            BY <2>1 DEF StoreRun, Known, RunLife, OneToken, RequestsStand
        <3> QED BY <3>1, StatusWritten DEF Known, TypeOK
    <2>2. CASE EnqueueRun(x)
        BY <2>2 DEF EnqueueRun
    <2> QED BY <2>1, <2>2
<1>3. \A r \in Runs : \/ run'[r].status = run[r].status
                      \/ {run[r].status, run'[r].status} \cap {"load", "done", "failed"} = {}
    BY <1>2
<1> QED BY <1>1, <1>3, CalmStays, MainRun DEF Known

LEMMA CalmOrch ==
    ASSUME Known, CalmLife, NEW o \in Orchestrators, OrchStep(o), ~DispatchLost(o), ~GiveUp(o),
           UNCHANGED <<request, fleet, ingVars>>
    PROVE  CalmLife'
<1>a. UNCHANGED teleRaw
    BY DEF OrchStep, ClaimRun, StartBuild, BuildFails, BuildSucceeds, SandboxFails,
       SandboxStarts, NeverHealthy, Healthy, Probe, StartLoad, Dispatch, DispatchLost,
       SeeVerdict, GiveUp, Teardown, busVars
<1>1. Pipe' = Pipe /\ UNCHANGED <<runs, stale, thread>>
    BY <1>a DEF Pipe, ingVars, memoryVars
<1>2. /\ FanOutWhole'
      /\ \A r \in Runs, s \in Shards :
            Unfinished(r, s) \/ (StartLoad(o) /\ r = orch[o].run) => Unfinished(r, s)'
    BY OrchLosesNothing DEF CalmLife
<1>3. \A r \in Runs, s \in Shards :
          Unfinished(r, s)' => Unfinished(r, s) \/ (StartLoad(o) /\ r = orch[o].run)
    BY OrchShards DEF Known, ShardsInOrder
<1>4. \A r \in Runs :
          \/ run'[r].status = run[r].status
          \/ /\ r = orch[o].run /\ StartLoad(o)
             /\ run[r].status = "conformance" /\ run'[r].status = "load"
          \/ /\ r = orch[o].run /\ ~StartLoad(o)
             /\ run[r].status \in {"queued", "building"}
             /\ run'[r].status \in {"building", "conformance", "failed"}
    BY OrchWrites
<1>5. NothingLost'
    <2> SUFFICES ASSUME NEW r \in Runs, NEW s \in Shards, run'[r].status = "load"
                 PROVE  \/ Unfinished(r, s)'
                        \/ \E i \in 1 .. Len(Pipe) : IsOf(Pipe[i], r, s) /\ Pipe[i].final
                        \/ s \in runs[r].finalShards
        BY <1>1 DEF NothingLost, IsOf
    <2> QED BY <1>2, <1>4 DEF CalmLife, NothingLost
<1>6. NothingAfter'
    <2> SUFFICES ASSUME NEW r \in Runs, run'[r].status \in {"done", "failed"}
                 PROVE  /\ \A s \in Shards : /\ ~Unfinished(r, s)'
                                             /\ \A i \in 1 .. Len(Pipe) : ~IsOf(Pipe[i], r, s)
                        /\ runs[r] # NoAgg => MainHas(r, Scored)
        BY <1>1 DEF NothingAfter, Over, Finished, Gone, IsOf, MainHas
    <2>1. ~(StartLoad(o) /\ r = orch[o].run)
        <3> SUFFICES ASSUME StartLoad(o), r = orch[o].run
                     PROVE  FALSE
            OBVIOUS
        <3>1. run'[r].status = "load"
            BY StatusWritten DEF StartLoad, Known, TypeOK
        <3> QED BY <3>1
    <2>2. CASE run'[r].status = run[r].status
        BY <1>3, <2>1, <2>2 DEF CalmLife, NothingAfter, Over, Finished, Gone
    <2>3. CASE run[r].status \in {"queued", "building"}
        <3>1. r \notin Downstream
            BY <2>3 DEF Known, RunLife, Loaded, Phase
        <3>2. \A s \in Shards : ~ToCome(r, s)
            <4> SUFFICES ASSUME NEW p \in Orchestrators, orch[p].at = "fanout", orch[p].run = r
                         PROVE  FALSE
                BY DEF ToCome
            <4>1. run[r].status \in {"load", "done", "failed"}
                BY DEF Known, RunLife, OneToken, HandlersStand, StatusAt
            <4> QED BY <2>3, <4>1
        <3>3. \A s \in Shards : ~Dispatched(r, s)
            BY <3>1 DEF Downstream, Dispatched
        <3>4. \A s \in Shards : ~Unfinished(r, s)'
            BY <1>3, <2>1, <3>2, <3>3 DEF Unfinished
        <3> QED BY <3>1, <3>4 DEF Downstream, IsOf
    <2> QED BY <1>4, <2>1, <2>2, <2>3
<1>7. OneJudge'
    <2>1. \A r \in Runs : run[r].status \in {"load", "done"} => run'[r].status = run[r].status
        BY <1>4
    <2>2. thread["main"].at \in Unscored \cup {"live"} => run'[thread["main"].run].status = "load"
        BY <2>1, MainRun DEF CalmLife, OneJudge, Known
    <2>3. thread["main"].at \in Scored => run'[thread["main"].run].status = "done"
        BY <2>1, MainRun DEF CalmLife, OneJudge, Known
    <2> QED BY <1>1, <2>2, <2>3 DEF CalmLife, OneJudge, Looping, NoRows
<1> QED BY <1>2, <1>5, <1>6, <1>7 DEF CalmLife

(* A replica loses nothing: a shard it lets go of has its final batch on   *)
(* the way, and a batch is sent of an unfinished shard only.               *)
LEMMA FleetLosesNothing ==
    ASSUME Calm, Known, NEW f \in Replicas, FleetStep(f), UNCHANGED <<orch, inbox>>
    PROVE  /\ \A r \in Runs, s \in Shards : Unfinished(r, s) =>
                 \/ Unfinished(r, s)'
                 \/ \E i \in 1 .. Len(Pipe') : IsOf(Pipe'[i], r, s) /\ Pipe'[i].final
           /\ \A i \in 1 .. Len(Pipe) : i \in 1 .. Len(Pipe') /\ Pipe'[i] = Pipe[i]
           /\ \A r \in Runs, s \in Shards, i \in 1 .. Len(Pipe') : IsOf(Pipe'[i], r, s) =>
                 \/ i \in 1 .. Len(Pipe) /\ Pipe'[i] = Pipe[i]
                 \/ Unfinished(r, s)
<1>a. /\ fleet \in [Replicas -> {NoShard} \cup [run : Runs, shard : Shards, n : 0 .. MaxFlush]]
      /\ loadJobs \in Seq(LoadShard) /\ Len(loadJobs) \in Nat
      /\ NoShard.run \notin Runs
    BY BusAssumption DEF Known, TypeOK, FleetTypeOK, BusTypeOK, NoShard
<1>b. Len(Pipe) \in Nat /\ Len(Pipe') \in Nat
    BY DEF Known, TypeOK, BusTypeOK, IngTypeOK, Pipe, FleetStep, ClaimShard, FlushDelta,
       FlushFinal, Send, Fault
<1>c. \A r, s : ToCome(r, s)' <=> ToCome(r, s)
    BY DEF ToCome
<1>1. CASE ClaimShard(f)
    <2>1. Pipe' = Pipe
        BY <1>1 DEF ClaimShard, Pipe
    <2>2. /\ fleet[f] = NoShard /\ loadJobs # <<>> /\ loadJobs' = Tail(loadJobs)
          /\ fleet'[f].run = Head(loadJobs).run /\ fleet'[f].shard = Head(loadJobs).shard
          /\ \A g \in Replicas : g # f => fleet'[g] = fleet[g]
        BY <1>1, <1>a DEF ClaimShard
    <2>3. /\ Head(loadJobs) = loadJobs[1]
          /\ Len(loadJobs') = Len(loadJobs) - 1
          /\ \A i \in 1 .. Len(loadJobs') : loadJobs'[i] = loadJobs[i + 1]
        BY <1>a, <2>2, TailElements
    <2>4. ASSUME NEW r \in Runs, NEW s \in Shards, Dispatched(r, s)
          PROVE  Dispatched(r, s)'
        <3>1. CASE \E g \in Replicas : fleet[g].run = r /\ fleet[g].shard = s
            BY <1>a, <2>2, <3>1 DEF Dispatched
        <3>2. ASSUME NEW i \in 1 .. Len(loadJobs), loadJobs[i].run = r, loadJobs[i].shard = s
              PROVE  Dispatched(r, s)'
            <4>1. CASE i = 1
                BY <2>2, <2>3, <3>2, <4>1 DEF Dispatched
            <4>2. CASE i # 1
                <5>1. i - 1 \in 1 .. Len(loadJobs') /\ (i - 1) + 1 = i
                    BY <1>a, <2>3, <4>2
                <5>2. loadJobs'[i - 1] = loadJobs[i]
                    BY <2>3, <5>1
                <5> QED BY <3>2, <5>1, <5>2 DEF Dispatched
            <4> QED BY <4>1, <4>2
        <3> QED BY <2>4, <3>1, <3>2 DEF Dispatched
    <2> QED BY <1>c, <2>1, <2>4 DEF Unfinished
<1>2. ASSUME NEW final \in BOOLEAN, fleet[f] # NoShard, Send(f, final), loadJobs' = loadJobs,
             \A g \in Replicas : \/ /\ fleet'[g].run = fleet[g].run
                                    /\ fleet'[g].shard = fleet[g].shard
                                 \/ g = f /\ final
      PROVE  /\ \A r \in Runs, s \in Shards : Unfinished(r, s) =>
                   \/ Unfinished(r, s)'
                   \/ \E i \in 1 .. Len(Pipe') : IsOf(Pipe'[i], r, s) /\ Pipe'[i].final
             /\ \A i \in 1 .. Len(Pipe) : i \in 1 .. Len(Pipe') /\ Pipe'[i] = Pipe[i]
             /\ \A r \in Runs, s \in Shards, i \in 1 .. Len(Pipe') : IsOf(Pipe'[i], r, s) =>
                   \/ i \in 1 .. Len(Pipe) /\ Pipe'[i] = Pipe[i]
                   \/ Unfinished(r, s)
    <2> DEFINE b == [run |-> fleet[f].run, shard |-> fleet[f].shard, n |-> fleet[f].n,
                     final |-> final]
    <2>1. teleRaw' = Append(teleRaw, b)
        BY <1>2 DEF Send, Fault, Calm
    <2>2. Len(Pipe') # Len(Pipe)
        <3>1. inbox \in Seq(TelemetryBatch) /\ teleRaw \in Seq(TelemetryBatch) /\ b \in TelemetryBatch
            BY <1>2 DEF Known, TypeOK, BusTypeOK, IngTypeOK, FleetTypeOK, TelemetryBatch
        <3> HIDE DEF b
        <3> QED BY <2>1, <3>1 DEF Pipe
    <2>3. /\ Len(Pipe') = Len(Pipe) + 1
          /\ \A i \in 1 .. Len(Pipe) : Pipe'[i] = Pipe[i]
          /\ Pipe'[Len(Pipe) + 1] = b
        BY <1>2, <2>2, FleetSends DEF Known
    <2>4. b.run = fleet[f].run /\ b.shard = fleet[f].shard /\ b.final = final
        OBVIOUS
    <2> HIDE DEF b
    <2>5. Unfinished(fleet[f].run, fleet[f].shard)
        BY DEF Unfinished, Dispatched
    <2>6. ASSUME NEW r \in Runs, NEW s \in Shards, Unfinished(r, s)
          PROVE  \/ Unfinished(r, s)'
                 \/ \E i \in 1 .. Len(Pipe') : IsOf(Pipe'[i], r, s) /\ Pipe'[i].final
        <3>1. CASE fleet[f].run = r /\ fleet[f].shard = s /\ final
            <4>1. Len(Pipe) + 1 \in 1 .. Len(Pipe')
                BY <1>b, <2>3
            <4> QED BY <2>3, <2>4, <3>1, <4>1 DEF IsOf
        <3>2. CASE ~(fleet[f].run = r /\ fleet[f].shard = s /\ final)
            BY <1>2, <1>c, <2>6, <3>2 DEF Unfinished, Dispatched
        <3> QED BY <3>1, <3>2
    <2>7. ASSUME NEW r \in Runs, NEW s \in Shards, NEW i \in 1 .. Len(Pipe'), IsOf(Pipe'[i], r, s)
          PROVE  (i \in 1 .. Len(Pipe) /\ Pipe'[i] = Pipe[i]) \/ Unfinished(r, s)
        <3>1. i \in 1 .. Len(Pipe) \/ i = Len(Pipe) + 1
            BY <1>b, <2>3
        <3>2. CASE i = Len(Pipe) + 1
            BY <2>3, <2>4, <2>5, <2>7, <3>2 DEF IsOf
        <3> QED BY <2>3, <3>1, <3>2
    <2>8. \A i \in 1 .. Len(Pipe) : i \in 1 .. Len(Pipe')
        BY <1>b, <2>3
    <2> QED BY <2>3, <2>6, <2>7, <2>8
<1>3. CASE FlushDelta(f)
    <2>1. \A g \in Replicas : fleet'[g].run = fleet[g].run /\ fleet'[g].shard = fleet[g].shard
        BY <1>3, <1>a DEF FlushDelta
    <2> QED BY <1>2, <1>3, <2>1 DEF FlushDelta
<1>4. CASE FlushFinal(f)
    <2>1. \A g \in Replicas : \/ fleet'[g].run = fleet[g].run /\ fleet'[g].shard = fleet[g].shard
                              \/ g = f
        BY <1>4, <1>a DEF FlushFinal
    <2> QED BY <1>2, <1>4, <2>1 DEF FlushFinal
<1> QED BY <1>1, <1>3, <1>4 DEF FleetStep

LEMMA CalmFleet ==
    ASSUME Calm, Known, CalmLife, NEW f \in Replicas, FleetStep(f),
           UNCHANGED <<request, orchVars, ingVars>>
    PROVE  CalmLife'
<1>1. UNCHANGED <<run, orch, inbox, runs, stale, thread>>
    BY DEF FleetStep, ClaimShard, FlushDelta, FlushFinal, orchVars, ingVars, memoryVars
<1>2. /\ \A r \in Runs, s \in Shards : Unfinished(r, s) =>
            \/ Unfinished(r, s)'
            \/ \E i \in 1 .. Len(Pipe') : IsOf(Pipe'[i], r, s) /\ Pipe'[i].final
      /\ \A i \in 1 .. Len(Pipe) : i \in 1 .. Len(Pipe') /\ Pipe'[i] = Pipe[i]
      /\ \A r \in Runs, s \in Shards, i \in 1 .. Len(Pipe') : IsOf(Pipe'[i], r, s) =>
            \/ i \in 1 .. Len(Pipe) /\ Pipe'[i] = Pipe[i]
            \/ Unfinished(r, s)
    BY <1>1, FleetLosesNothing
<1>3. \A r \in Runs, s \in Shards : Unfinished(r, s)' => Unfinished(r, s)
    BY <1>1, FleetShards DEF Known, ShardsInOrder
<1>4. FanOutWhole'
    BY <1>1 DEF CalmLife, FanOutWhole
<1>5. NothingLost'
    <2> SUFFICES ASSUME NEW r \in Runs, NEW s \in Shards, run[r].status = "load"
                 PROVE  \/ Unfinished(r, s)'
                        \/ \E i \in 1 .. Len(Pipe') : IsOf(Pipe'[i], r, s) /\ Pipe'[i].final
                        \/ s \in runs[r].finalShards
        BY <1>1 DEF NothingLost, IsOf
    <2> QED BY <1>2 DEF CalmLife, NothingLost
<1>6. NothingAfter'
    <2> SUFFICES ASSUME NEW r \in Runs, Over(r)
                 PROVE  /\ \A s \in Shards : /\ ~Unfinished(r, s)'
                                             /\ \A i \in 1 .. Len(Pipe') : ~IsOf(Pipe'[i], r, s)
                        /\ runs[r] # NoAgg => MainHas(r, Scored)
        BY <1>1 DEF NothingAfter, Over, Finished, Gone, IsOf, MainHas
    <2>1. \A s \in Shards : ~Unfinished(r, s) /\ \A i \in 1 .. Len(Pipe) : ~IsOf(Pipe[i], r, s)
        BY DEF CalmLife, NothingAfter, Finished, Gone
    <2> QED BY <1>2, <1>3, <2>1 DEF CalmLife, NothingAfter
<1>7. OneJudge'
    BY <1>1 DEF CalmLife, OneJudge, Looping, NoRows
<1> QED BY <1>4, <1>5, <1>6, <1>7 DEF CalmLife

(* A step of the main goroutine that takes no batch and stays on the same  *)
(* side of the verdict.                                                    *)
LEMMA CalmMainStays ==
    ASSUME Known, CalmLife, UNCHANGED <<run, orch, fleet, loadJobs, runs, stale>>,
           thread'["sweep"] = thread["sweep"],
           thread'["main"] = Looping \/
              /\ thread'["main"].run = thread["main"].run
              /\ \/ {thread["main"].at, thread'["main"].at} \subseteq Unscored
                 \/ {thread["main"].at, thread'["main"].at} \subseteq Scored,
           thread'["main"] = Looping => thread["main"].at \notin Scored,
           Len(Pipe') = Len(Pipe), \A i \in 1 .. Len(Pipe') : Pipe'[i] = Pipe[i]
    PROVE  CalmLife'
<1>a. \A r, s : Unfinished(r, s)' <=> Unfinished(r, s)
    BY DEF Unfinished, ToCome, Dispatched
<1>1. FanOutWhole'
    BY DEF CalmLife, FanOutWhole
<1>2. NothingLost'
    <2> SUFFICES ASSUME NEW r \in Runs, NEW s \in Shards, run[r].status = "load"
                 PROVE  \/ Unfinished(r, s)
                        \/ \E i \in 1 .. Len(Pipe') : IsOf(Pipe'[i], r, s) /\ Pipe'[i].final
                        \/ s \in runs[r].finalShards
        BY <1>a DEF NothingLost, IsOf
    <2> QED BY DEF CalmLife, NothingLost
<1>3. NothingAfter'
    <2> SUFFICES ASSUME NEW r \in Runs, Over(r)
                 PROVE  /\ \A s \in Shards : /\ ~Unfinished(r, s)
                                             /\ \A i \in 1 .. Len(Pipe') : ~IsOf(Pipe'[i], r, s)
                        /\ runs[r] # NoAgg => thread'["main"].run = r /\ thread'["main"].at \in Scored
        BY <1>a DEF NothingAfter, Over, Finished, Gone, IsOf, MainHas
    <2>1. \A s \in Shards : /\ ~Unfinished(r, s)
                            /\ \A i \in 1 .. Len(Pipe') : ~IsOf(Pipe'[i], r, s)
        BY DEF CalmLife, NothingAfter, Finished, Gone
    <2>2. runs[r] # NoAgg => thread["main"].run = r /\ thread["main"].at \in Scored
        BY DEF CalmLife, NothingAfter, MainHas
    <2>3. \A at \in Scored : at \notin Unscored
        BY DEF Scored, Unscored
    <2> QED BY <2>1, <2>2, <2>3
<1>4. OneJudge'
    <2>1. "loop" \notin Unscored \cup Scored \cup {"live"} /\ Looping.at = "loop"
        BY MainRun DEF Known
    <2>2. /\ thread'["main"].at \in Unscored \cup {"live"} => run[thread'["main"].run].status = "load"
          /\ thread'["main"].at \in Scored => run[thread'["main"].run].status = "done"
        <3>1. \A at \in Scored : at \notin Unscored \cup {"live"}
            BY DEF Scored, Unscored
        <3> QED BY <2>1, <3>1 DEF CalmLife, OneJudge
    <2> QED BY <2>2 DEF CalmLife, OneJudge, Looping, NoRows
<1> QED BY <1>1, <1>2, <1>3, <1>4 DEF CalmLife

LEMMA CalmAbsorb ==
    ASSUME Known, CalmLife, Absorb, UNCHANGED <<orch, fleet>>
    PROVE  CalmLife' /\ run[Head(inbox).run].status = "load"
<1> DEFINE b   == Head(inbox)
           agg == Merge(runs[b.run], b)
<1>a. /\ inbox # <<>> /\ inbox' = Tail(inbox) /\ UNCHANGED <<run, loadJobs, teleRaw, stale>>
      /\ thread["main"].at = "loop" /\ ~runs[b.run].finalized
      /\ runs' = [runs EXCEPT ![b.run] = [agg EXCEPT !.finalized = Complete(agg)]]
    BY DEF Absorb, busVars
<1>b. runs \in [Runs -> Agg] /\ b \in TelemetryBatch
    BY <1>a DEF Known, TypeOK, IngTypeOK
<1>c. b.run \in Runs /\ b.shard \in Shards /\ runs[b.run] \in Agg
    BY <1>b DEF TelemetryBatch
<1>d. /\ thread'["main"].at = (IF Complete(agg) THEN "compute" ELSE "live")
      /\ thread'["main"].run = b.run /\ thread'["sweep"] = thread["sweep"]
    BY MainRun DEF Absorb, Known, Thread, Looping
<1>e. /\ 1 \in 1 .. Len(Pipe) /\ Pipe[1] = b /\ Len(Pipe) = Len(Pipe') + 1
      /\ \A i \in 1 .. Len(Pipe') : Pipe'[i] = Pipe[i + 1]
    BY <1>a, AbsorbTakes DEF Known
<1>f. Len(Pipe) \in Nat /\ Len(Pipe') \in Nat
    BY <1>e DEF Known, TypeOK, BusTypeOK, IngTypeOK, Pipe
<1>g. \A r, s : Unfinished(r, s)' <=> Unfinished(r, s)
    BY <1>a DEF Unfinished, ToCome, Dispatched
<1>h. /\ agg.finalShards = IF b.final THEN runs[b.run].finalShards \cup {b.shard}
                                      ELSE runs[b.run].finalShards
      /\ [agg EXCEPT !.finalized = Complete(agg)].finalShards = agg.finalShards
      /\ [agg EXCEPT !.finalized = Complete(agg)].finalized = Complete(agg)
    BY <1>c DEF Merge, Agg
<1> HIDE DEF b, agg
<1>1. run[b.run].status = "load"
    <2>1. b.run \in Loaded
        BY <1>c, <1>e DEF Known, RunLife, Downstream
    <2>2. run[b.run].status \in {"load", "done", "failed"}
        BY <2>1 DEF Loaded, Phase, Known, TypeOK, BusTypeOK, RunHash, Status
    <2>3. ~Over(b.run)
        BY <1>c, <1>e DEF CalmLife, NothingAfter, Finished, Gone, IsOf
    <2> QED BY <2>2, <2>3 DEF Over
<1>2. \A r \in Runs : runs[r].finalShards \subseteq runs'[r].finalShards
    BY <1>a, <1>b, <1>c, <1>h
<1>3. \A r \in Runs : r # b.run => runs'[r] = runs[r]
    BY <1>a, <1>b
<1>4. FanOutWhole'
    BY DEF CalmLife, FanOutWhole
<1>5. NothingLost'
    <2> SUFFICES ASSUME NEW r \in Runs, NEW s \in Shards, run[r].status = "load"
                 PROVE  \/ Unfinished(r, s)
                        \/ \E i \in 1 .. Len(Pipe') : IsOf(Pipe'[i], r, s) /\ Pipe'[i].final
                        \/ s \in runs'[r].finalShards
        BY <1>a, <1>g DEF NothingLost, IsOf
    <2>1. ASSUME NEW i \in 1 .. Len(Pipe), IsOf(Pipe[i], r, s), Pipe[i].final
          PROVE  \/ \E j \in 1 .. Len(Pipe') : IsOf(Pipe'[j], r, s) /\ Pipe'[j].final
                 \/ s \in runs'[r].finalShards
        <3>1. CASE i = 1
            BY <1>a, <1>b, <1>c, <1>e, <1>h, <2>1, <3>1 DEF IsOf
        <3>2. CASE i # 1
            <4>1. i - 1 \in 1 .. Len(Pipe') /\ (i - 1) + 1 = i
                BY <1>e, <1>f, <3>2
            <4>2. Pipe'[i - 1] = Pipe[i]
                BY <1>e, <4>1
            <4> QED BY <2>1, <4>1, <4>2
        <3> QED BY <3>1, <3>2
    <2> QED BY <1>2, <2>1 DEF CalmLife, NothingLost
<1>6. NothingAfter'
    <2> SUFFICES ASSUME NEW r \in Runs, Over(r)
                 PROVE  /\ \A s \in Shards : /\ ~Unfinished(r, s)
                                             /\ \A i \in 1 .. Len(Pipe') : ~IsOf(Pipe'[i], r, s)
                        /\ runs'[r] = NoAgg
        BY <1>a, <1>g DEF NothingAfter, Over, Finished, Gone, IsOf, MainHas
    <2>1. \A i \in 1 .. Len(Pipe') : i + 1 \in 1 .. Len(Pipe)
        BY <1>e, <1>f
    <2>2. \A s \in Shards : ~Unfinished(r, s) /\ \A i \in 1 .. Len(Pipe) : ~IsOf(Pipe[i], r, s)
        BY DEF CalmLife, NothingAfter, Finished, Gone
    <2>3. runs[r] = NoAgg
        BY <1>a DEF CalmLife, NothingAfter, MainHas, Scored
    <2>4. r # b.run
        BY <1>1 DEF Over
    <2> QED BY <1>3, <1>e, <2>1, <2>2, <2>3, <2>4
<1>7. OneJudge'
    <2>1. \A r \in Runs : runs'[r].finalShards = Shards => runs'[r].finalized
        <3>1. agg.finalShards = Shards => Complete(agg)
            BY ShardCount, BusAssumption DEF Complete
        <3>2. runs'[b.run].finalShards = agg.finalShards /\ runs'[b.run].finalized = Complete(agg)
            BY <1>a, <1>b, <1>c, <1>h
        <3> QED BY <1>3, <3>1, <3>2 DEF CalmLife, OneJudge
    <2>2. /\ thread'["main"].at \in Unscored \cup {"live"} => run'[thread'["main"].run].status = "load"
          /\ thread'["main"].at \notin Scored
        BY <1>1, <1>a, <1>d DEF Scored
    <2> QED BY <1>a, <1>d, <2>1, <2>2 DEF CalmLife, OneJudge, Looping, NoRows
<1> QED BY <1>1, <1>4, <1>5, <1>6, <1>7 DEF CalmLife, b

LEMMA CalmMain ==
    ASSUME Known, CalmLife, MainStep, UNCHANGED <<request, orchVars, fleet>>
    PROVE  CalmLife'
<1> DEFINE m == thread["main"]
<1>a. /\ thread \in [Thread -> {Looping} \cup ThreadCall]
      /\ "main" \in Thread /\ "sweep" \in Thread /\ "sweep" # "main"
      /\ Finalizing = Unscored \cup Scored
      /\ m.at \in Unscored \cup Scored \cup {"live"} => m.run \in Runs /\ m \in ThreadCall
    BY MainRun DEF Known, Thread
<1>b. UNCHANGED <<orch, fleet, loadJobs>>
    BY DEF MainStep, ReadBatches, AbsorbLate, Absorb, Live, FinalizeStep, ComputeScore,
       WriteResult, WriteDone, CompareBest, AddToBoard, SetBest, ReadRows, Publish, Persist,
       DropAggregate, busVars, orchVars
<1>c. /\ {"loop", "live"} \cap Scored = {}
      /\ {"compute", "result", "done"} = Unscored
      /\ {"zscore", "zadd", "best", "rows", "publish", "archive", "delete"} = Scored
    BY DEF Scored, Unscored
<1>d. ASSUME UNCHANGED <<inbox, teleRaw>>
      PROVE  Len(Pipe') = Len(Pipe) /\ \A i \in 1 .. Len(Pipe') : Pipe'[i] = Pipe[i]
    BY <1>d DEF Pipe
<1>e. \A r, s : Unfinished(r, s)' <=> Unfinished(r, s)
    BY <1>b DEF Unfinished, ToCome, Dispatched
<1>1. CASE ReadBatches
    <2>1. UNCHANGED <<run, runs, stale, thread>> /\ m.at = "loop" /\ m = Looping
        BY <1>1, <1>a DEF ReadBatches, ThreadCall, Finalizing
    <2> QED BY <1>1, <1>b, <1>c, <2>1, ReadKeepsPipe, CalmMainStays DEF Known
<1>2. ~AbsorbLate
    <2> SUFFICES ASSUME AbsorbLate PROVE FALSE
        OBVIOUS
    <2>1. /\ inbox # <<>> /\ runs[Head(inbox).run].finalized
          /\ thread["main"].at = "loop" /\ thread["sweep"].at = "loop" /\ stale = {}
        BY DEF AbsorbLate, CalmLife, OneJudge, Looping
    <2>2. Head(inbox) \in TelemetryBatch
        BY <2>1 DEF Known, TypeOK, IngTypeOK
    <2>3. Head(inbox).run \in Runs
        BY <2>2 DEF TelemetryBatch
    <2> QED BY <2>1, <2>3 DEF Known, OneOwnerPerVerdict, Thread, Finalizing
<1>3. CASE Absorb
    BY <1>3, <1>b, CalmAbsorb
<1>4. CASE Live
    <2>1. /\ UNCHANGED <<run, runs, stale, inbox, teleRaw>> /\ m.at = "live"
          /\ thread'["main"] = Looping /\ thread'["sweep"] = thread["sweep"]
        BY <1>4, <1>a DEF Live, busVars
    <2> QED BY <1>b, <1>c, <1>d, <2>1, CalmMainStays
<1>5. CASE ComputeScore("main") \/ WriteResult("main")
    <2>1. /\ UNCHANGED <<run, runs, stale, inbox, teleRaw>>
          /\ {m.at, thread'["main"].at} \subseteq Unscored /\ thread'["main"].run = m.run
          /\ thread'["sweep"] = thread["sweep"]
        <3>1. m.at \in {"compute", "result"}
            BY <1>5 DEF ComputeScore, WriteResult, Step
        <3>2. m \in ThreadCall
            BY <1>a, <1>c, <3>1
        <3>3. CASE ComputeScore("main")
            BY <3>3, <1>a, <1>c, <3>2 DEF ComputeScore, busVars, ThreadCall
        <3>4. CASE WriteResult("main")
            BY <3>4, <1>a, <1>c, <3>2 DEF WriteResult, Step, busVars, ThreadCall
        <3> QED BY <1>5, <3>3, <3>4
    <2>2. thread'["main"] # Looping
        BY <2>1, MainRun DEF Known
    <2> QED BY <1>b, <1>c, <1>d, <2>1, <2>2, CalmMainStays
<1>6. CASE \/ CompareBest("main") \/ AddToBoard("main") \/ SetBest("main") \/ ReadRows("main")
           \/ Publish("main") \/ Persist("main")
    <2>1. /\ UNCHANGED <<run, runs, stale, inbox, teleRaw>>
          /\ {m.at, thread'["main"].at} \subseteq Scored /\ thread'["main"].run = m.run
          /\ thread'["sweep"] = thread["sweep"]
        BY <1>6, <1>a, <1>c DEF CompareBest, AddToBoard, SetBest, ReadRows, Publish, Persist,
           Step, busVars, ThreadCall
    <2>2. thread'["main"] # Looping
        BY <2>1, MainRun DEF Known
    <2> QED BY <1>b, <1>c, <1>d, <2>1, <2>2, CalmMainStays
<1>7. CASE WriteDone("main")
    <2>1. /\ UNCHANGED <<runs, stale, inbox, teleRaw>> /\ SetStatus(m.run, "done")
          /\ m.at = "done" /\ m.at \in Unscored /\ m.at \notin Scored /\ m.run \in Runs
          /\ thread'["main"].at = "zscore" /\ thread'["main"].run = m.run
          /\ thread'["sweep"] = thread["sweep"]
        BY <1>7, <1>a, <1>c DEF WriteDone, Step, ThreadCall
    <2>2. run'[m.run].status = "done" /\ \A r \in Runs : r # m.run => run'[r] = run[r]
        BY <2>1, StatusWritten DEF Known, TypeOK
    <2>3. Pipe' = Pipe
        BY <2>1 DEF Pipe
    <2>4. Finished(m.run)
        BY <1>a, <2>1 DEF Known, ShardsInOrder, AllFinal, FinalIsLast, Finished, Gone
    <2>5. FanOutWhole'
        BY <1>b DEF CalmLife, FanOutWhole
    <2>6. NothingLost'
        <3> SUFFICES ASSUME NEW r \in Runs, NEW s \in Shards, run'[r].status = "load"
                     PROVE  \/ Unfinished(r, s)
                            \/ \E i \in 1 .. Len(Pipe) : IsOf(Pipe[i], r, s) /\ Pipe[i].final
                            \/ s \in runs[r].finalShards
            BY <1>e, <2>1, <2>3 DEF NothingLost, IsOf
        <3> QED BY <2>2 DEF CalmLife, NothingLost
    <2>7. NothingAfter'
        <3> SUFFICES ASSUME NEW r \in Runs, run'[r].status \in {"done", "failed"}
                     PROVE  /\ Finished(r)
                            /\ runs[r] # NoAgg => r = m.run
            BY <1>c, <1>e, <2>1, <2>3 DEF NothingAfter, Over, Finished, Gone, IsOf, MainHas
        <3>1. CASE r = m.run
            BY <2>4, <3>1
        <3>2. CASE r # m.run
            BY <2>1, <2>2, <3>2 DEF CalmLife, NothingAfter, Over, MainHas
        <3> QED BY <3>1, <3>2
    <2>8. OneJudge'
        BY <1>c, <2>1, <2>2 DEF CalmLife, OneJudge, Looping, NoRows
    <2> QED BY <2>5, <2>6, <2>7, <2>8 DEF CalmLife
<1>8. CASE DropAggregate("main")
    <2>1. /\ UNCHANGED <<run, stale, inbox, teleRaw>> /\ m.at = "delete" /\ m.at \in Scored
          /\ runs' = [runs EXCEPT ![m.run] = NoAgg]
          /\ thread'["main"] = Looping /\ thread'["sweep"] = thread["sweep"]
        BY <1>8, <1>a, <1>c DEF DropAggregate, busVars
    <2>2. run[m.run].status = "done" /\ m.run \in Runs
        BY <1>a, <2>1 DEF CalmLife, OneJudge
    <2>3. runs'[m.run] = NoAgg /\ \A r \in Runs : r # m.run => runs'[r] = runs[r]
        BY <2>1, <2>2 DEF Known, TypeOK, IngTypeOK
    <2>4. Pipe' = Pipe
        BY <2>1 DEF Pipe
    <2>5. FanOutWhole'
        BY <1>b DEF CalmLife, FanOutWhole
    <2>6. NothingLost'
        <3> SUFFICES ASSUME NEW r \in Runs, NEW s \in Shards, run[r].status = "load"
                     PROVE  \/ Unfinished(r, s)
                            \/ \E i \in 1 .. Len(Pipe) : IsOf(Pipe[i], r, s) /\ Pipe[i].final
                            \/ s \in runs'[r].finalShards
            BY <1>e, <2>1, <2>4 DEF NothingLost, IsOf
        <3> QED BY <2>2, <2>3 DEF CalmLife, NothingLost
    <2>7. NothingAfter'
        <3> SUFFICES ASSUME NEW r \in Runs, Over(r)
                     PROVE  Finished(r) /\ runs'[r] = NoAgg
            BY <1>e, <2>1, <2>4 DEF NothingAfter, Over, Finished, Gone, IsOf, MainHas
        <3> QED BY <2>3 DEF CalmLife, NothingAfter, MainHas
    <2>8. OneJudge'
        <3>1. thread'["main"].at \notin Unscored \cup Scored \cup {"live"}
            BY <2>1, MainRun DEF Known
        <3>2. \A r \in Runs : runs'[r].finalShards = Shards => runs'[r].finalized
            <4>1. 0 \in Shards
                BY BusAssumption DEF Shards
            <4>2. NoAgg.finalShards # Shards
                BY <4>1 DEF NoAgg
            <4> QED BY <2>3, <4>2 DEF CalmLife, OneJudge
        <3> QED BY <2>1, <3>1, <3>2 DEF CalmLife, OneJudge, Looping, NoRows
    <2> QED BY <2>5, <2>6, <2>7, <2>8 DEF CalmLife
<1> QED BY <1>1, <1>2, <1>3, <1>4, <1>5, <1>6, <1>7, <1>8 DEF MainStep, FinalizeStep

(* Under the conditions no run is lost, none is decided twice, and nothing *)
(* of a run is left after its verdict.                                     *)
THEOREM CalmRunsAreWhole == Calm => (Spec => []CalmLife)
<1> SUFFICES ASSUME Calm PROVE Spec => []CalmLife
    OBVIOUS
<1>1. Init => CalmLife
    <2> SUFFICES ASSUME Init PROVE CalmLife
        OBVIOUS
    <2>1. \A r \in Runs : run[r].status = "none" /\ runs[r].finalShards = {}
        BY DEF Init, BusInit, IngInit, NoAgg
    <2>2. 0 \in Shards
        BY BusAssumption DEF Shards
    <2>3. thread["main"].at = "loop"
        BY DEF Init, IngInit, Looping, Thread
    <2> QED BY <2>1, <2>2, <2>3 DEF Init, OrchInit, IngInit, Thread, Idle, CalmLife, FanOutWhole,
           NothingLost, NothingAfter, OneJudge, Over, Unscored, Scored
<1>2. Known /\ CalmLife /\ [Next]_vars => CalmLife'
    <2> SUFFICES ASSUME Known, CalmLife, [Next]_vars PROVE CalmLife'
        OBVIOUS
    <2>1. CASE UNCHANGED vars
        <3>1. UNCHANGED <<run, orch, loadJobs, fleet, teleRaw, ingVars>>
            BY <2>1 DEF vars, busVars, orchVars
        <3> QED BY <3>1, CalmStays, MainRun DEF Known
    <2> QED BY <2>1, CalmSteps, CalmGateway, CalmOrch, CalmFleet, CalmMain
<1> QED BY <1>1, <1>2, ArenaTypes, VerdictsHaveOneOwner, RunsHaveOneLife, ShardsKeepOrder,
       PTL DEF Spec, Known

(* Under the conditions "done" and "failed" are the last status of a run:  *)
(* the deadline of waitForVerdict and the sweep never decide a run that    *)
(* the count of final batches decides too.                                 *)
THEOREM CalmTerminalIsFinal == Calm => (Spec => TerminalIsFinal)
<1> SUFFICES ASSUME Calm PROVE Spec => TerminalIsFinal
    OBVIOUS
<1>1. Known /\ CalmLife /\ [Next]_vars =>
          [\A r \in Runs : run[r].status \in {"done", "failed"} =>
              run'[r].status = run[r].status]_vars
    <2> SUFFICES ASSUME Known, CalmLife, [Next]_vars, NEW r \in Runs,
                        run[r].status \in {"done", "failed"}
                 PROVE  run'[r].status = run[r].status
        OBVIOUS
    <2>1. CASE \E x \in Runs : StoreRun(x) \/ EnqueueRun(x)
        <3>1. PICK x \in Runs : StoreRun(x) \/ EnqueueRun(x)
            BY <2>1
        <3>2. CASE StoreRun(x)
            <4>1. run[x].status = "none" /\ SetStatus(x, "queued")
                BY <3>2 DEF StoreRun, Known, RunLife, OneToken, RequestsStand
            <4> QED BY <4>1, StatusWritten DEF Known, TypeOK
        <3> QED BY <3>1, <3>2 DEF EnqueueRun
    <2>2. CASE \E o \in Orchestrators : OrchStep(o) /\ ~DispatchLost(o) /\ ~GiveUp(o)
        BY <2>2, OrchWrites
    <2>3. CASE \E f \in Replicas : FleetStep(f)
        BY <2>3 DEF FleetStep, ClaimShard, FlushDelta, FlushFinal
    <2>4. CASE MainStep
        <3>1. CASE WriteDone("main")
            <4>1. thread["main"].at = "done" /\ SetStatus(thread["main"].run, "done")
                BY <3>1 DEF WriteDone, Step
            <4>2. thread["main"].run \in Runs /\ run[thread["main"].run].status = "load"
                BY <4>1, MainRun DEF CalmLife, OneJudge, Unscored, Known
            <4> QED BY <4>1, <4>2, StatusWritten DEF Known, TypeOK
        <3> QED BY <2>4, <3>1 DEF MainStep, ReadBatches, AbsorbLate, Absorb, Live, FinalizeStep,
               ComputeScore, WriteResult, CompareBest, AddToBoard, SetBest, ReadRows, Publish,
               Persist, DropAggregate, busVars
    <2>5. CASE UNCHANGED vars
        BY <2>5 DEF vars, busVars
    <2> QED BY <2>1, <2>2, <2>3, <2>4, <2>5, CalmSteps
<1> QED BY <1>1, ArenaTypes, VerdictsHaveOneOwner, RunsHaveOneLife, ShardsKeepOrder,
       CalmRunsAreWhole, PTL DEF Spec, Known, TerminalIsFinal

-----------------------------------------------------------------------------
(* What one call of finalize() per run leaves behind.  A result is written *)
(* just before "done" is, the row just before the aggregate goes, and      *)
(* between ZSCORE and ZADD no other call moves the leaderboard.            *)
ResultsOnce ==
    \A r \in Runs : result[r].score # NoScore =>
       /\ run[r].status = "done" \/ MainHas(r, {"done"})
       /\ result[r].metrics = result[r].scored

RowsOnce ==
    \A r \in Runs :
       /\ archive[r] <= 1
       /\ archive[r] # 0 => run[r].status = "done" /\ ~MainHas(r, Finalizing \ {"delete"})

BoardHolds ==
    /\ thread["main"].at \in {"done", "zscore", "zadd"} =>
          result[thread["main"].run].score = thread["main"].score
    /\ thread["main"].at = "zadd" =>
          leaderboard[SubmissionOf[thread["main"].run]] <= thread["main"].score
    /\ \A r \in Runs : run[r].status = "done" /\ ~MainHas(r, {"zscore", "zadd"}) =>
          result[r].score <= leaderboard[SubmissionOf[r]]

Written == ResultsOnce /\ RowsOnce /\ BoardHolds

LEMMA WrittenStays ==
    ASSUME Written, UNCHANGED <<thread, result, leaderboard, archive>>,
           \A r \in Runs : run[r].status = "done" <=> run'[r].status = "done"
    PROVE  Written'
<1>1. ResultsOnce'
    BY DEF Written, ResultsOnce, MainHas
<1>2. RowsOnce'
    BY DEF Written, RowsOnce, MainHas
<1>3. BoardHolds'
    BY DEF Written, BoardHolds, MainHas
<1> QED BY <1>1, <1>2, <1>3 DEF Written

LEMMA WrittenMain ==
    ASSUME Known, CalmLife, Written, MainStep, UNCHANGED <<orch, fleet>>
    PROVE  Written'
<1> DEFINE m == thread["main"]
           c == SubmissionOf[m.run]
<1>a. /\ thread \in [Thread -> {Looping} \cup ThreadCall] /\ "main" \in Thread
      /\ Finalizing = Unscored \cup Scored
      /\ m.at \in Finalizing \cup {"live"} =>
            m.run \in Runs /\ m \in ThreadCall /\ m.score \in Scores \cup {NoScore}
      /\ Looping.at = "loop"
    BY MainRun DEF Known, ThreadCall
<1>b. /\ result \in [Runs -> Result] /\ run \in [Runs -> RunHash]
      /\ leaderboard \in [Submissions -> Scores \cup {NoScore}]
      /\ archive \in [Runs -> Nat]
      /\ SubmissionOf \in [Runs -> Submissions]
      /\ \A x \in Scores \cup {NoScore} : x \in Int /\ x >= NoScore
    BY IngesterAssumption DEF Known, TypeOK, IngTypeOK, BusTypeOK, NoScore
<1>c. /\ m.at \in Unscored \cup {"live"} => run[m.run].status = "load"
      /\ m.at \in Scored => run[m.run].status = "done"
    BY DEF CalmLife, OneJudge
<1>d. \A r \in Runs : /\ result[r].score \in Scores \cup {NoScore}
                      /\ leaderboard[SubmissionOf[r]] \in Scores \cup {NoScore}
    BY <1>b DEF Result
<1>e. ASSUME NEW from \in Finalizing, NEW to \in Finalizing, Step("main", from, to)
      PROVE  thread'["main"].at = to /\ thread'["main"].run = m.run
             /\ thread'["main"].score = m.score
    BY <1>a, <1>e DEF Step, ThreadCall
<1> USE DEF Finalizing, Unscored, Scored
<1>1. CASE ReadBatches \/ AbsorbLate
    BY <1>1, WrittenStays DEF ReadBatches, AbsorbLate, boardVars, busVars
<1>2. CASE Absorb
    <2>1. /\ m.at = "loop" /\ thread'["main"].at \in {"compute", "live"}
          /\ thread'["main"].run = Head(inbox).run
          /\ UNCHANGED <<run, result, leaderboard, archive>>
        BY <1>2, <1>a DEF Absorb, boardVars, busVars, Looping
    <2>2. run[Head(inbox).run].status = "load"
        BY <1>2, CalmAbsorb
    <2> QED BY <2>1, <2>2 DEF Written, ResultsOnce, RowsOnce, BoardHolds, MainHas
<1>3. CASE Live
    <2>1. /\ m.at = "live" /\ thread'["main"].at = "loop" /\ m.run \in Runs
          /\ UNCHANGED <<run, leaderboard, archive>>
          /\ \/ result' = [result EXCEPT ![m.run].metrics = m.folded]
             \/ UNCHANGED result
        BY <1>3, <1>a DEF Live, boardVars, busVars
    <2>2. result[m.run].score = NoScore
        BY <1>c, <2>1 DEF Written, ResultsOnce, MainHas
    <2>3. \A r \in Runs : /\ result'[r].score = result[r].score
                          /\ r # m.run => result'[r] = result[r]
        BY <1>b, <2>1 DEF Result
    <2>4. ResultsOnce'
        BY <2>1, <2>2, <2>3 DEF Written, ResultsOnce, MainHas
    <2>5. RowsOnce'
        BY <2>1 DEF Written, RowsOnce, MainHas
    <2>6. BoardHolds'
        BY <2>1, <2>3 DEF Written, BoardHolds, MainHas
    <2> QED BY <2>4, <2>5, <2>6 DEF Written
<1>4. CASE ComputeScore("main")
    <2>1. /\ m.at = "compute" /\ thread'["main"].at = "result" /\ thread'["main"].run = m.run
          /\ UNCHANGED <<run, result, leaderboard, archive>>
        BY <1>4, <1>a DEF ComputeScore, boardVars, busVars, ThreadCall
    <2> QED BY <2>1 DEF Written, ResultsOnce, RowsOnce, BoardHolds, MainHas
<1>5. CASE WriteResult("main")
    <2>1. /\ m.at = "result" /\ thread'["main"].at = "done" /\ thread'["main"].run = m.run
          /\ thread'["main"].score = m.score /\ m.run \in Runs
          /\ UNCHANGED <<run, leaderboard, archive>>
          /\ run[m.run].status = "load"
        BY <1>5, <1>a, <1>c, <1>e DEF WriteResult, Step, boardVars, busVars
    <2>2. /\ result'[m.run].score = m.score
          /\ result'[m.run].metrics = result'[m.run].scored
          /\ \A r \in Runs : r # m.run => result'[r] = result[r]
        BY <1>5, <1>b, <2>1 DEF WriteResult
    <2>3. ResultsOnce'
        BY <2>1, <2>2 DEF Written, ResultsOnce, MainHas
    <2>4. RowsOnce'
        BY <2>1 DEF Written, RowsOnce, MainHas
    <2>5. BoardHolds'
        BY <2>1, <2>2 DEF Written, BoardHolds, MainHas
    <2> QED BY <2>3, <2>4, <2>5 DEF Written
<1>6. CASE WriteDone("main")
    <2>1. /\ m.at = "done" /\ thread'["main"].at = "zscore" /\ thread'["main"].run = m.run
          /\ thread'["main"].score = m.score /\ m.run \in Runs
          /\ UNCHANGED <<result, leaderboard, archive>> /\ SetStatus(m.run, "done")
          /\ run[m.run].status = "load"
        BY <1>6, <1>a, <1>c, <1>e DEF WriteDone, Step, boardVars
    <2>2. run'[m.run].status = "done" /\ \A r \in Runs : r # m.run => run'[r] = run[r]
        BY <2>1, StatusWritten DEF Known, TypeOK
    <2>3. ResultsOnce'
        BY <2>1, <2>2 DEF Written, ResultsOnce, MainHas
    <2>4. RowsOnce'
        BY <2>1, <2>2 DEF Written, RowsOnce, MainHas
    <2>5. BoardHolds'
        BY <2>1, <2>2 DEF Written, BoardHolds, MainHas
    <2> QED BY <2>3, <2>4, <2>5 DEF Written
<1>7. CASE CompareBest("main")
    <2>1. /\ m.at = "zscore" /\ thread'["main"].run = m.run /\ thread'["main"].score = m.score
          /\ thread'["main"].at = IF leaderboard[c] = NoScore \/ m.score >= leaderboard[c]
                                  THEN "zadd" ELSE "rows"
          /\ m.run \in Runs /\ UNCHANGED <<run, result, leaderboard, archive>>
        <3> DEFINE to == IF leaderboard[c] = NoScore \/ m.score >= leaderboard[c]
                         THEN "zadd" ELSE "rows"
        <3>1. Step("main", "zscore", to) /\ UNCHANGED <<run, result, leaderboard, archive>>
            BY <1>7 DEF CompareBest, boardVars, busVars
        <3>2. to \in Finalizing /\ "zscore" \in Finalizing
            OBVIOUS
        <3>3. m.at = "zscore" /\ m.run \in Runs
            BY <1>a, <3>1 DEF Step
        <3> HIDE DEF to
        <3>4. thread'["main"].at = to /\ thread'["main"].run = m.run
              /\ thread'["main"].score = m.score
            BY <1>e, <3>1, <3>2
        <3> QED BY <3>1, <3>3, <3>4 DEF to
    <2>2. ResultsOnce' /\ RowsOnce'
        BY <2>1 DEF Written, ResultsOnce, RowsOnce, MainHas
    <2>3. m.score \in Int /\ m.score >= NoScore /\ leaderboard[c] \in Int
        BY <1>a, <1>b, <1>d, <2>1
    <2>4. result[m.run].score = m.score
        BY <2>1 DEF Written, BoardHolds
    <2>5. BoardHolds'
        <3>1. \A r \in Runs : r # m.run /\ run[r].status = "done" =>
                                 result[r].score <= leaderboard[SubmissionOf[r]]
            BY DEF Written, BoardHolds, MainHas
        <3>2. CASE leaderboard[c] = NoScore \/ m.score >= leaderboard[c]
            <4>1. leaderboard[c] <= m.score /\ thread'["main"].at = "zadd"
                BY <2>1, <2>3, <3>2
            <4> QED BY <2>1, <2>4, <3>1, <4>1 DEF BoardHolds, MainHas
        <3>3. CASE ~(leaderboard[c] = NoScore \/ m.score >= leaderboard[c])
            <4>1. m.score <= leaderboard[c] /\ thread'["main"].at = "rows"
                BY <2>1, <2>3, <3>3
            <4> QED BY <2>1, <2>4, <3>1, <4>1 DEF BoardHolds, MainHas
        <3> QED BY <3>2, <3>3
    <2> QED BY <2>2, <2>5 DEF Written
<1>8. CASE AddToBoard("main")
    <2>1. /\ m.at = "zadd" /\ thread'["main"].at = "best" /\ thread'["main"].run = m.run
          /\ m.run \in Runs /\ UNCHANGED <<run, result, archive>>
          /\ leaderboard' = [leaderboard EXCEPT ![c] = m.score]
        BY <1>8, <1>a, <1>e DEF AddToBoard, Step, busVars
    <2>2. ResultsOnce' /\ RowsOnce'
        BY <2>1 DEF Written, ResultsOnce, RowsOnce, MainHas
    <2>3. /\ result[m.run].score = m.score /\ leaderboard[c] <= m.score
          /\ m.score \in Int /\ leaderboard[c] \in Int
        BY <1>a, <1>b, <1>d, <2>1 DEF Written, BoardHolds
    <2>4. c \in Submissions /\ leaderboard'[c] = m.score
        BY <1>b, <2>1
    <2>5. ASSUME NEW r \in Runs, run[r].status = "done"
          PROVE  result[r].score <= leaderboard'[SubmissionOf[r]]
        <3>1. result[r].score \in Int /\ leaderboard[SubmissionOf[r]] \in Int
            BY <1>b, <1>d
        <3>2. CASE r = m.run
            BY <2>3, <2>4, <3>1, <3>2
        <3>3. CASE r # m.run /\ SubmissionOf[r] = c
            <4>1. result[r].score <= leaderboard[c]
                BY <2>5, <3>3 DEF Written, BoardHolds, MainHas
            <4>2. result[r].score <= m.score
                BY <2>3, <3>1, <4>1
            <4> QED BY <2>4, <3>3, <4>2
        <3>4. CASE r # m.run /\ SubmissionOf[r] # c
            <4>1. leaderboard'[SubmissionOf[r]] = leaderboard[SubmissionOf[r]]
                BY <1>b, <2>1, <3>4
            <4> QED BY <2>5, <3>4, <4>1 DEF Written, BoardHolds, MainHas
        <3> QED BY <3>2, <3>3, <3>4
    <2>6. BoardHolds'
        BY <2>1, <2>5 DEF BoardHolds
    <2> QED BY <2>2, <2>6 DEF Written
<1>9. CASE SetBest("main") \/ ReadRows("main") \/ Publish("main")
    <2>1. /\ m.at \in {"best", "rows", "publish"}
          /\ thread'["main"].at \in {"rows", "publish", "archive"}
          /\ thread'["main"].run = m.run /\ m.run \in Runs
          /\ UNCHANGED <<run, result, leaderboard, archive>>
        <3>1. CASE SetBest("main")
            BY <3>1, <1>a, <1>e DEF SetBest, Step, busVars
        <3>2. CASE Publish("main")
            BY <3>2, <1>a, <1>e DEF Publish, Step, busVars
        <3>3. CASE ReadRows("main")
            BY <3>3, <1>a DEF ReadRows, boardVars, busVars, ThreadCall
        <3> QED BY <1>9, <3>1, <3>2, <3>3
    <2> QED BY <2>1 DEF Written, ResultsOnce, RowsOnce, BoardHolds, MainHas
<1>10. CASE Persist("main")
    <2>1. /\ m.at = "archive" /\ thread'["main"].at = "delete" /\ thread'["main"].run = m.run
          /\ m.run \in Runs /\ UNCHANGED <<run, result, leaderboard>>
          /\ \/ archive' = [archive EXCEPT ![m.run] = @ + 1]
             \/ UNCHANGED archive
          /\ run[m.run].status = "done"
        BY <1>10, <1>a, <1>c, <1>e DEF Persist, Step, boardVars, busVars
    <2>2. archive[m.run] = 0
        BY <2>1 DEF Written, RowsOnce, MainHas
    <2>3. /\ archive'[m.run] <= 1
          /\ \A r \in Runs : r # m.run => archive'[r] = archive[r]
        BY <1>b, <2>1, <2>2
    <2>4. RowsOnce'
        BY <2>1, <2>3 DEF Written, RowsOnce, MainHas
    <2>5. ResultsOnce' /\ BoardHolds'
        BY <2>1 DEF Written, ResultsOnce, BoardHolds, MainHas
    <2> QED BY <2>4, <2>5 DEF Written
<1>11. CASE DropAggregate("main")
    <2>1. /\ m.at = "delete" /\ thread'["main"].at = "loop"
          /\ UNCHANGED <<run, result, leaderboard, archive>>
        BY <1>11, <1>a DEF DropAggregate, boardVars, busVars
    <2> QED BY <2>1 DEF Written, ResultsOnce, RowsOnce, BoardHolds, MainHas
<1> QED BY <1>1, <1>2, <1>3, <1>4, <1>5, <1>6, <1>7, <1>8, <1>9, <1>10, <1>11
       DEF MainStep, FinalizeStep

LEMMA CalmWritten == Calm => (Spec => []Written)
<1> SUFFICES ASSUME Calm PROVE Spec => []Written
    OBVIOUS
<1>1. Init => Written
    BY DEF Init, BusInit, IngInit, Written, ResultsOnce, RowsOnce, BoardHolds, MainHas, Thread,
       Looping, Finalizing
<1>2. Known /\ CalmLife /\ Written /\ [Next]_vars => Written'
    <2> SUFFICES ASSUME Known, CalmLife, Written, [Next]_vars PROVE Written'
        OBVIOUS
    <2>a. ASSUME UNCHANGED ingVars
          PROVE  UNCHANGED <<thread, result, leaderboard, archive>>
        BY <2>a DEF ingVars, memoryVars, boardVars
    <2>1. CASE /\ \E x \in Runs : StoreRun(x) \/ EnqueueRun(x)
               /\ UNCHANGED <<orchVars, fleet, ingVars>>
        <3>1. PICK x \in Runs : StoreRun(x) \/ EnqueueRun(x)
            BY <2>1
        <3>2. \A r \in Runs : run[r].status = "done" <=> run'[r].status = "done"
            <4>1. CASE StoreRun(x)
                <5>1. run[x].status = "none" /\ SetStatus(x, "queued")
                    BY <4>1 DEF StoreRun, Known, RunLife, OneToken, RequestsStand
                <5> QED BY <5>1, StatusWritten DEF Known, TypeOK
            <4> QED BY <3>1, <4>1 DEF EnqueueRun
        <3> QED BY <2>1, <2>a, <3>2, WrittenStays
    <2>2. CASE /\ \E o \in Orchestrators : OrchStep(o) /\ ~DispatchLost(o) /\ ~GiveUp(o)
               /\ UNCHANGED <<request, fleet, ingVars>>
        <3>1. \A r \in Runs : run[r].status = "done" <=> run'[r].status = "done"
            BY <2>2, OrchWrites
        <3> QED BY <2>2, <2>a, <3>1, WrittenStays
    <2>3. CASE /\ \E f \in Replicas : FleetStep(f)
               /\ UNCHANGED <<request, orchVars, ingVars>>
        <3>1. UNCHANGED run
            BY <2>3 DEF FleetStep, ClaimShard, FlushDelta, FlushFinal
        <3> QED BY <2>3, <2>a, <3>1, WrittenStays
    <2>4. CASE MainStep /\ UNCHANGED <<request, orchVars, fleet>>
        BY <2>4, WrittenMain DEF orchVars
    <2>5. CASE UNCHANGED vars
        <3>1. UNCHANGED <<run, ingVars>>
            BY <2>5 DEF vars, busVars
        <3> QED BY <2>a, <3>1, WrittenStays
    <2> QED BY <2>1, <2>2, <2>3, <2>4, <2>5, CalmSteps
<1> QED BY <1>1, <1>2, ArenaTypes, VerdictsHaveOneOwner, RunsHaveOneLife, ShardsKeepOrder,
       CalmRunsAreWhole, PTL DEF Spec, Known

(* Under the conditions persist() stores at most one row per run. *)
THEOREM CalmOneRow == Calm => (Spec => []OneRowPerRun)
<1>1. Written => OneRowPerRun
    BY DEF Written, RowsOnce, OneRowPerRun
<1> QED BY <1>1, CalmWritten, PTL

(* Under the conditions the leaderboard keeps the best run of every        *)
(* submission: no other call of finalize() comes between ZSCORE and ZADD.  *)
THEOREM CalmBestRun == Calm => (Spec => []BestRunKept)
<1>1. Written => BestRunKept
    <2> SUFFICES ASSUME Written, NEW r \in Runs, run[r].status = "done",
                        \A t \in Thread : thread[t].at \in Finalizing =>
                                             SubmissionOf[thread[t].run] # SubmissionOf[r]
                 PROVE  result[r].score <= leaderboard[SubmissionOf[r]]
        BY DEF BestRunKept
    <2>1. ~MainHas(r, {"zscore", "zadd"})
        BY DEF MainHas, Thread, Finalizing
    <2> QED BY <2>1 DEF Written, BoardHolds
<1> QED BY <1>1, CalmWritten, PTL

(* Under the conditions the score of a run and the metrics beside it come  *)
(* from the same telemetry: no live write follows the verdict.             *)
THEOREM CalmScoreMatches == Calm => (Spec => []ScoreMatchesMetrics)
<1>1. Written => ScoreMatchesMetrics
    BY DEF Written, ResultsOnce, ScoreMatchesMetrics
<1> QED BY <1>1, CalmWritten, PTL
=============================================================================
