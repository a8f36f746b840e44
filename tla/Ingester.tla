------------------------------ MODULE Ingester ------------------------------
(***************************************************************************)
(* cmd/ingester: one process, two goroutines.  The main goroutine reads    *)
(* telemetry.raw and folds each batch into the aggregate of its run; when  *)
(* the final batches of all shards are in, it finalizes the run.  The      *)
(* sweep goroutine finalizes every run that has been silent for a minute.  *)
(* ing.mu guards the map `runs`; finalize() itself runs without it, one    *)
(* request to Redis after another, in whichever goroutine called it.       *)
(*                                                                         *)
(*   runs[r]    ing.runs: which deltas are in the aggregate, which shards  *)
(*              have sent their final one, and the finalized flag;         *)
(*   inbox      entries delivered by the last XREADGROUP and not yet       *)
(*              absorbed;                                                  *)
(*   stale      the local `stale` of sweep();                              *)
(*   thread[t]  where goroutine t stands, the run it works on, the deltas  *)
(*              behind its pointer `agg`, and the locals of finalize();    *)
(*   result[r], leaderboard[s], best[s], snapshot                          *)
(*              the Redis keys that only this service writes;              *)
(*   archive[r] rows of arena_runs in TimescaleDB.                         *)
(***************************************************************************)
EXTENDS Bus

CONSTANTS Submissions,    \* submission ids
          SubmissionOf,   \* run:<r>.submission_id
          Scores,         \* the composite scores a run may get
          ReadCount       \* Count of XREADGROUP

NoScore == -1

ASSUME IngesterAssumption ==
    /\ SubmissionOf \in [Runs -> Submissions]
    /\ Scores \subseteq Nat
    /\ ReadCount \in Nat \ {0}

VARIABLES runs, inbox, stale, thread, result, leaderboard, best, snapshot, archive

memoryVars == <<runs, inbox, stale, thread>>
boardVars  == <<leaderboard, best, snapshot>>
ingVars    == <<memoryVars, result, boardVars, archive>>

Thread == {"main", "sweep"}
Delta  == Shards \X (0 .. MaxFlush)

(* An aggregate exists from its first delta on: absorb creates it and      *)
(* folds into it under one lock.                                           *)
Agg    == [folded : SUBSET Delta, finalShards : SUBSET Shards, finalized : BOOLEAN]
NoAgg  == [folded |-> {}, finalShards |-> {}, finalized |-> FALSE]

Row    == [score : Scores \cup {NoScore}, run : Runs \cup {NoRun}]
NoRows == [s \in Submissions |-> [score |-> NoScore, run |-> NoRun]]

(* The steps of finalize(), each named for what it does next. *)
Finalizing == {"compute", "result", "done", "zscore", "zadd", "best", "rows",
               "publish", "archive", "delete"}

Looping == [at |-> "loop", run |-> NoRun, folded |-> {}, conf |-> FALSE,
            score |-> NoScore, rows |-> NoRows]

ThreadCall ==
    [at : {"live"} \cup Finalizing, run : Runs, folded : SUBSET Delta,
     conf : BOOLEAN, score : Scores \cup {NoScore}, rows : [Submissions -> Row]]

(* A result row: the deltas its metrics come from, and of its score, if it *)
(* has one, the deltas and whether there was a conformance score.          *)
Result == [metrics : SUBSET Delta, score : Scores \cup {NoScore},
           scored : SUBSET Delta, conf : BOOLEAN]

IngInit ==
    /\ runs = [r \in Runs |-> NoAgg]
    /\ inbox = <<>>
    /\ stale = {}
    /\ thread = [t \in Thread |-> Looping]
    /\ result = [r \in Runs |-> [metrics |-> {}, score |-> NoScore,
                                 scored |-> {}, conf |-> FALSE]]
    /\ leaderboard = [s \in Submissions |-> NoScore]
    /\ best = [s \in Submissions |-> NoRun]
    /\ snapshot = NoRows
    /\ archive = [r \in Runs |-> 0]

IngTypeOK ==
    /\ runs \in [Runs -> Agg]
    /\ inbox \in Seq(TelemetryBatch)
    /\ stale \in SUBSET Runs
    /\ thread \in [Thread -> {Looping} \cup ThreadCall]
    /\ result \in [Runs -> Result]
    /\ leaderboard \in [Submissions -> Scores \cup {NoScore}]
    /\ best \in [Submissions -> Runs \cup {NoRun}]
    /\ snapshot \in [Submissions -> Row]
    /\ archive \in [Runs -> Nat]

-----------------------------------------------------------------------------
(* XREADGROUP telemetry.raw > COUNT ReadCount *)
ReadBatches ==
    LET n == IF Len(teleRaw) < ReadCount THEN Len(teleRaw) ELSE ReadCount IN
    /\ thread["main"].at = "loop"
    /\ inbox = <<>>
    /\ teleRaw # <<>>
    /\ inbox' = SubSeq(teleRaw, 1, n)
    /\ teleRaw' = SubSeq(teleRaw, n + 1, Len(teleRaw))
    /\ UNCHANGED <<run, runsJobs, loadJobs, faults, runs, stale, thread, result,
                   boardVars, archive>>

(* Mutant of Merge: any batch of a shard counts as its final one. *)
MergeAnyFinal(agg, b) ==
    [agg EXCEPT !.folded = @ \cup {<<b.shard, b.n>>},
                !.finalShards = @ \cup {b.shard}]

Merge(agg, b) ==
    [agg EXCEPT !.folded = @ \cup {<<b.shard, b.n>>},
                !.finalShards = IF b.final THEN @ \cup {b.shard} ELSE @]

(* Mutant of Complete: one final batch short. *)
CompleteEarly(agg) == Cardinality(agg.finalShards) >= TotalShards - 1

Complete(agg) == Cardinality(agg.finalShards) >= TotalShards

(* absorb() of a batch whose run is being finalized: dropped. *)
AbsorbLate ==
    /\ thread["main"].at = "loop"
    /\ inbox # <<>>
    /\ runs[Head(inbox).run].finalized
    /\ inbox' = Tail(inbox)
    /\ UNCHANGED <<busVars, runs, stale, thread, result, boardVars, archive>>

(* absorb(): fold the batch into the aggregate, a new one if there is      *)
(* none; the last final batch claims the run for finalize().               *)
Absorb ==
    /\ thread["main"].at = "loop"
    /\ inbox # <<>>
    /\ ~runs[Head(inbox).run].finalized
    /\ inbox' = Tail(inbox)
    /\ LET b   == Head(inbox)
           agg == Merge(runs[b.run], b)
       IN  /\ runs' = [runs EXCEPT ![b.run] = [agg EXCEPT !.finalized = Complete(agg)]]
           /\ thread' = [thread EXCEPT !["main"] =
                 [Looping EXCEPT !.at = IF Complete(agg) THEN "compute" ELSE "live",
                                 !.run = b.run, !.folded = agg.folded]]
    /\ UNCHANGED <<busVars, stale, result, boardVars, archive>>

(* live(): at most once a second the metrics so far are written; the score *)
(* field is left alone.  Only this goroutine folds, so what it writes is   *)
(* what it has just folded.                                                *)
Live ==
    /\ thread["main"].at = "live"
    /\ \/ result' = [result EXCEPT ![thread["main"].run].metrics = thread["main"].folded]
       \/ UNCHANGED result
    /\ thread' = [thread EXCEPT !["main"] = Looping]
    /\ UNCHANGED <<busVars, runs, inbox, stale, boardVars, archive>>

(* Mutants of Claimable: a run in finalize() is claimed again; a run none  *)
(* of whose shards is complete is left alone.                              *)
ClaimableTwice(r)   == runs[r] # NoAgg
ClaimableIfFinal(r) == ~runs[r].finalized /\ runs[r].finalShards # {}

(* Whether a silent run is for the sweep to finalize. *)
Claimable(r) == runs[r] # NoAgg /\ ~runs[r].finalized

(* sweep(): a tick finds the runs of S silent and claims them. *)
Sweep(S) ==
    /\ thread["sweep"].at = "loop"
    /\ stale = {}
    /\ S # {}
    /\ \A r \in S : Claimable(r)
    /\ runs' = [r \in Runs |-> IF r \in S THEN [runs[r] EXCEPT !.finalized = TRUE]
                                          ELSE runs[r]]
    /\ stale' = S
    /\ UNCHANGED <<busVars, inbox, thread, result, boardVars, archive>>

(* sweep() hands the next run to finalize(), with the aggregate that it    *)
(* looks up in the map without the lock.                                   *)
SweepNext ==
    /\ thread["sweep"].at = "loop"
    /\ \E r \in stale :
          /\ stale' = stale \ {r}
          /\ thread' = [thread EXCEPT !["sweep"] =
                [Looping EXCEPT !.at = "compute", !.run = r, !.folded = runs[r].folded]]
    /\ UNCHANGED <<busVars, runs, inbox, result, boardVars, archive>>

-----------------------------------------------------------------------------
(* finalize(), in goroutine t. *)
Step(t, from, to) ==
    /\ thread[t].at = from
    /\ thread' = [thread EXCEPT ![t].at = to]

(* compute() under the lock, HGET conformance_score, the composite score:  *)
(* any score may come out of the metrics.                                  *)
ComputeScore(t) ==
    /\ thread[t].at = "compute"
    /\ \E sc \in Scores :
          thread' = [thread EXCEPT ![t].at = "result", ![t].score = sc,
                        ![t].conf = run[thread[t].run].conformance_score]
    /\ UNCHANGED <<busVars, runs, inbox, stale, result, boardVars, archive>>

(* Mutant of WriteResult: the row is written without the score. *)
WriteMetricsOnly(t) ==
    /\ Step(t, "result", "done")
    /\ result' = [result EXCEPT ![thread[t].run].metrics = thread[t].folded]
    /\ UNCHANGED <<busVars, runs, inbox, stale, boardVars, archive>>

(* HSET result:<r> with the score *)
WriteResult(t) ==
    /\ Step(t, "result", "done")
    /\ result' = [result EXCEPT ![thread[t].run] =
          [metrics |-> thread[t].folded, score |-> thread[t].score,
           scored |-> thread[t].folded, conf |-> thread[t].conf]]
    /\ UNCHANGED <<busVars, runs, inbox, stale, boardVars, archive>>

(* HSET run:<r> status done *)
WriteDone(t) ==
    /\ Step(t, "done", "zscore")
    /\ SetStatus(thread[t].run, "done")
    /\ UNCHANGED <<runsJobs, loadJobs, teleRaw, faults, runs, inbox, stale, result,
                   boardVars, archive>>

(* Mutant of CompareBest: the last run counts, not the best one. *)
CompareNothing(t) ==
    /\ Step(t, "zscore", "zadd")
    /\ UNCHANGED <<busVars, runs, inbox, stale, result, boardVars, archive>>

(* ZSCORE leaderboard: is this the submission's best run so far? *)
CompareBest(t) ==
    /\ Step(t, "zscore", LET cur == leaderboard[SubmissionOf[thread[t].run]] IN
            IF cur = NoScore \/ thread[t].score >= cur THEN "zadd" ELSE "rows")
    /\ UNCHANGED <<busVars, runs, inbox, stale, result, boardVars, archive>>

(* ZADD leaderboard *)
AddToBoard(t) ==
    /\ Step(t, "zadd", "best")
    /\ leaderboard' = [leaderboard EXCEPT ![SubmissionOf[thread[t].run]] = thread[t].score]
    /\ UNCHANGED <<busVars, runs, inbox, stale, result, best, snapshot, archive>>

(* SET best:<s> *)
SetBest(t) ==
    /\ Step(t, "best", "rows")
    /\ best' = [best EXCEPT ![SubmissionOf[thread[t].run]] = thread[t].run]
    /\ UNCHANGED <<busVars, runs, inbox, stale, result, leaderboard, snapshot, archive>>

(* publishSnapshot() reads the board and builds its rows ... *)
ReadRows(t) ==
    /\ thread[t].at = "rows"
    /\ thread' = [thread EXCEPT ![t].at = "publish",
          ![t].rows = [s \in Submissions |->
                          [score |-> leaderboard[s], run |-> best[s]]]]
    /\ UNCHANGED <<busVars, runs, inbox, stale, result, boardVars, archive>>

(* ... and stores and publishes them. *)
Publish(t) ==
    /\ Step(t, "publish", "archive")
    /\ snapshot' = thread[t].rows
    /\ UNCHANGED <<busVars, runs, inbox, stale, result, leaderboard, best, archive>>

(* persist(): a row in TimescaleDB, or none when the database is down or   *)
(* not configured.                                                         *)
Persist(t) ==
    /\ Step(t, "archive", "delete")
    /\ \/ archive' = [archive EXCEPT ![thread[t].run] = @ + 1]
       \/ UNCHANGED archive
    /\ UNCHANGED <<busVars, runs, inbox, stale, result, boardVars>>

(* delete(ing.runs, runID), and back to the caller's loop. *)
DropAggregate(t) ==
    /\ thread[t].at = "delete"
    /\ runs' = [runs EXCEPT ![thread[t].run] = NoAgg]
    /\ thread' = [thread EXCEPT ![t] = Looping]
    /\ UNCHANGED <<busVars, inbox, stale, result, boardVars, archive>>

(* The process is killed and started again: the aggregates, what was       *)
(* delivered and not absorbed, and every verdict in progress are gone.     *)
IngCrash ==
    /\ inbox # <<>> \/ \E r \in Runs : runs[r] # NoAgg
    /\ Fault("ingester")
    /\ runs' = [r \in Runs |-> NoAgg]
    /\ inbox' = <<>>
    /\ stale' = {}
    /\ thread' = [t \in Thread |-> Looping]
    /\ UNCHANGED <<run, runsJobs, loadJobs, teleRaw, result, boardVars, archive>>

FinalizeStep(t) ==
    \/ ComputeScore(t) \/ WriteResult(t) \/ WriteDone(t) \/ CompareBest(t)
    \/ AddToBoard(t) \/ SetBest(t) \/ ReadRows(t) \/ Publish(t) \/ Persist(t)
    \/ DropAggregate(t)

MainStep  == ReadBatches \/ AbsorbLate \/ Absorb \/ Live \/ FinalizeStep("main")
SweepStep == SweepNext \/ FinalizeStep("sweep")

-----------------------------------------------------------------------------
(* One owner per verdict.  While a goroutine finalizes a run, the run's    *)
(* aggregate is in the map, marked finalized, and holds exactly the deltas *)
(* the goroutine reads without the lock; no run is in the hands of both    *)
(* goroutines; the lookup that sweep() makes without the lock finds the    *)
(* aggregate; and a marked aggregate always has an owner that will remove  *)
(* it.                                                                     *)
OneOwnerPerVerdict ==
    /\ \A t \in Thread : thread[t].at \in Finalizing =>
          /\ runs[thread[t].run].finalized
          /\ runs[thread[t].run].folded = thread[t].folded
          /\ thread[t].run \notin stale
    /\ \A r \in stale : runs[r].finalized
    /\ thread["main"].at \in Finalizing /\ thread["sweep"].at \in Finalizing =>
          thread["main"].run # thread["sweep"].run
    /\ \A r \in Runs : runs[r].finalized =>
          \/ r \in stale
          \/ \E t \in Thread : thread[t].at \in Finalizing /\ thread[t].run = r

(* finalize() writes the score before it flips the status, so whoever sees *)
(* a run done finds its score, also after a crash between any two writes.  *)
DoneHasScore ==
    \A r \in Runs : run[r].status = "done" => result[r].score # NoScore
=============================================================================
