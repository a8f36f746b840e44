------------------------------ MODULE Scoring ------------------------------
(***************************************************************************)
(* What a verdict is made of: the histogram of internal/telemetry, the     *)
(* per-second counts, compute() of the ingester and Composite() of         *)
(* internal/score.  Shards record acks and errors, ship what they have     *)
(* recorded since the last time, and the ingester folds it.                *)
(*                                                                         *)
(* Latencies are logarithmic in the code and here.  A bucket spans a       *)
(* factor Root^2 (1.05 in the code) and stands for its geometric middle,   *)
(* so with an integer Root every value is an integer, and the logarithm of *)
(* a bucket's value is 2b - 1 steps of Root.  Fractions are kept as        *)
(* numerators over a common denominator.  The rounding of floating-point   *)
(* logarithms is left out.                                                 *)
(*                                                                         *)
(*   now           the second on the clock;                                *)
(*   delta[s]      what shard s has recorded and not shipped;              *)
(*   agg           the runAgg of the ingester;                             *)
(*   truth         what really happened: the latencies themselves, and the *)
(*                 acks and errors of every second.                        *)
(***************************************************************************)
EXTENDS Integers, FiniteSets, FiniteSetsExt

CONSTANTS Shards,
          Latencies,     \* latencies that occur, in multiples of 1 microsecond
          Root,          \* the square root of the growth factor
          MaxBucket,     \* bound: the bucket of the largest latency
          MaxSec,        \* bound: seconds of the run
          MaxEvents,     \* bound: requests of the run
          MaxViolations, \* bound: verdicts of the bots
          ErrPercent,    \* a second counts if fewer of its requests failed (1)
          LatFull,       \* steps of Root from 1 microsecond to full marks
          LatZero,       \* steps of Root from 1 microsecond to no marks
          Checks,        \* checks of the conformance probe (30)
          TpsFull,       \* the throughput that gets full marks (50 000)
          ThrMarks(_)    \* marks for a throughput, out of ThrMarks(TpsFull)

(* Root^n. *)
RootPower[n \in Nat] == IF n = 0 THEN 1 ELSE Root * RootPower[n - 1]

(* Latencies fit into the buckets.  A share of requests that may fail is   *)
(* at most all of them.  Marks never fall with the throughput: ThrMarks    *)
(* stands for a logarithm.                                                 *)
ASSUME ScoringAssumption ==
    /\ IsFiniteSet(Shards) /\ IsFiniteSet(Latencies) /\ Latencies \subseteq Nat
    /\ Root \in Nat \ {0, 1} /\ MaxBucket \in Nat /\ \A ns \in Latencies : ns < RootPower[2 * MaxBucket]
    /\ MaxSec \in Nat \ {0} /\ MaxEvents \in Nat /\ ErrPercent \in 0 .. 100
    /\ LatFull \in Nat /\ LatZero \in Nat /\ LatFull < LatZero /\ Checks \in Nat /\ TpsFull \in Nat
    /\ ThrMarks(0) = 0 /\ ThrMarks(1) = 0 /\ ThrMarks(TpsFull) > 0
    /\ \A i \in 0 .. MaxEvents \cup {TpsFull} : ThrMarks(i) \in Nat
    /\ \A i, j \in 0 .. MaxEvents : i <= j => ThrMarks(i) <= ThrMarks(j)

VARIABLES now, delta, agg, truth

vars == <<now, delta, agg, truth>>

Buckets == 0 .. MaxBucket
Secs    == 1 .. MaxSec
Total(f) == MapThenSumSet(LAMBDA k : f[k], DOMAIN f)

-----------------------------------------------------------------------------
(* internal/telemetry/hist.go.  Latencies under one microsecond are bucket *)
(* 0; from there bucket b begins at Root^(2b - 2).                         *)
BucketOf(ns) == Max({0} \cup {b \in Buckets \ {0} : RootPower[2 * b - 2] <= ns})

BucketValue(b) == IF b = 0 THEN 1 ELSE RootPower[2 * b - 1]

Merge(dst, src) == [k \in DOMAIN dst |-> dst[k] + src[k]]

(* Mutant of Rank: rounded down. *)
RankDown(n, percent) == (n * percent) \div 100

Rank(n, percent) == (n * percent + 99) \div 100

(* The first bucket at which the cumulative count reaches the rank; 0 for  *)
(* an empty histogram.                                                     *)
QuantileBucket(c, percent) ==
    Min({b \in DOMAIN c : /\ c[b] > 0
                          /\ MapThenSumSet(LAMBDA k : c[k], {k \in DOMAIN c : k <= b})
                                >= Rank(Total(c), percent)})

Quantile(c, percent) ==
    IF Total(c) = 0 THEN 0 ELSE BucketValue(QuantileBucket(c, percent))

-----------------------------------------------------------------------------
(* compute() *)
(* Mutant of Sustained: failed requests count as throughput. *)
SustainedAttempts(acks, errs) == Max({0} \cup {acks[s] + errs[s] : s \in DOMAIN acks})

(* The best second in which few enough requests failed. *)
Sustained(acks, errs) ==
    Max({0} \cup {acks[s] : s \in {t \in DOMAIN acks :
            acks[t] > 0 /\ 100 * errs[t] < ErrPercent * (acks[t] + errs[t])}})

(* Correctness is Right(a) / Out(a): violations per ack, cut off at 0.  In *)
(* a verdict on all batches the acks of the seconds are all acks           *)
(* (ShardTelemetry!FinalTotalsExact).                                      *)
Judged(a) == Total(a.acks)

(* Mutant of Right: no cut-off. *)
RightUncut(a) == Judged(a) - a.violations

Right(a) == Max({0, Judged(a) - a.violations})
Out(a)   == Max({1, Judged(a)})

-----------------------------------------------------------------------------
(* internal/score: the three components, each from 0 to its full marks.    *)
Clamp(x, full) == Max({0, Min({full, x})})

(* The logarithm of max(p99, 1 ns): nothing, 1 microsecond or a bucket. *)
LatSteps(c) ==
    IF Total(c) = 0 \/ QuantileBucket(c, 99) = 0 THEN 0 ELSE 2 * QuantileBucket(c, 99) - 1

LatMarks(c) == Clamp(LatZero - LatSteps(c), LatZero - LatFull)

(* The composite score of aggregate a, whose engine passed conf of the     *)
(* Checks checks of the probe, is Composite(a, conf) / Scale(a).           *)
Scale(a) == (LatZero - LatFull) * ThrMarks(TpsFull) * 2 * Checks * Out(a)

Composite(a, conf) ==
    LET lat == LatMarks(a.hist)
        thr == Clamp(ThrMarks(Sustained(a.acks, a.errs)), ThrMarks(TpsFull))
    IN  (35 * 2 * Checks * Out(a)) * (lat * ThrMarks(TpsFull) + thr * (LatZero - LatFull))
        + 30 * (Checks * Right(a) + conf * Out(a)) * (LatZero - LatFull) * ThrMarks(TpsFull)

-----------------------------------------------------------------------------
Nothing == [hist |-> [b \in Buckets |-> 0], acks |-> [s \in Secs |-> 0],
            errs |-> [s \in Secs |-> 0], violations |-> 0]

Init ==
    /\ now = 1
    /\ delta = [s \in Shards |-> Nothing]
    /\ agg = Nothing
    /\ truth = [lat |-> [ns \in Latencies |-> 0], acks |-> Nothing.acks, errs |-> Nothing.errs]

Events == Total(truth.acks) + Total(truth.errs)

Tick ==
    /\ now < MaxSec
    /\ now' = now + 1
    /\ UNCHANGED <<delta, agg, truth>>

(* hist.Record() and tickAck() *)
Ack(s, ns) ==
    /\ Events < MaxEvents
    /\ delta' = [delta EXCEPT ![s].hist[BucketOf(ns)] = @ + 1, ![s].acks[now] = @ + 1]
    /\ truth' = [truth EXCEPT !.lat[ns] = @ + 1, !.acks[now] = @ + 1]
    /\ UNCHANGED <<now, agg>>

(* tickErr() *)
Error(s) ==
    /\ Events < MaxEvents
    /\ delta' = [delta EXCEPT ![s].errs[now] = @ + 1]
    /\ truth' = [truth EXCEPT !.errs[now] = @ + 1]
    /\ UNCHANGED <<now, agg>>

(* Only acks are judged, but one may break several rules. *)
Violate(s) ==
    /\ Total(truth.acks) > 0
    /\ agg.violations + Total([x \in Shards |-> delta[x].violations]) < MaxViolations
    /\ delta' = [delta EXCEPT ![s].violations = @ + 1]
    /\ UNCHANGED <<now, agg, truth>>

(* TakeDelta() and the maps of the shard, and absorb(). *)
Fold(s) ==
    /\ delta[s] # Nothing
    /\ agg' = [hist |-> Merge(agg.hist, delta[s].hist), acks |-> Merge(agg.acks, delta[s].acks),
               errs |-> Merge(agg.errs, delta[s].errs),
               violations |-> agg.violations + delta[s].violations]
    /\ delta' = [delta EXCEPT ![s] = Nothing]
    /\ UNCHANGED <<now, truth>>

Next == Tick \/ \E s \in Shards : Error(s) \/ Violate(s) \/ Fold(s) \/ \E ns \in Latencies : Ack(s, ns)

Spec == Init /\ [][Next]_vars

-----------------------------------------------------------------------------
AllFolded == \A s \in Shards : delta[s] = Nothing

(* The smallest latency that so many percent of all acks did not exceed. *)
TrueLatency(percent) ==
    Min({ns \in Latencies :
            100 * MapThenSumSet(LAMBDA n : truth.lat[n], {n \in Latencies : n <= ns})
                >= percent * Total(truth.lat)})

(* However the acks were spread over shards and batches, the percentiles   *)
(* are those of all of them together: no further from the measured latency *)
(* than half a bucket, and 1 microsecond for anything shorter.             *)
PercentilesAccurate ==
    AllFolded /\ Total(truth.lat) > 0 =>
        \A percent \in {50, 90, 99} :
            LET t == TrueLatency(percent)
                q == Quantile(agg.hist, percent)
            IN  IF t < 1 THEN q = 1 ELSE q <= t * Root /\ t <= q * Root

(* The throughput is one that the engine really sustained: acks of one     *)
(* second of all shards together, few requests of which failed, and there  *)
(* was no better second.                                                   *)
ThroughputReal ==
    AllFolded =>
        LET tps == Sustained(agg.acks, agg.errs)
            clean(s) == 100 * truth.errs[s] < ErrPercent * (truth.acks[s] + truth.errs[s])
        IN  /\ tps > 0 => \E s \in Secs : clean(s) /\ truth.acks[s] = tps
            /\ \A s \in Secs : clean(s) => truth.acks[s] <= tps

(* Scores stay between 0 and 100, also when there are more violations than *)
(* acks, or no acks; and with the acks as they are, one more failed        *)
(* request in any second, or one more broken rule, never raises the score. *)
(* This compares runs with the same acks only: compute() keeps failed      *)
(* requests out of the histogram, so failing a slow request instead of     *)
(* answering it can raise the score, up to the extreme of dead_engine.     *)
ScoreFair ==
    /\ \A conf \in {0, Checks} :
          0 <= Composite(agg, conf) /\ Composite(agg, conf) <= 100 * Scale(agg)
    /\ \A s \in Secs : \A a \in {[agg EXCEPT !.errs[s] = @ + 1], [agg EXCEPT !.violations = @ + 1]} :
          Composite(a, 0) * Scale(agg) <= Composite(agg, 0) * Scale(a)

(* "dead engine": an engine that never answered and passed no check of the *)
(* probe scores 0.                                                         *)
DeadEngineScoresNothing == Events > 0 /\ Total(agg.acks) = 0 /\ AllFolded => Composite(agg, 0) = 0
=============================================================================
