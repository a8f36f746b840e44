--------------------------- MODULE ScoringProofs ---------------------------
(***************************************************************************)
(* Proofs about Scoring, for any number of shards, seconds, requests and   *)
(* violations and any marking scale: the throughput of a verdict on all    *)
(* batches is that of a real second, and the score is fair at every moment.*)
(***************************************************************************)
EXTENDS Scoring, SumProofs

PerSecond == {"acks", "errs"}

Batch == [hist : [Buckets -> Nat], acks : [Secs -> Nat], errs : [Secs -> Nat], violations : Nat]
Truth == [lat : [Latencies -> Nat], acks : [Secs -> Nat], errs : [Secs -> Nat]]

ScoringTypeOK ==
    /\ now \in Secs
    /\ delta \in [Shards -> Batch]
    /\ agg \in Batch
    /\ truth \in Truth

(* What the shards have recorded in field f of second t and not shipped. *)
Pending(f, t) == [x \in Shards |-> delta[x][f][t]]

(* What happened in a second is folded or pending: nothing is lost, and    *)
(* nothing counts twice.                                                   *)
Conserved(f, t) == truth[f][t] = agg[f][t] + SumOf(Shards, Pending(f, t))

NothingLost == \A f \in PerSecond : \A t \in Secs : Conserved(f, t)

(* The inductive invariant. *)
ScoringInv ==
    /\ ScoringTypeOK
    /\ NothingLost
    /\ Events <= MaxEvents

-----------------------------------------------------------------------------
LEMMA SecsFinite ==
    /\ IsFiniteSet(Secs) /\ Secs \subseteq Nat /\ 1 \in Secs
    /\ IsFiniteSet(Buckets) /\ Buckets \subseteq Nat /\ 0 \in Buckets
    /\ IsFiniteSet(0 .. MaxEvents) /\ IsFiniteSet(Shards)
<1>1. MaxSec \in Nat /\ MaxSec > 0 /\ MaxBucket \in Nat /\ MaxEvents \in Nat /\ IsFiniteSet(Shards)
  BY ScoringAssumption
<1>2. IsFiniteSet(1 .. MaxSec) /\ IsFiniteSet(0 .. MaxBucket) /\ IsFiniteSet(0 .. MaxEvents)
  BY <1>1, FS_Interval
<1>3. 1 .. MaxSec \subseteq Nat /\ 1 \in 1 .. MaxSec /\ 0 .. MaxBucket \subseteq Nat /\ 0 \in 0 .. MaxBucket
  BY <1>1
<1> QED BY <1>1, <1>2, <1>3 DEF Secs, Buckets

LEMMA BucketOfIs ==
    ASSUME NEW ns
    PROVE  BucketOf(ns) \in Buckets
<1> DEFINE S == {0} \cup {b \in Buckets \ {0} : RootPower[2 * b - 2] <= ns}
<1>1. S \subseteq Buckets /\ S # {}
  BY SecsFinite
<1>2. BucketOf(ns) = Max(S)
  BY DEF BucketOf
<1> HIDE DEF S
<1>3. IsFiniteSet(S)
  BY <1>1, SecsFinite, FS_Subset
<1>4. S \subseteq Int
  BY <1>1, SecsFinite
<1>5. Max(S) \in S
  BY <1>1, <1>3, <1>4, MaxIs
<1> QED BY <1>1, <1>2, <1>5

(* A total of natural numbers. *)
LEMMA TotalNat ==
    ASSUME NEW D, IsFiniteSet(D), NEW f \in [D -> Nat]
    PROVE  Total(f) = SumOf(D, f) /\ Total(f) \in Nat /\ \A x \in D : f[x] <= Total(f)
<1>1. Whole(D, f) /\ Natural(D, f) /\ DOMAIN f = D
  BY DEF Whole, Natural
<1>2. Total(f) = TotalOver(f, D)
  BY <1>1 DEF Total, TotalOver
<1>3. TotalOver(f, D) = SumOf(D, f)
  BY <1>1, MapSumIs
<1>4. SumOf(D, f) \in Nat /\ \A x \in D : f[x] <= SumOf(D, f)
  BY <1>1, SumOfNat
<1> QED BY <1>2, <1>3, <1>4

(* One more of something is one more in all. *)
OneMore(f, x) == [f EXCEPT ![x] = @ + 1]

LEMMA OneMoreIs ==
    ASSUME NEW D, NEW f \in [D -> Nat], NEW x \in D
    PROVE  /\ OneMore(f, x) \in [D -> Nat] /\ OneMore(f, x)[x] = f[x] + 1
           /\ \A y \in D \ {x} : OneMore(f, x)[y] = f[y]
  BY DEF OneMore

LEMMA TotalMore ==
    ASSUME NEW D, IsFiniteSet(D), NEW f \in [D -> Nat], NEW x \in D
    PROVE  Total(OneMore(f, x)) = Total(f) + 1
<1> DEFINE g == OneMore(f, x)
<1>1. OneMoved(D, x, f, g, 1) /\ Whole(D, f) /\ g \in [D -> Nat]
  BY OneMoreIs DEF OneMoved, Whole
<1> HIDE DEF g
<1>2. MovesBy(D, f, g, 1)
  BY <1>1, SumOfMoved
<1>3. SumOf(D, g) = SumOf(D, f) + 1
  BY <1>2 DEF MovesBy
<1>4. Total(f) = SumOf(D, f) /\ Total(g) = SumOf(D, g)
  BY <1>1, TotalNat
<1> QED BY <1>3, <1>4 DEF g

(* One more ack or one more error in a batch. *)
LEMMA BatchMore ==
    ASSUME NEW r \in Batch, NEW b, NEW t
    PROVE  /\ [r EXCEPT !.hist[b] = @ + 1, !.acks[t] = @ + 1]
                = [hist |-> OneMore(r.hist, b), acks |-> OneMore(r.acks, t), errs |-> r.errs, violations |-> r.violations]
           /\ [r EXCEPT !.errs[t] = @ + 1]
                = [hist |-> r.hist, acks |-> r.acks, errs |-> OneMore(r.errs, t), violations |-> r.violations]
<1>1. PICK h \in [Buckets -> Nat], a \in [Secs -> Nat], e \in [Secs -> Nat], v \in Nat :
         r = [hist |-> h, acks |-> a, errs |-> e, violations |-> v]
  BY DEF Batch
<1>2. [r EXCEPT !.errs[t] = @ + 1]
         = [hist |-> r.hist, acks |-> r.acks, errs |-> OneMore(r.errs, t), violations |-> r.violations]
  BY <1>1 DEF OneMore
<1>3. [r EXCEPT !.hist[b] = @ + 1]
         = [hist |-> OneMore(r.hist, b), acks |-> r.acks, errs |-> r.errs, violations |-> r.violations]
  BY <1>1 DEF OneMore
<1>4. [r EXCEPT !.hist[b] = @ + 1, !.acks[t] = @ + 1]
         = [[r EXCEPT !.hist[b] = @ + 1] EXCEPT !.acks[t] = @ + 1]
  OBVIOUS
<1>5. [r EXCEPT !.hist[b] = @ + 1, !.acks[t] = @ + 1]
         = [[hist |-> OneMore(r.hist, b), acks |-> r.acks, errs |-> r.errs, violations |-> r.violations]
               EXCEPT !.acks[t] = @ + 1]
  BY <1>3, <1>4
<1>6. [[hist |-> OneMore(r.hist, b), acks |-> r.acks, errs |-> r.errs, violations |-> r.violations]
               EXCEPT !.acks[t] = @ + 1]
         = [hist |-> OneMore(r.hist, b), acks |-> OneMore(r.acks, t), errs |-> r.errs, violations |-> r.violations]
  BY DEF OneMore
<1> QED BY <1>2, <1>5, <1>6

LEMMA BatchViolated ==
    ASSUME NEW r \in Batch
    PROVE  /\ [r EXCEPT !.violations = @ + 1] \in Batch
           /\ [r EXCEPT !.violations = @ + 1]
                = [hist |-> r.hist, acks |-> r.acks, errs |-> r.errs, violations |-> r.violations + 1]
<1>1. PICK h \in [Buckets -> Nat], a \in [Secs -> Nat], e \in [Secs -> Nat], v \in Nat :
         r = [hist |-> h, acks |-> a, errs |-> e, violations |-> v]
  BY DEF Batch
<1>2. [r EXCEPT !.violations = @ + 1] = [hist |-> h, acks |-> a, errs |-> e, violations |-> v + 1]
  BY <1>1
<1>3. [hist |-> h, acks |-> a, errs |-> e, violations |-> v + 1] \in Batch
  BY DEF Batch
<1>4. [hist |-> r.hist, acks |-> r.acks, errs |-> r.errs, violations |-> r.violations + 1]
         = [hist |-> h, acks |-> a, errs |-> e, violations |-> v + 1]
  BY <1>1
<1> QED BY <1>2, <1>3, <1>4

LEMMA NothingIs ==
    /\ Nothing \in Batch
    /\ \A f \in PerSecond : \A t \in Secs : Nothing[f][t] = 0
    /\ \A b \in Buckets : Nothing.hist[b] = 0
  BY DEF Nothing, Batch, PerSecond

-----------------------------------------------------------------------------
LEMMA ScoringInit ==
    ASSUME Init
    PROVE  ScoringInv
<1>1. ScoringTypeOK
  BY NothingIs, SecsFinite DEF Init, ScoringTypeOK, Truth, Batch
<1>2. \A f \in PerSecond : \A t \in Secs : Conserved(f, t)
  <2> TAKE f \in PerSecond
  <2> TAKE t \in Secs
  <2>1. truth[f][t] = 0 /\ agg[f][t] = 0
    BY NothingIs DEF Init, PerSecond
  <2>2. \A x \in Shards : Pending(f, t)[x] = 0
    BY NothingIs DEF Init, Pending
  <2>3. SumOf(Shards, Pending(f, t)) = 0
    BY <2>2, SumOfZero, SecsFinite
  <2> QED BY <2>1, <2>3 DEF Conserved
<1>3. Events <= MaxEvents
  <2>1. truth.acks = Nothing.acks /\ truth.errs = Nothing.errs
    BY DEF Init
  <2>2. \A f \in PerSecond : Total(Nothing[f]) = 0
    <3> TAKE f \in PerSecond
    <3>1. Nothing[f] \in [Secs -> Nat]
      BY NothingIs DEF PerSecond, Batch
    <3>2. SumOf(Secs, Nothing[f]) = 0
      BY NothingIs, SumOfZero, SecsFinite
    <3> QED BY <3>1, <3>2, TotalNat, SecsFinite
  <2>3. Total(Nothing["acks"]) = 0 /\ Total(Nothing["errs"]) = 0
    BY <2>2 DEF PerSecond
  <2> QED BY <2>1, <2>3, ScoringAssumption DEF Events
<1> QED BY <1>1, <1>2, <1>3 DEF ScoringInv, NothingLost

-----------------------------------------------------------------------------
(* One shard's entry changes by d, the truth by e and the aggregate by the *)
(* difference.                                                             *)
Shifts(f, t, s, d, e) ==
    /\ delta'[s][f][t] = delta[s][f][t] + d
    /\ \A x \in Shards \ {s} : delta'[x][f][t] = delta[x][f][t]
    /\ truth'[f][t] = truth[f][t] + e
    /\ agg'[f][t] = agg[f][t] + e - d

LEMMA OneShardMoves ==
    ASSUME ScoringInv, NEW f \in PerSecond, NEW t \in Secs, NEW s \in Shards, NEW d \in Int, NEW e \in Int,
           Shifts(f, t, s, d, e)
    PROVE  Conserved(f, t)'
<1>1. Whole(Shards, Pending(f, t))
  BY DEF ScoringInv, ScoringTypeOK, Batch, Pending, Whole, PerSecond
<1>2. OneMoved(Shards, s, Pending(f, t), Pending(f, t)', d)
  BY DEF OneMoved, Pending, Shifts
<1> DEFINE p == SumOf(Shards, Pending(f, t))
           q == SumOf(Shards, Pending(f, t)')
<1>3. q = p + d
  <2>1. MovesBy(Shards, Pending(f, t), Pending(f, t)', d)
    BY <1>1, <1>2, SumOfMoved, SecsFinite
  <2> QED BY <2>1 DEF MovesBy
<1>4. p \in Int
  BY <1>1, SumOfInt, SecsFinite DEF Whole
<1>5. truth[f][t] = agg[f][t] + p /\ agg[f][t] \in Int /\ truth[f][t] \in Int
  BY DEF ScoringInv, ScoringTypeOK, Batch, Truth, PerSecond, NothingLost, Conserved
<1> HIDE DEF p, q
<1>6. truth'[f][t] = agg'[f][t] + q
  BY <1>3, <1>4, <1>5 DEF Shifts
<1> QED BY <1>6 DEF Conserved, q

LEMMA TickKeeps ==
    ASSUME ScoringInv, Tick
    PROVE  ScoringInv'
<1>1. now' \in Secs
  BY ScoringAssumption DEF Tick, ScoringInv, ScoringTypeOK, Secs
<1>2. NothingLost'
  BY DEF Tick, ScoringInv, NothingLost, Conserved, Pending
<1>3. Events' = Events
  BY DEF Tick, Events
<1> QED BY <1>1, <1>2, <1>3 DEF Tick, ScoringInv, ScoringTypeOK

LEMMA AckKeeps ==
    ASSUME ScoringInv, NEW s \in Shards, NEW ns \in Latencies, Ack(s, ns)
    PROVE  ScoringInv'
<1> DEFINE d == delta[s]
           b == BucketOf(ns)
           e == [hist |-> OneMore(d.hist, b), acks |-> OneMore(d.acks, now),
                 errs |-> d.errs, violations |-> d.violations]
<1>1. now \in Secs /\ delta \in [Shards -> Batch] /\ agg \in Batch /\ truth \in Truth /\ d \in Batch
  BY DEF ScoringInv, ScoringTypeOK
<1>2. /\ d.hist \in [Buckets -> Nat] /\ d.acks \in [Secs -> Nat] /\ d.errs \in [Secs -> Nat] /\ d.violations \in Nat
      /\ truth.acks \in [Secs -> Nat] /\ truth.errs \in [Secs -> Nat]
      /\ agg.acks \in [Secs -> Nat] /\ agg.errs \in [Secs -> Nat]
  BY <1>1 DEF Batch, Truth
<1>3. delta' = [delta EXCEPT ![s] = e]
  <2>1. delta' = [delta EXCEPT ![s] = [d EXCEPT !.hist[b] = @ + 1, !.acks[now] = @ + 1]]
    BY <1>1 DEF Ack
  <2>2. [d EXCEPT !.hist[b] = @ + 1, !.acks[now] = @ + 1] = e
    BY <1>1, BatchMore
  <2> QED BY <2>1, <2>2
<1>4. OneMore(d.acks, now) \in [Secs -> Nat] /\ OneMore(truth.acks, now) \in [Secs -> Nat]
  BY <1>1, <1>2, OneMoreIs
<1>5. OneMore(d.hist, b) \in [Buckets -> Nat]
  BY <1>2, BucketOfIs, OneMoreIs
<1>6. OneMore(truth.lat, ns) \in [Latencies -> Nat]
  BY <1>1, OneMoreIs DEF Truth
<1>7. e \in Batch
  BY <1>2, <1>4, <1>5 DEF Batch
<1>8. truth' = [lat |-> OneMore(truth.lat, ns), acks |-> OneMore(truth.acks, now), errs |-> truth.errs]
  BY <1>1 DEF Ack, Truth, OneMore
<1>9. truth' \in Truth
  BY <1>2, <1>4, <1>6, <1>8 DEF Truth
<1>10. ScoringTypeOK'
  <2> HIDE DEF e
  <2>1. delta' \in [Shards -> Batch]
    BY <1>1, <1>3, <1>7
  <2>2. now' = now /\ agg' = agg
    BY DEF Ack
  <2> QED BY <1>1, <1>9, <2>1, <2>2 DEF ScoringTypeOK
<1>11. /\ delta'[s].acks = OneMore(d.acks, now) /\ delta'[s].errs = d.errs
       /\ \A x \in Shards \ {s} : delta'[x] = delta[x]
       /\ truth'.acks = OneMore(truth.acks, now) /\ truth'.errs = truth.errs /\ agg' = agg
  <2>1. e.acks = OneMore(d.acks, now) /\ e.errs = d.errs
    OBVIOUS
  <2> HIDE DEF e, d
  <2>2. delta'[s] = e /\ \A x \in Shards \ {s} : delta'[x] = delta[x]
    BY <1>1, <1>3
  <2>3. truth'.acks = OneMore(truth.acks, now) /\ truth'.errs = truth.errs
    BY <1>8
  <2>4. agg' = agg
    BY DEF Ack
  <2> QED BY <2>1, <2>2, <2>3, <2>4
<1> HIDE DEF e
<1>14. /\ OneMore(d.acks, now)[now] = d.acks[now] + 1
       /\ \A t \in Secs \ {now} : OneMore(d.acks, now)[t] = d.acks[t]
       /\ OneMore(truth.acks, now)[now] = truth.acks[now] + 1
       /\ \A t \in Secs \ {now} : OneMore(truth.acks, now)[t] = truth.acks[t]
  <2>1. ASSUME NEW g \in [Secs -> Nat]
        PROVE  /\ OneMore(g, now)[now] = g[now] + 1
               /\ \A t \in Secs \ {now} : OneMore(g, now)[t] = g[t]
    BY <1>1, OneMoreIs
  <2> QED BY <1>2, <2>1
<1>12. NothingLost'
  <2> SUFFICES ASSUME NEW f \in PerSecond, NEW t \in Secs PROVE Conserved(f, t)'
    BY DEF NothingLost
  <2>1. \A x \in Shards \ {s} : delta'[x][f][t] = delta[x][f][t]
    BY <1>11
  <2>2. CASE f = "acks" /\ t = now
    <3>1. delta'[s][f][t] = delta[s][f][t] + 1 /\ truth'[f][t] = truth[f][t] + 1
      BY <1>11, <1>14, <2>2
    <3>2. agg'[f][t] = agg[f][t] + 1 - 1
      BY <1>2, <1>11, <2>2
    <3>3. Shifts(f, t, s, 1, 1)
      BY <2>1, <3>1, <3>2 DEF Shifts
    <3> QED BY <3>3, OneShardMoves
  <2>3. CASE ~(f = "acks" /\ t = now)
    <3>1. delta'[s][f][t] = delta[s][f][t] /\ truth'[f][t] = truth[f][t]
      BY <1>11, <1>14, <2>3 DEF PerSecond
    <3>2. delta[s][f][t] \in Nat /\ truth[f][t] \in Nat /\ agg[f][t] \in Nat
      BY <1>2 DEF PerSecond
    <3>3. delta'[s][f][t] = delta[s][f][t] + 0 /\ truth'[f][t] = truth[f][t] + 0 /\ agg'[f][t] = agg[f][t] + 0 - 0
      BY <1>11, <3>1, <3>2
    <3>4. Shifts(f, t, s, 0, 0)
      BY <2>1, <3>3 DEF Shifts
    <3> QED BY <3>4, OneShardMoves
  <2> QED BY <2>2, <2>3
<1>13. Events' <= MaxEvents
  <2>1. Total(truth'.acks) = Total(truth.acks) + 1
    <3>1. Total(OneMore(truth.acks, now)) = Total(truth.acks) + 1
      BY <1>1, <1>2, TotalMore, SecsFinite
    <3> QED BY <1>11, <3>1
  <2>2. Total(truth.acks) \in Nat /\ Total(truth.errs) \in Nat
    BY <1>2, TotalNat, SecsFinite
  <2>3. Events' = Events + 1 /\ Events \in Nat
    BY <1>11, <2>1, <2>2 DEF Events
  <2> QED BY <2>3, ScoringAssumption DEF Ack
<1> QED BY <1>10, <1>12, <1>13 DEF ScoringInv

LEMMA ErrorKeeps ==
    ASSUME ScoringInv, NEW s \in Shards, Error(s)
    PROVE  ScoringInv'
<1> DEFINE d == delta[s]
           e == [hist |-> d.hist, acks |-> d.acks,
                 errs |-> OneMore(d.errs, now), violations |-> d.violations]
<1>1. now \in Secs /\ delta \in [Shards -> Batch] /\ agg \in Batch /\ truth \in Truth /\ d \in Batch
  BY DEF ScoringInv, ScoringTypeOK
<1>2. /\ d.hist \in [Buckets -> Nat] /\ d.acks \in [Secs -> Nat] /\ d.errs \in [Secs -> Nat] /\ d.violations \in Nat
      /\ truth.acks \in [Secs -> Nat] /\ truth.errs \in [Secs -> Nat]
      /\ agg.acks \in [Secs -> Nat] /\ agg.errs \in [Secs -> Nat]
  BY <1>1 DEF Batch, Truth
<1>3. delta' = [delta EXCEPT ![s] = e]
  <2>1. delta' = [delta EXCEPT ![s] = [d EXCEPT !.errs[now] = @ + 1]]
    BY <1>1 DEF Error
  <2>2. [d EXCEPT !.errs[now] = @ + 1] = e
    BY <1>1, BatchMore
  <2> QED BY <2>1, <2>2
<1>4. OneMore(d.errs, now) \in [Secs -> Nat] /\ OneMore(truth.errs, now) \in [Secs -> Nat]
  BY <1>1, <1>2, OneMoreIs
<1>7. e \in Batch
  BY <1>2, <1>4 DEF Batch
<1>8. truth' = [lat |-> truth.lat, acks |-> truth.acks, errs |-> OneMore(truth.errs, now)]
  BY <1>1 DEF Error, Truth, OneMore
<1>9. truth' \in Truth
  BY <1>1, <1>2, <1>4, <1>8 DEF Truth
<1>10. ScoringTypeOK'
  <2> HIDE DEF e
  <2>1. delta' \in [Shards -> Batch]
    BY <1>1, <1>3, <1>7
  <2>2. now' = now /\ agg' = agg
    BY DEF Error
  <2> QED BY <1>1, <1>9, <2>1, <2>2 DEF ScoringTypeOK
<1>11. /\ delta'[s].errs = OneMore(d.errs, now) /\ delta'[s].acks = d.acks
       /\ \A x \in Shards \ {s} : delta'[x] = delta[x]
       /\ truth'.errs = OneMore(truth.errs, now) /\ truth'.acks = truth.acks /\ agg' = agg
  <2>1. e.errs = OneMore(d.errs, now) /\ e.acks = d.acks
    OBVIOUS
  <2> HIDE DEF e, d
  <2>2. delta'[s] = e /\ \A x \in Shards \ {s} : delta'[x] = delta[x]
    BY <1>1, <1>3
  <2>3. truth'.errs = OneMore(truth.errs, now) /\ truth'.acks = truth.acks
    BY <1>8
  <2>4. agg' = agg
    BY DEF Error
  <2> QED BY <2>1, <2>2, <2>3, <2>4
<1> HIDE DEF e
<1>14. /\ OneMore(d.errs, now)[now] = d.errs[now] + 1
       /\ \A t \in Secs \ {now} : OneMore(d.errs, now)[t] = d.errs[t]
       /\ OneMore(truth.errs, now)[now] = truth.errs[now] + 1
       /\ \A t \in Secs \ {now} : OneMore(truth.errs, now)[t] = truth.errs[t]
  <2>1. ASSUME NEW g \in [Secs -> Nat]
        PROVE  /\ OneMore(g, now)[now] = g[now] + 1
               /\ \A t \in Secs \ {now} : OneMore(g, now)[t] = g[t]
    BY <1>1, OneMoreIs
  <2> QED BY <1>2, <2>1
<1>12. NothingLost'
  <2> SUFFICES ASSUME NEW f \in PerSecond, NEW t \in Secs PROVE Conserved(f, t)'
    BY DEF NothingLost
  <2>1. \A x \in Shards \ {s} : delta'[x][f][t] = delta[x][f][t]
    BY <1>11
  <2>2. CASE f = "errs" /\ t = now
    <3>1. delta'[s][f][t] = delta[s][f][t] + 1 /\ truth'[f][t] = truth[f][t] + 1
      BY <1>11, <1>14, <2>2
    <3>2. agg'[f][t] = agg[f][t] + 1 - 1
      BY <1>2, <1>11, <2>2
    <3>3. Shifts(f, t, s, 1, 1)
      BY <2>1, <3>1, <3>2 DEF Shifts
    <3> QED BY <3>3, OneShardMoves
  <2>3. CASE ~(f = "errs" /\ t = now)
    <3>1. delta'[s][f][t] = delta[s][f][t] /\ truth'[f][t] = truth[f][t]
      BY <1>11, <1>14, <2>3 DEF PerSecond
    <3>2. delta[s][f][t] \in Nat /\ truth[f][t] \in Nat /\ agg[f][t] \in Nat
      BY <1>2 DEF PerSecond
    <3>3. delta'[s][f][t] = delta[s][f][t] + 0 /\ truth'[f][t] = truth[f][t] + 0 /\ agg'[f][t] = agg[f][t] + 0 - 0
      BY <1>11, <3>1, <3>2
    <3>4. Shifts(f, t, s, 0, 0)
      BY <2>1, <3>3 DEF Shifts
    <3> QED BY <3>4, OneShardMoves
  <2> QED BY <2>2, <2>3
<1>13. Events' <= MaxEvents
  <2>1. Total(truth'.errs) = Total(truth.errs) + 1
    <3>1. Total(OneMore(truth.errs, now)) = Total(truth.errs) + 1
      BY <1>1, <1>2, TotalMore, SecsFinite
    <3> QED BY <1>11, <3>1
  <2>2. Total(truth.acks) \in Nat /\ Total(truth.errs) \in Nat
    BY <1>2, TotalNat, SecsFinite
  <2>3. Events' = Events + 1 /\ Events \in Nat
    BY <1>11, <2>1, <2>2 DEF Events
  <2> QED BY <2>3, ScoringAssumption DEF Error
<1> QED BY <1>10, <1>12, <1>13 DEF ScoringInv

LEMMA ViolateKeeps ==
    ASSUME ScoringInv, NEW s \in Shards, Violate(s)
    PROVE  ScoringInv'
<1> DEFINE d == delta[s]
<1>1. delta \in [Shards -> Batch] /\ d \in Batch /\ truth' = truth /\ agg' = agg /\ now' = now
  BY DEF ScoringInv, ScoringTypeOK, Violate
<1>2. delta' = [delta EXCEPT ![s] = [d EXCEPT !.violations = @ + 1]]
  BY <1>1 DEF Violate
<1> DEFINE e == [d EXCEPT !.violations = @ + 1]
<1>3. e \in Batch
  BY <1>1, BatchViolated
<1>4. ScoringTypeOK'
  <2> HIDE DEF d
  <2>1. delta' \in [Shards -> Batch]
    <3> HIDE DEF e
    <3>1. delta' = [delta EXCEPT ![s] = e]
      BY <1>2 DEF e
    <3> QED BY <1>1, <1>3, <3>1
  <2> QED BY <1>1, <2>1 DEF ScoringInv, ScoringTypeOK
<1>5. \A x \in Shards : delta'[x].acks = delta[x].acks /\ delta'[x].errs = delta[x].errs
  BY <1>1, <1>2 DEF Batch
<1>6. \A f \in PerSecond : \A t \in Secs : Pending(f, t)' = Pending(f, t)
  BY <1>5 DEF Pending, PerSecond
<1>7. NothingLost'
  BY <1>1, <1>6 DEF ScoringInv, NothingLost, Conserved
<1>8. Events' = Events
  BY <1>1 DEF Events
<1> QED BY <1>4, <1>7, <1>8 DEF ScoringInv

LEMMA FoldKeeps ==
    ASSUME ScoringInv, NEW s \in Shards, Fold(s)
    PROVE  ScoringInv'
<1> DEFINE d == delta[s]
<1>1. now \in Secs /\ delta \in [Shards -> Batch] /\ agg \in Batch /\ truth \in Truth /\ d \in Batch
  BY DEF ScoringInv, ScoringTypeOK
<1>2. /\ delta' = [delta EXCEPT ![s] = Nothing] /\ truth' = truth /\ now' = now
      /\ agg' = [hist |-> Merge(agg.hist, d.hist), acks |-> Merge(agg.acks, d.acks),
                 errs |-> Merge(agg.errs, d.errs), violations |-> agg.violations + d.violations]
  BY DEF Fold
<1>3. ASSUME NEW D, NEW g \in [D -> Nat], NEW h \in [D -> Nat]
      PROVE  Merge(g, h) \in [D -> Nat] /\ \A k \in D : Merge(g, h)[k] = g[k] + h[k]
  BY DEF Merge
<1>4. /\ d.hist \in [Buckets -> Nat] /\ agg.hist \in [Buckets -> Nat]
      /\ d.acks \in [Secs -> Nat] /\ agg.acks \in [Secs -> Nat]
      /\ d.errs \in [Secs -> Nat] /\ agg.errs \in [Secs -> Nat]
      /\ d.violations \in Nat /\ agg.violations \in Nat
  BY <1>1 DEF Batch
<1>5. /\ Merge(agg.hist, d.hist) \in [Buckets -> Nat]
      /\ Merge(agg.acks, d.acks) \in [Secs -> Nat] /\ Merge(agg.errs, d.errs) \in [Secs -> Nat]
  BY <1>3, <1>4
<1>6. agg' \in Batch
  BY <1>2, <1>4, <1>5 DEF Batch
<1>7. ScoringTypeOK'
  BY <1>1, <1>2, <1>6, NothingIs DEF ScoringTypeOK
<1>8. NothingLost'
  <2> SUFFICES ASSUME NEW f \in PerSecond, NEW t \in Secs PROVE Conserved(f, t)'
    BY DEF NothingLost
  <2> DEFINE n == d[f][t]
             m == agg[f][t]
  <2>1. n \in Nat /\ m \in Nat /\ truth[f][t] \in Nat
    BY <1>1, <1>4 DEF PerSecond, Truth
  <2>2. agg'[f][t] = m + n
    BY <1>2, <1>3, <1>4 DEF PerSecond
  <2>3. delta'[s][f][t] = 0 /\ \A x \in Shards \ {s} : delta'[x][f][t] = delta[x][f][t]
    BY <1>1, <1>2, NothingIs
  <2>4. delta'[s][f][t] = delta[s][f][t] + (0 - n)
    BY <2>1, <2>3
  <2>6. truth'[f][t] = truth[f][t] + 0
    BY <1>2, <2>1
  <2>5. agg'[f][t] = agg[f][t] + 0 - (0 - n) /\ 0 - n \in Int
    BY <2>1, <2>2
  <2> HIDE DEF n
  <2>7. Shifts(f, t, s, 0 - n, 0)
    BY <2>3, <2>4, <2>5, <2>6 DEF Shifts
  <2> QED BY <2>5, <2>7, OneShardMoves
<1>9. Events' = Events
  BY <1>2 DEF Events
<1> QED BY <1>7, <1>8, <1>9 DEF ScoringInv

(* The invariant holds at every moment. *)
LEMMA ScoringInvariant == Spec => []ScoringInv
<1>1. Init => ScoringInv
  BY ScoringInit
<1>2. ScoringInv /\ [Next]_vars => ScoringInv'
  <2> SUFFICES ASSUME ScoringInv, [Next]_vars PROVE ScoringInv'
    OBVIOUS
  <2>1. CASE UNCHANGED vars
    BY <2>1 DEF vars, ScoringInv, ScoringTypeOK, NothingLost, Conserved, Pending, Events
  <2>2. CASE Next
    BY <2>2, TickKeeps, AckKeeps, ErrorKeeps, ViolateKeeps, FoldKeeps DEF Next
  <2> QED BY <2>1, <2>2
<1> QED BY <1>1, <1>2, PTL DEF Spec

-----------------------------------------------------------------------------
(* The throughput. *)

(* Few enough of the requests of second t failed. *)
Clean(acks, errs, t) == 100 * errs[t] < ErrPercent * (acks[t] + errs[t])

LEMMA SustainedIs ==
    ASSUME NEW acks \in [Secs -> Nat], NEW errs \in [Secs -> Nat], \A t \in Secs : acks[t] <= MaxEvents
    PROVE  /\ Sustained(acks, errs) \in 0 .. MaxEvents
           /\ Sustained(acks, errs) > 0 =>
                 \E t \in Secs : Clean(acks, errs, t) /\ acks[t] = Sustained(acks, errs)
           /\ \A t \in Secs : Clean(acks, errs, t) => acks[t] <= Sustained(acks, errs)
<1> DEFINE C == {t \in Secs : acks[t] > 0 /\ Clean(acks, errs, t)}
           S == {0} \cup {acks[t] : t \in C}
<1>1. Sustained(acks, errs) = Max(S)
  BY DEF Sustained, Clean
<1>2. S \subseteq 0 .. MaxEvents /\ S # {} /\ S \subseteq Int
  BY ScoringAssumption
<1>3. \A t \in C : acks[t] \in S
  OBVIOUS
<1>4. 0 \in S /\ \A k \in S : k = 0 \/ \E t \in C : acks[t] = k
  OBVIOUS
<1> HIDE DEF S
<1>5. IsFiniteSet(S)
  BY <1>2, SecsFinite, FS_Subset
<1>6. Max(S) \in S /\ Max(S) \in Int /\ \A y \in S : y <= Max(S)
  BY <1>2, <1>5, MaxIs
<1>7. ASSUME NEW t \in Secs, Clean(acks, errs, t) PROVE acks[t] <= Max(S)
  <2>1. CASE acks[t] > 0
    BY <1>3, <1>6, <1>7, <2>1
  <2>2. CASE acks[t] = 0
    BY <1>4, <1>6, <2>2
  <2> QED BY <2>1, <2>2
<1>8. ASSUME Max(S) > 0 PROVE \E t \in Secs : Clean(acks, errs, t) /\ acks[t] = Max(S)
  BY <1>4, <1>6, <1>8
<1>9. Max(S) \in 0 .. MaxEvents
  BY <1>2, <1>6
<1> QED BY <1>1, <1>7, <1>8, <1>9

(* What the ingester holds of a second is no more than what happened in it,*)
(* and all of it when every batch has been folded.                         *)
LEMMA AggregateIs ==
    ASSUME ScoringInv
    PROVE  /\ agg.acks \in [Secs -> Nat] /\ agg.errs \in [Secs -> Nat]
           /\ \A t \in Secs : agg.acks[t] <= MaxEvents
           /\ AllFolded => \A t \in Secs : agg.acks[t] = truth.acks[t] /\ agg.errs[t] = truth.errs[t]
<1>1. /\ agg.acks \in [Secs -> Nat] /\ agg.errs \in [Secs -> Nat]
      /\ truth.acks \in [Secs -> Nat] /\ truth.errs \in [Secs -> Nat]
  BY DEF ScoringInv, ScoringTypeOK, Batch, Truth
<1>2. \A f \in PerSecond : \A t \in Secs : Natural(Shards, Pending(f, t))
  BY DEF ScoringInv, ScoringTypeOK, Batch, Natural, Pending, PerSecond
<1>3. \A f \in PerSecond : \A t \in Secs : SumOf(Shards, Pending(f, t)) \in Nat
  BY <1>2, SumOfNat, SecsFinite
<1>4. \A f \in PerSecond : \A t \in Secs : truth[f][t] = agg[f][t] + SumOf(Shards, Pending(f, t))
  BY DEF ScoringInv, NothingLost, Conserved
<1>5. ASSUME NEW t \in Secs PROVE agg.acks[t] <= MaxEvents
  <2>1. /\ Total(truth.acks) \in Nat /\ truth.acks[t] <= Total(truth.acks)
        /\ Total(truth.errs) \in Nat /\ Total(truth.acks) + Total(truth.errs) <= MaxEvents
    BY <1>1, TotalNat, SecsFinite DEF ScoringInv, Events
  <2> DEFINE p == SumOf(Shards, Pending("acks", t))
  <2>2. truth.acks[t] = agg.acks[t] + p /\ p \in Nat
    BY <1>3, <1>4 DEF PerSecond
  <2>3. truth.acks[t] \in Nat /\ agg.acks[t] \in Nat /\ MaxEvents \in Nat
    BY <1>1, ScoringAssumption
  <2> HIDE DEF p
  <2> QED BY <2>1, <2>2, <2>3
<1>6. ASSUME AllFolded, NEW f \in PerSecond, NEW t \in Secs PROVE agg[f][t] = truth[f][t]
  <2>1. \A x \in Shards : Pending(f, t)[x] = 0
    BY <1>6, NothingIs DEF AllFolded, Pending
  <2>2. SumOf(Shards, Pending(f, t)) = 0
    BY <2>1, SumOfZero, SecsFinite
  <2>3. agg[f][t] \in Nat
    BY <1>1 DEF PerSecond
  <2> QED BY <1>4, <2>2, <2>3
<1>7. AllFolded => \A t \in Secs : agg.acks[t] = truth.acks[t] /\ agg.errs[t] = truth.errs[t]
  BY <1>6 DEF PerSecond
<1> QED BY <1>1, <1>5, <1>7

(* The throughput is one that the engine really sustained: compute() takes *)
(* the best clean second of the acks and errors of all shards together,    *)
(* however they were spread over batches.                                  *)
THEOREM ThroughputIsReal == Spec => []ThroughputReal
<1>1. ASSUME ScoringInv PROVE ThroughputReal
  <2> SUFFICES ASSUME AllFolded
               PROVE  /\ Sustained(agg.acks, agg.errs) > 0 =>
                           \E t \in Secs : /\ 100 * truth.errs[t] < ErrPercent * (truth.acks[t] + truth.errs[t])
                                           /\ truth.acks[t] = Sustained(agg.acks, agg.errs)
                      /\ \A t \in Secs : 100 * truth.errs[t] < ErrPercent * (truth.acks[t] + truth.errs[t]) =>
                            truth.acks[t] <= Sustained(agg.acks, agg.errs)
    BY DEF ThroughputReal
  <2>1. \A t \in Secs : agg.acks[t] = truth.acks[t] /\ agg.errs[t] = truth.errs[t]
    BY <1>1, AggregateIs
  <2>2. \A t \in Secs : Clean(agg.acks, agg.errs, t)
                          <=> 100 * truth.errs[t] < ErrPercent * (truth.acks[t] + truth.errs[t])
    BY <2>1 DEF Clean
  <2>3. /\ Sustained(agg.acks, agg.errs) > 0 =>
             \E t \in Secs : Clean(agg.acks, agg.errs, t) /\ agg.acks[t] = Sustained(agg.acks, agg.errs)
        /\ \A t \in Secs : Clean(agg.acks, agg.errs, t) => agg.acks[t] <= Sustained(agg.acks, agg.errs)
    BY <1>1, AggregateIs, SustainedIs
  <2> QED BY <2>1, <2>2, <2>3
<1> QED BY <1>1, ScoringInvariant, PTL

-----------------------------------------------------------------------------
(* The marks. *)

LEMMA PairMax ==
    ASSUME NEW x \in Int, NEW y \in Int
    PROVE  /\ Max({x, y}) = (IF x >= y THEN x ELSE y)
           /\ Min({x, y}) = (IF x =< y THEN x ELSE y)
<1>1. IsFiniteSet({x, y})
  <2>1. IsFiniteSet({x})
    BY FS_Singleton
  <2>2. IsFiniteSet({x} \cup {y})
    BY <2>1, FS_AddElement
  <2>3. {x} \cup {y} = {x, y}
    OBVIOUS
  <2> QED BY <2>2, <2>3
<1>2. {x, y} # {} /\ {x, y} \subseteq Int
  OBVIOUS
<1>3. Max({x, y}) \in {x, y} /\ \A z \in {x, y} : z <= Max({x, y})
  BY <1>1, <1>2, MaxIs
<1>4. Min({x, y}) \in {x, y} /\ \A z \in {x, y} : Min({x, y}) <= z
  BY <1>1, <1>2, MinIs
<1>5. Max({x, y}) = IF x >= y THEN x ELSE y
  BY <1>3
<1>6. Min({x, y}) = IF x =< y THEN x ELSE y
  BY <1>4
<1> QED BY <1>5, <1>6

LEMMA ClampIs ==
    ASSUME NEW full \in Nat, NEW x \in Int
    PROVE  /\ Clamp(x, full) \in 0 .. full
           /\ \A y \in Int : x <= y => Clamp(x, full) <= Clamp(y, full)
<1>1. ASSUME NEW y \in Int
      PROVE  Clamp(y, full) = IF y <= 0 THEN 0 ELSE IF full <= y THEN full ELSE y
  <2> DEFINE m == Min({full, y})
  <2>1. m = IF full =< y THEN full ELSE y
    BY PairMax
  <2>2. m \in Int
    BY <2>1
  <2>3. Clamp(y, full) = Max({0, m})
    BY DEF Clamp
  <2> HIDE DEF m
  <2>4. Max({0, m}) = IF 0 >= m THEN 0 ELSE m
    BY <2>2, PairMax
  <2> QED BY <2>1, <2>2, <2>3, <2>4
<1> QED BY <1>1

(* A histogram with something in it has a bucket at which the cumulative   *)
(* count reaches the rank: at the latest the last one that is not empty.   *)
LEMMA QuantileBucketIs ==
    ASSUME NEW c \in [Buckets -> Nat], Total(c) > 0
    PROVE  QuantileBucket(c, 99) \in Buckets
<1> DEFINE U == {b \in Buckets : c[b] > 0}
           Upto(b) == {k \in Buckets : k <= b}
           S == {b \in Buckets : c[b] > 0 /\ TotalOver(c, Upto(b)) >= Rank(Total(c), 99)}
<1>1. QuantileBucket(c, 99) = Min(S)
  <2>1. DOMAIN c = Buckets
    OBVIOUS
  <2> QED BY <2>1 DEF QuantileBucket, TotalOver
<1>2. Total(c) = SumOf(Buckets, c) /\ Total(c) \in Nat
  BY TotalNat, SecsFinite
<1>3. U # {}
  <2> SUFFICES ASSUME U = {} PROVE FALSE
    OBVIOUS
  <2>1. \A b \in Buckets : c[b] = 0
    OBVIOUS
  <2>2. SumOf(Buckets, c) = 0
    BY <2>1, SumOfZero, SecsFinite
  <2> QED BY <1>2, <2>2
<1>4. U \subseteq Buckets /\ U \subseteq Int /\ IsFiniteSet(U)
  <2>1. U \subseteq Buckets
    OBVIOUS
  <2> HIDE DEF U
  <2>2. U \subseteq Int
    BY <2>1, SecsFinite
  <2>3. IsFiniteSet(U)
    BY <2>1, SecsFinite, FS_Subset
  <2> QED BY <2>1, <2>2, <2>3
<1> DEFINE m == Max(U)
<1>5. m \in U /\ \A b \in U : b <= m
  <2> HIDE DEF U
  <2> QED BY <1>3, <1>4, MaxIs
<1> HIDE DEF m
<1>6. m \in Buckets /\ m \in Nat /\ c[m] > 0
  BY <1>5, SecsFinite
<1>7. \A k \in Buckets \ Upto(m) : c[k] = 0
  <2> TAKE k \in Buckets \ Upto(m)
  <2>1. ~(k <= m) /\ k \in Nat
    BY SecsFinite
  <2>2. k \notin U
    BY <1>5, <2>1
  <2> QED BY <2>2
<1>8. SumOf(Upto(m), c) = SumOf(Buckets, c)
  <2>1. Whole(Buckets, c) /\ Upto(m) \in SUBSET Buckets
    BY DEF Whole
  <2> HIDE DEF Upto
  <2> QED BY <1>7, <2>1, SumOfSupport, SecsFinite
<1>9. TotalOver(c, Upto(m)) = SumOf(Upto(m), c)
  <2>1. Whole(Upto(m), c) /\ Upto(m) \in SUBSET Buckets
    BY DEF Whole
  <2> HIDE DEF Upto
  <2>2. IsFiniteSet(Upto(m))
    BY <2>1, SecsFinite, FS_Subset
  <2> QED BY <2>1, <2>2, MapSumIs
<1>10. Total(c) >= Rank(Total(c), 99)
  <2>1. ASSUME NEW n \in Nat, n > 0 PROVE n >= Rank(n, 99)
    BY <2>1 DEF Rank
  <2> QED BY <1>2, <2>1
<1>11. TotalOver(c, Upto(m)) >= Rank(Total(c), 99)
  BY <1>2, <1>8, <1>9, <1>10
<1>12. m \in S
  BY <1>6, <1>11
<1>13. S \subseteq Buckets
  OBVIOUS
<1> HIDE DEF S
<1>14. S # {} /\ S \subseteq Int /\ IsFiniteSet(S)
  <2>1. S # {} /\ S \subseteq Int
    BY <1>12, <1>13, SecsFinite
  <2>2. IsFiniteSet(S)
    BY <1>13, SecsFinite, FS_Subset
  <2> QED BY <2>1, <2>2
<1>15. Min(S) \in S
  BY <1>14, MinIs
<1> QED BY <1>1, <1>13, <1>15

LEMMA LatMarksIs ==
    ASSUME NEW c \in [Buckets -> Nat]
    PROVE  LatMarks(c) \in 0 .. LatZero - LatFull
<1>1. LatSteps(c) \in Int
  <2>1. Total(c) \in Nat
    BY TotalNat, SecsFinite
  <2>2. CASE Total(c) = 0
    BY <2>2 DEF LatSteps
  <2>3. CASE Total(c) > 0
    <3>1. QuantileBucket(c, 99) \in Nat
      BY <2>3, QuantileBucketIs, SecsFinite
    <3> QED BY <2>1, <2>3, <3>1 DEF LatSteps
  <2> QED BY <2>1, <2>2, <2>3
<1>2. LatZero - LatFull \in Nat /\ LatZero - LatSteps(c) \in Int
  BY <1>1, ScoringAssumption
<1> QED BY <1>2, ClampIs DEF LatMarks

ThrOf(a) == Clamp(ThrMarks(Sustained(a.acks, a.errs)), ThrMarks(TpsFull))

(* An aggregate whose throughput is on the scale. *)
Marked(a) == a \in Batch /\ \A t \in Secs : a.acks[t] <= MaxEvents

LEMMA ThrOfIs ==
    ASSUME NEW a, Marked(a)
    PROVE  /\ ThrOf(a) \in 0 .. ThrMarks(TpsFull)
           /\ \A b : Marked(b) /\ Sustained(a.acks, a.errs) <= Sustained(b.acks, b.errs) => ThrOf(a) <= ThrOf(b)
<1>1. ASSUME NEW b, Marked(b)
      PROVE  /\ Sustained(b.acks, b.errs) \in 0 .. MaxEvents
             /\ ThrMarks(Sustained(b.acks, b.errs)) \in Int
  <2>1. b.acks \in [Secs -> Nat] /\ b.errs \in [Secs -> Nat] /\ \A t \in Secs : b.acks[t] <= MaxEvents
    BY <1>1 DEF Marked, Batch
  <2>2. Sustained(b.acks, b.errs) \in 0 .. MaxEvents
    BY <2>1, SustainedIs
  <2> QED BY <2>2, ScoringAssumption
<1>2. ThrMarks(TpsFull) \in Nat
  BY ScoringAssumption
<1>3. ThrOf(a) \in 0 .. ThrMarks(TpsFull)
  BY <1>1, <1>2, ClampIs DEF ThrOf
<1>4. ASSUME NEW b, Marked(b), Sustained(a.acks, a.errs) <= Sustained(b.acks, b.errs)
      PROVE  ThrOf(a) <= ThrOf(b)
  <2>1. ThrMarks(Sustained(a.acks, a.errs)) <= ThrMarks(Sustained(b.acks, b.errs))
    BY <1>1, <1>4, ScoringAssumption
  <2> QED BY <1>1, <1>2, <1>4, <2>1, ClampIs DEF ThrOf
<1> QED BY <1>3, <1>4

LEMMA RightIs ==
    ASSUME NEW a \in Batch
    PROVE  /\ Out(a) \in Nat /\ Out(a) >= 1 /\ Right(a) \in 0 .. Out(a)
           /\ Out(a) = IF Total(a.acks) >= 1 THEN Total(a.acks) ELSE 1
           /\ Right(a) = IF Total(a.acks) >= a.violations THEN Total(a.acks) - a.violations ELSE 0
<1>1. Total(a.acks) \in Nat /\ a.violations \in Nat
  BY TotalNat, SecsFinite DEF Batch
<1>2. Out(a) = IF 1 >= Total(a.acks) THEN 1 ELSE Total(a.acks)
  BY <1>1, PairMax DEF Out, Judged
<1>3. Right(a) = IF 0 >= Total(a.acks) - a.violations THEN 0 ELSE Total(a.acks) - a.violations
  BY <1>1, PairMax DEF Right, Judged
<1> QED BY <1>1, <1>2, <1>3

-----------------------------------------------------------------------------
(* The composite score, as a function of the marks: lat of f, thr of k,    *)
(* right of out, conf of c.                                                *)
CompositeOf(f, k, c, lat, thr, right, out, conf) ==
    (35 * 2 * c * out) * (lat * k + thr * f) + 30 * (c * right + conf * out) * f * k

LEMMA TimesMonotone ==
    ASSUME NEW x \in Nat, NEW y \in Nat, NEW z \in Nat, x <= y
    PROVE  x * z <= y * z /\ z * x <= z * y /\ x * z \in Nat /\ z * x \in Nat
  OBVIOUS

LEMMA FullScore ==
    ASSUME NEW f \in Nat, NEW k \in Nat, NEW c \in Nat, NEW out \in Nat
    PROVE  CompositeOf(f, k, c, f, k, out, out, c) = 100 * (f * k * 2 * c * out)
  BY DEF CompositeOf

(* Better marks, no lower score. *)
LEMMA CompositeMonotone ==
    ASSUME NEW f \in Nat, NEW k \in Nat, NEW c \in Nat, NEW out \in Nat,
           NEW lat1 \in Nat, NEW lat2 \in Nat, lat1 <= lat2, NEW thr1 \in Nat, NEW thr2 \in Nat, thr1 <= thr2,
           NEW right1 \in Nat, NEW right2 \in Nat, right1 <= right2,
           NEW conf1 \in Nat, NEW conf2 \in Nat, conf1 <= conf2
    PROVE  /\ CompositeOf(f, k, c, lat1, thr1, right1, out, conf1) \in Nat
           /\ CompositeOf(f, k, c, lat1, thr1, right1, out, conf1)
                 <= CompositeOf(f, k, c, lat2, thr2, right2, out, conf2)
<1> DEFINE p == 35 * 2 * c * out
           a1 == lat1 * k + thr1 * f
           a2 == lat2 * k + thr2 * f
           b1 == c * right1 + conf1 * out
           b2 == c * right2 + conf2 * out
<1>1. p \in Nat
  <2>1. c * out \in Nat
    BY TimesMonotone
  <2>2. p = 70 * (c * out)
    OBVIOUS
  <2> HIDE DEF p
  <2> QED BY <2>1, <2>2
<1>2. a1 \in Nat /\ a2 \in Nat /\ a1 <= a2
  <2>1. lat1 * k \in Nat /\ lat2 * k \in Nat /\ lat1 * k <= lat2 * k
    BY TimesMonotone
  <2>2. thr1 * f \in Nat /\ thr2 * f \in Nat /\ thr1 * f <= thr2 * f
    BY TimesMonotone
  <2> QED BY <2>1, <2>2
<1>3. b1 \in Nat /\ b2 \in Nat /\ b1 <= b2
  <2>1. c * right1 \in Nat /\ c * right2 \in Nat /\ c * right1 <= c * right2
    BY TimesMonotone
  <2>2. conf1 * out \in Nat /\ conf2 * out \in Nat /\ conf1 * out <= conf2 * out
    BY TimesMonotone
  <2> QED BY <2>1, <2>2
<1>4. /\ CompositeOf(f, k, c, lat1, thr1, right1, out, conf1) = p * a1 + 30 * b1 * f * k
      /\ CompositeOf(f, k, c, lat2, thr2, right2, out, conf2) = p * a2 + 30 * b2 * f * k
  BY DEF CompositeOf
<1> HIDE DEF p, a1, a2, b1, b2
<1>5. p * a1 \in Nat /\ p * a2 \in Nat /\ p * a1 <= p * a2
  BY <1>1, <1>2, TimesMonotone
<1>6. 30 * b1 * f * k \in Nat /\ 30 * b2 * f * k \in Nat /\ 30 * b1 * f * k <= 30 * b2 * f * k
  <2>1. 30 * b1 \in Nat /\ 30 * b2 \in Nat /\ 30 * b1 <= 30 * b2
    BY <1>3
  <2>2. (30 * b1) * f \in Nat /\ (30 * b2) * f \in Nat /\ (30 * b1) * f <= (30 * b2) * f
    BY <2>1, TimesMonotone
  <2> DEFINE x == (30 * b1) * f
             y == (30 * b2) * f
  <2> HIDE DEF x, y
  <2>3. x * k \in Nat /\ y * k \in Nat /\ x * k <= y * k
    BY <2>2, TimesMonotone DEF x, y
  <2> QED BY <2>3 DEF x, y
<1> QED BY <1>4, <1>5, <1>6

LEMMA CompositeIs ==
    ASSUME NEW a, Marked(a), NEW conf
    PROVE  /\ Composite(a, conf) = CompositeOf(LatZero - LatFull, ThrMarks(TpsFull), Checks,
                                               LatMarks(a.hist), ThrOf(a), Right(a), Out(a), conf)
           /\ Scale(a) = (LatZero - LatFull) * ThrMarks(TpsFull) * 2 * Checks * Out(a)
           /\ LatZero - LatFull \in Nat /\ ThrMarks(TpsFull) \in Nat /\ Checks \in Nat
           /\ LatMarks(a.hist) \in Nat /\ LatMarks(a.hist) <= LatZero - LatFull
           /\ ThrOf(a) \in Nat /\ ThrOf(a) <= ThrMarks(TpsFull)
           /\ Out(a) \in Nat /\ Right(a) \in Nat /\ Right(a) <= Out(a)
<1>1. LatZero - LatFull \in Nat /\ ThrMarks(TpsFull) \in Nat /\ Checks \in Nat
  BY ScoringAssumption
<1>2. a \in Batch /\ a.hist \in [Buckets -> Nat]
  BY DEF Marked, Batch
<1>3. LatMarks(a.hist) \in Nat /\ LatMarks(a.hist) <= LatZero - LatFull
  BY <1>1, <1>2, LatMarksIs
<1>4. ThrOf(a) \in Nat /\ ThrOf(a) <= ThrMarks(TpsFull)
  BY <1>1, ThrOfIs
<1>5. Out(a) \in Nat /\ Right(a) \in Nat /\ Right(a) <= Out(a)
  BY <1>2, RightIs
<1>6. Composite(a, conf) = CompositeOf(LatZero - LatFull, ThrMarks(TpsFull), Checks,
                                       LatMarks(a.hist), ThrOf(a), Right(a), Out(a), conf)
  BY DEF Composite, CompositeOf, ThrOf
<1>7. Scale(a) = (LatZero - LatFull) * ThrMarks(TpsFull) * 2 * Checks * Out(a)
  BY DEF Scale
<1> QED BY <1>1, <1>3, <1>4, <1>5, <1>6, <1>7

LEMMA CompositeInRange ==
    ASSUME NEW a, Marked(a), NEW conf \in {0, Checks}
    PROVE  Composite(a, conf) \in Nat /\ Composite(a, conf) <= 100 * Scale(a)
<1> DEFINE f == LatZero - LatFull
           k == ThrMarks(TpsFull)
           lat == LatMarks(a.hist)
           thr == ThrOf(a)
           right == Right(a)
           out == Out(a)
<1>1. /\ Composite(a, conf) = CompositeOf(f, k, Checks, lat, thr, right, out, conf)
      /\ Scale(a) = f * k * 2 * Checks * out
      /\ f \in Nat /\ k \in Nat /\ Checks \in Nat /\ lat \in Nat /\ lat <= f
      /\ thr \in Nat /\ thr <= k /\ out \in Nat /\ right \in Nat /\ right <= out
  BY CompositeIs
<1> HIDE DEF f, k, lat, thr, right, out
<1>2. conf \in Nat /\ conf <= Checks
  BY <1>1
<1>3. /\ CompositeOf(f, k, Checks, lat, thr, right, out, conf) \in Nat
      /\ CompositeOf(f, k, Checks, lat, thr, right, out, conf) <= CompositeOf(f, k, Checks, f, k, out, out, Checks)
  BY <1>1, <1>2, CompositeMonotone
<1>4. CompositeOf(f, k, Checks, f, k, out, out, Checks) = 100 * (f * k * 2 * Checks * out)
  BY <1>1, FullScore
<1> QED BY <1>1, <1>3, <1>4

(* Two aggregates of the same latencies and acks. *)
Worse(a, b) ==
    /\ Marked(a) /\ Marked(b)
    /\ a.hist = b.hist /\ a.acks = b.acks
    /\ Sustained(a.acks, a.errs) <= Sustained(b.acks, b.errs)
    /\ b.violations <= a.violations

LEMMA WorseScoresNoMore ==
    ASSUME NEW a, NEW b, Worse(a, b)
    PROVE  Composite(a, 0) * Scale(b) <= Composite(b, 0) * Scale(a)
<1> DEFINE f == LatZero - LatFull
           k == ThrMarks(TpsFull)
<1>0. Marked(a) /\ Marked(b) /\ a \in Batch /\ b \in Batch
  BY DEF Worse, Marked
<1>1. /\ Composite(a, 0) = CompositeOf(f, k, Checks, LatMarks(a.hist), ThrOf(a), Right(a), Out(a), 0)
      /\ Scale(a) = f * k * 2 * Checks * Out(a)
      /\ f \in Nat /\ k \in Nat /\ Checks \in Nat /\ LatMarks(a.hist) \in Nat
      /\ ThrOf(a) \in Nat /\ Out(a) \in Nat /\ Right(a) \in Nat
  BY <1>0, CompositeIs
<1>2. /\ Composite(b, 0) = CompositeOf(f, k, Checks, LatMarks(b.hist), ThrOf(b), Right(b), Out(b), 0)
      /\ Scale(b) = f * k * 2 * Checks * Out(b)
      /\ ThrOf(b) \in Nat /\ Right(b) \in Nat
  BY <1>0, CompositeIs
<1>3. LatMarks(b.hist) = LatMarks(a.hist)
  BY DEF Worse
<1>4. ThrOf(a) <= ThrOf(b)
  BY ThrOfIs DEF Worse
<1>5. Out(b) = Out(a)
  BY DEF Worse, Out, Judged
<1>6. Right(a) <= Right(b)
  <2>1. Total(b.acks) = Total(a.acks) /\ Total(a.acks) \in Nat /\ a.violations \in Nat /\ b.violations \in Nat
    BY <1>0, TotalNat, SecsFinite DEF Worse, Batch
  <2>2. Right(a) = IF Total(a.acks) >= a.violations THEN Total(a.acks) - a.violations ELSE 0
    BY <1>0, RightIs
  <2>3. Right(b) = IF Total(b.acks) >= b.violations THEN Total(b.acks) - b.violations ELSE 0
    BY <1>0, RightIs
  <2> QED BY <2>1, <2>2, <2>3 DEF Worse
<1> HIDE DEF f, k
<1>7. Composite(a, 0) \in Nat /\ Composite(a, 0) <= Composite(b, 0) /\ Composite(b, 0) \in Nat
  <2> DEFINE lat == LatMarks(a.hist)
             out == Out(a)
  <2>1. /\ Composite(a, 0) = CompositeOf(f, k, Checks, lat, ThrOf(a), Right(a), out, 0)
        /\ Composite(b, 0) = CompositeOf(f, k, Checks, lat, ThrOf(b), Right(b), out, 0)
        /\ lat \in Nat /\ out \in Nat
    BY <1>1, <1>2, <1>3, <1>5
  <2> DEFINE thr1 == ThrOf(a)
             thr2 == ThrOf(b)
             right1 == Right(a)
             right2 == Right(b)
             conf == 0
  <2>2. /\ f \in Nat /\ k \in Nat /\ Checks \in Nat /\ lat \in Nat /\ out \in Nat
        /\ thr1 \in Nat /\ thr2 \in Nat /\ right1 \in Nat /\ right2 \in Nat
        /\ thr1 <= thr2 /\ right1 <= right2 /\ thr2 <= thr2 /\ right2 <= right2 /\ lat <= lat
        /\ conf \in Nat /\ conf <= conf
    BY <1>1, <1>2, <1>4, <1>6
  <2> HIDE DEF lat, out, thr1, thr2, right1, right2, conf
  <2>3. /\ CompositeOf(f, k, Checks, lat, thr1, right1, out, conf) \in Nat
        /\ CompositeOf(f, k, Checks, lat, thr1, right1, out, conf)
              <= CompositeOf(f, k, Checks, lat, thr2, right2, out, conf)
    BY <2>2, CompositeMonotone
  <2>4. CompositeOf(f, k, Checks, lat, thr2, right2, out, conf) \in Nat
    BY <2>2, CompositeMonotone
  <2> QED BY <2>1, <2>3, <2>4 DEF thr1, thr2, right1, right2, conf
<1>8. Scale(a) = Scale(b)
  BY <1>1, <1>2, <1>5
<1>9. Scale(a) \in Nat
  <2>1. f * k \in Nat
    BY <1>1, TimesMonotone
  <2>2. f * k * 2 \in Nat
    BY <2>1
  <2> DEFINE x == f * k * 2
  <2> HIDE DEF x
  <2>3. x * Checks \in Nat
    BY <1>1, <2>2, TimesMonotone DEF x
  <2> DEFINE y == x * Checks
  <2> HIDE DEF y
  <2>4. y * Out(a) \in Nat
    BY <1>1, <2>3, TimesMonotone DEF y
  <2> QED BY <1>1, <2>4 DEF x, y
<1>10. Composite(a, 0) * Scale(a) <= Composite(b, 0) * Scale(a)
  BY <1>7, <1>9, TimesMonotone
<1> QED BY <1>8, <1>10

(* A second with one more error is not clean unless it was before. *)
LEMMA ErrorCleansNothing ==
    ASSUME NEW n \in Nat, NEW e \in Nat, 100 * (e + 1) < ErrPercent * (n + (e + 1))
    PROVE  100 * e < ErrPercent * (n + e)
<1>1. ErrPercent \in Nat /\ ErrPercent <= 100
  BY ScoringAssumption
<1>2. ErrPercent * (n + (e + 1)) = ErrPercent * (n + e) + ErrPercent
  BY <1>1
<1> DEFINE x == ErrPercent * (n + e)
<1>3. x \in Int
  BY <1>1
<1> HIDE DEF x
<1>4. 100 * (e + 1) < x + ErrPercent
  BY <1>2 DEF x
<1>5. 100 * e < x
  BY <1>1, <1>3, <1>4
<1> QED BY <1>5 DEF x

LEMMA MoreErrorsWorse ==
    ASSUME NEW b, Marked(b), NEW s \in Secs
    PROVE  Worse([b EXCEPT !.errs[s] = @ + 1], b)
<1> DEFINE errs == OneMore(b.errs, s)
           a == [hist |-> b.hist, acks |-> b.acks, errs |-> errs, violations |-> b.violations]
<1>0. b \in Batch /\ \A t \in Secs : b.acks[t] <= MaxEvents
  BY DEF Marked
<1>1. b.hist \in [Buckets -> Nat] /\ b.acks \in [Secs -> Nat] /\ b.errs \in [Secs -> Nat] /\ b.violations \in Nat
  BY <1>0 DEF Batch
<1>2. [b EXCEPT !.errs[s] = @ + 1] = a
  BY <1>0, BatchMore
<1>3. errs \in [Secs -> Nat] /\ errs[s] = b.errs[s] + 1 /\ \A t \in Secs \ {s} : errs[t] = b.errs[t]
  BY <1>1, OneMoreIs
<1> HIDE DEF errs
<1>4. a \in Batch
  BY <1>1, <1>3 DEF Batch
<1>5. a.hist = b.hist /\ a.acks = b.acks /\ a.errs = errs /\ a.violations = b.violations
  OBVIOUS
<1> HIDE DEF a
<1>6. Marked(a)
  BY <1>0, <1>4, <1>5 DEF Marked
<1>7. ASSUME NEW t \in Secs, Clean(b.acks, errs, t) PROVE Clean(b.acks, b.errs, t)
  <2>1. CASE t # s
    BY <1>3, <1>7, <2>1 DEF Clean
  <2>2. CASE t = s
    <3>1. b.acks[s] \in Nat /\ b.errs[s] \in Nat
      BY <1>1
    <3>2. 100 * (b.errs[s] + 1) < ErrPercent * (b.acks[s] + (b.errs[s] + 1))
      BY <1>3, <1>7, <2>2 DEF Clean
    <3>3. 100 * b.errs[s] < ErrPercent * (b.acks[s] + b.errs[s])
      BY <3>1, <3>2, ErrorCleansNothing
    <3> QED BY <2>2, <3>3 DEF Clean
  <2> QED BY <2>1, <2>2
<1>8. Sustained(b.acks, errs) <= Sustained(b.acks, b.errs)
  <2>1. /\ Sustained(b.acks, errs) \in 0 .. MaxEvents
        /\ Sustained(b.acks, errs) > 0 =>
              \E t \in Secs : Clean(b.acks, errs, t) /\ b.acks[t] = Sustained(b.acks, errs)
    BY <1>0, <1>1, <1>3, SustainedIs
  <2>2. /\ Sustained(b.acks, b.errs) \in 0 .. MaxEvents
        /\ \A t \in Secs : Clean(b.acks, b.errs, t) => b.acks[t] <= Sustained(b.acks, b.errs)
    BY <1>0, <1>1, SustainedIs
  <2> QED BY <1>7, <2>1, <2>2
<1>9. Worse(a, b)
  BY <1>1, <1>5, <1>6, <1>8 DEF Worse
<1> QED BY <1>2, <1>9

LEMMA MoreViolationsWorse ==
    ASSUME NEW b, Marked(b)
    PROVE  Worse([b EXCEPT !.violations = @ + 1], b)
<1> DEFINE a == [b EXCEPT !.violations = @ + 1]
<1>0. b \in Batch /\ \A t \in Secs : b.acks[t] <= MaxEvents
  BY DEF Marked
<1>1. a \in Batch /\ a.hist = b.hist /\ a.acks = b.acks /\ a.errs = b.errs
      /\ a.violations = b.violations + 1 /\ b.violations \in Nat
  <2>1. b.violations \in Nat
    BY <1>0 DEF Batch
  <2>2. a \in Batch /\ a = [hist |-> b.hist, acks |-> b.acks, errs |-> b.errs, violations |-> b.violations + 1]
    BY <1>0, BatchViolated
  <2> HIDE DEF a
  <2> QED BY <2>1, <2>2
<1> HIDE DEF a
<1>2. Marked(a)
  BY <1>0, <1>1 DEF Marked
<1>3. b.acks \in [Secs -> Nat] /\ b.errs \in [Secs -> Nat]
  BY <1>0 DEF Batch
<1>4. Sustained(b.acks, b.errs) \in 0 .. MaxEvents
  BY <1>0, <1>3, SustainedIs
<1>5. Worse(a, b)
  BY <1>1, <1>2, <1>4 DEF Worse
<1> QED BY <1>5 DEF a

(* The score of the batches folded so far is between 0 and 100, also with  *)
(* more violations than acks or with none at all, and with the same acks   *)
(* one more failed request or broken rule never raises it (compute() and   *)
(* Composite()).  Nothing is said of a request that fails instead of being *)
(* answered.                                                               *)
THEOREM ScoreIsFair == Spec => []ScoreFair
<1>1. ASSUME ScoringInv PROVE ScoreFair
  <2>1. Marked(agg)
    <3>1. agg \in Batch
      BY <1>1 DEF ScoringInv, ScoringTypeOK
    <3>2. \A t \in Secs : agg.acks[t] <= MaxEvents
      BY <1>1, AggregateIs
    <3> QED BY <3>1, <3>2 DEF Marked
  <2>2. \A conf \in {0, Checks} : 0 <= Composite(agg, conf) /\ Composite(agg, conf) <= 100 * Scale(agg)
    <3> TAKE conf \in {0, Checks}
    <3>1. Composite(agg, conf) \in Nat /\ Composite(agg, conf) <= 100 * Scale(agg)
      BY <2>1, CompositeInRange
    <3> QED BY <3>1
  <2>3. ASSUME NEW s \in Secs, NEW a \in {[agg EXCEPT !.errs[s] = @ + 1], [agg EXCEPT !.violations = @ + 1]}
        PROVE  Composite(a, 0) * Scale(agg) <= Composite(agg, 0) * Scale(a)
    <3>1. Worse(a, agg)
      BY <2>1, <2>3, MoreErrorsWorse, MoreViolationsWorse
    <3> QED BY <3>1, WorseScoresNoMore
  <2> QED BY <2>2, <2>3 DEF ScoreFair
<1> QED BY <1>1, ScoringInvariant, PTL

-----------------------------------------------------------------------------
(* Powers of Root: the recursion has a solution, and the powers grow.      *)

NextPower(g, n) == IF n = 0 THEN 1 ELSE Root * g[n - 1]
PowersUpto(n, g) == g \in [Nat -> Nat] /\ \A k \in 0 .. n : g[k] = NextPower(g, k)

LEMMA RootIs == Root \in Nat /\ Root >= 2
  BY ScoringAssumption

LEMMA PowersAgree ==
    ASSUME NEW n \in Nat, NEW g, NEW h, PowersUpto(n, g), PowersUpto(n + 1, h)
    PROVE  g[n] = h[n]
<1> DEFINE T == {k \in Nat : k <= n => g[k] = h[k]}
<1>1. 0 \in T
  BY DEF PowersUpto, NextPower
<1>2. ASSUME NEW k \in Nat, k \in T PROVE k + 1 \in T
  <2> SUFFICES ASSUME k + 1 <= n PROVE g[k + 1] = h[k + 1]
    OBVIOUS
  <2>1. g[k] = h[k]
    BY <1>2
  <2>2. k + 1 \in 0 .. n /\ k + 1 \in 0 .. n + 1 /\ k + 1 # 0 /\ (k + 1) - 1 = k
    OBVIOUS
  <2>3. g[k + 1] = Root * g[k]
    BY <2>2 DEF PowersUpto, NextPower
  <2>4. h[k + 1] = Root * h[k]
    BY <2>2 DEF PowersUpto, NextPower
  <2> QED BY <2>1, <2>3, <2>4
<1> HIDE DEF T
<1>3. n \in T
  BY <1>1, <1>2, NaturalsIn
<1> QED BY <1>3 DEF T

LEMMA PowersExist ==
    ASSUME NEW n \in Nat
    PROVE  \E g : PowersUpto(n, g)
<1> DEFINE T == {k \in Nat : \E g : PowersUpto(k, g)}
<1>1. 0 \in T
  <2> DEFINE g == [k \in Nat |-> 1]
  <2>1. PowersUpto(0, g)
    BY DEF PowersUpto, NextPower
  <2> QED BY <2>1
<1>2. ASSUME NEW k \in Nat, k \in T PROVE k + 1 \in T
  <2>1. PICK g : PowersUpto(k, g)
    BY <1>2
  <2> DEFINE h == [g EXCEPT ![k + 1] = Root * g[k]]
  <2>2. g \in [Nat -> Nat] /\ Root * g[k] \in Nat
    <3>1. g \in [Nat -> Nat] /\ g[k] \in Nat
      BY <2>1 DEF PowersUpto
    <3> QED BY <3>1, RootIs
  <2>3. h \in [Nat -> Nat] /\ h[k + 1] = Root * g[k] /\ \A i \in 0 .. k : h[i] = g[i]
    BY <2>2
  <2> HIDE DEF h
  <2>4. ASSUME NEW i \in 0 .. k PROVE h[i] = NextPower(h, i)
    <3>1. g[i] = NextPower(g, i)
      BY <2>1 DEF PowersUpto
    <3>2. CASE i = 0
      BY <2>3, <3>1, <3>2 DEF NextPower
    <3>3. CASE i # 0
      <4>1. i - 1 \in 0 .. k
        BY <3>3
      <4> QED BY <2>3, <3>1, <3>3, <4>1 DEF NextPower
    <3> QED BY <3>2, <3>3
  <2>5. h[k + 1] = NextPower(h, k + 1)
    <3>1. h[k] = g[k] /\ k + 1 # 0 /\ (k + 1) - 1 = k
      BY <2>3
    <3> QED BY <2>3, <3>1 DEF NextPower
  <2>6. \A i \in 0 .. k + 1 : i \in 0 .. k \/ i = k + 1
    OBVIOUS
  <2>7. PowersUpto(k + 1, h)
    BY <2>3, <2>4, <2>5, <2>6 DEF PowersUpto
  <2> QED BY <2>7
<1> HIDE DEF T
<1>3. n \in T
  BY <1>1, <1>2, NaturalsIn
<1> QED BY <1>3 DEF T

LEMMA RootPowerIs ==
    /\ RootPower \in [Nat -> Nat]
    /\ RootPower[0] = 1
    /\ \A n \in Nat : RootPower[n + 1] = Root * RootPower[n]
<1> DEFINE Solves(h) == h = [n \in Nat |-> IF n = 0 THEN 1 ELSE Root * h[n - 1]]
           p(n) == CHOOSE g : PowersUpto(n, g)
           d == [n \in Nat |-> p(n)[n]]
<1>1. \A n \in Nat : PowersUpto(n, p(n))
  BY PowersExist
<1> HIDE DEF p
<1>2. \A n \in Nat : d[n] = p(n)[n] /\ d[n] \in Nat
  BY <1>1 DEF PowersUpto
<1>3. d[0] = 1
  <2>1. PowersUpto(0, p(0)) /\ 0 \in 0 .. 0
    BY <1>1
  <2>2. p(0)[0] = NextPower(p(0), 0)
    BY <2>1 DEF PowersUpto
  <2>3. d[0] = p(0)[0]
    BY <1>2
  <2> QED BY <2>2, <2>3 DEF NextPower
<1>4. ASSUME NEW n \in Nat PROVE d[n + 1] = Root * d[n]
  <2>1. p(n)[n] = p(n + 1)[n]
    BY <1>1, PowersAgree
  <2>2. n + 1 \in 0 .. n + 1 /\ n + 1 # 0 /\ (n + 1) - 1 = n /\ n + 1 \in Nat
    OBVIOUS
  <2>3. p(n + 1)[n + 1] = Root * p(n + 1)[n]
    BY <1>1, <2>2 DEF PowersUpto, NextPower
  <2> QED BY <1>2, <2>1, <2>2, <2>3
<1>5. d \in [Nat -> Nat]
  BY <1>2
<1> HIDE DEF d
<1>6. ASSUME NEW n \in Nat PROVE d[n] = IF n = 0 THEN 1 ELSE Root * d[n - 1]
  <2>1. CASE n = 0
    BY <1>3, <2>1
  <2>2. CASE n # 0
    <3>1. n - 1 \in Nat /\ (n - 1) + 1 = n
      BY <2>2
    <3> QED BY <1>4, <2>2, <3>1
  <2> QED BY <2>1, <2>2
<1>7. Solves(d)
  BY <1>5, <1>6
<1>8. RootPower = CHOOSE h : Solves(h)
  BY DEF RootPower
<1>9. Solves(RootPower)
  <2> HIDE DEF Solves
  <2> QED BY <1>7, <1>8
<1>10. \A n \in Nat : RootPower[n] = IF n = 0 THEN 1 ELSE Root * RootPower[n - 1]
  BY <1>9
<1>11. RootPower[0] = 1
  BY <1>10
<1>12. \A n \in Nat : RootPower[n + 1] = Root * RootPower[n]
  <2> TAKE n \in Nat
  <2>1. n + 1 \in Nat /\ n + 1 # 0 /\ (n + 1) - 1 = n
    OBVIOUS
  <2> QED BY <1>10, <2>1
<1> DEFINE T == {n \in Nat : RootPower[n] \in Nat}
<1>13. 0 \in T
  BY <1>11
<1>14. ASSUME NEW n \in Nat, n \in T PROVE n + 1 \in T
  BY <1>12, <1>14, RootIs
<1> HIDE DEF T
<1>15. \A n \in Nat : n \in T
  BY <1>13, <1>14, NaturalsIn
<1>16. \A n \in Nat : RootPower[n] \in Nat
  BY <1>15 DEF T
<1>17. RootPower \in [Nat -> Nat]
  BY <1>9, <1>16
<1> QED BY <1>11, <1>12, <1>17

LEMMA PowersGrow ==
    ASSUME NEW m \in Nat, NEW k \in Nat
    PROVE  1 <= RootPower[m] /\ RootPower[m] <= RootPower[m + k]
<1> DEFINE T == {n \in Nat : 1 <= RootPower[n]}
           U == {n \in Nat : RootPower[m] <= RootPower[m + n]}
<1>1. ASSUME NEW n \in Nat
      PROVE  RootPower[n] \in Nat /\ RootPower[n] <= RootPower[n + 1] /\ RootPower[n + 1] \in Nat
  <2>1. RootPower[n] \in Nat /\ RootPower[n + 1] = Root * RootPower[n]
    BY RootPowerIs
  <2>2. ASSUME NEW x \in Nat PROVE x <= Root * x /\ Root * x \in Nat
    BY RootIs
  <2> QED BY <2>1, <2>2
<1>2. 0 \in T
  BY RootPowerIs
<1>3. ASSUME NEW n \in Nat, n \in T PROVE n + 1 \in T
  BY <1>1, <1>3
<1>4. 0 \in U
  <2>1. m + 0 = m /\ RootPower[m] \in Nat
    BY <1>1
  <2> QED BY <2>1
<1>5. ASSUME NEW n \in Nat, n \in U PROVE n + 1 \in U
  <2>1. m + n \in Nat /\ (m + n) + 1 = m + (n + 1)
    OBVIOUS
  <2>2. RootPower[m + n] <= RootPower[m + (n + 1)] /\ RootPower[m + n] \in Nat /\ RootPower[m + (n + 1)] \in Nat
    BY <1>1, <2>1
  <2>3. RootPower[m] <= RootPower[m + n] /\ RootPower[m] \in Nat
    BY <1>1, <1>5
  <2>4. RootPower[m] <= RootPower[m + (n + 1)]
    BY <2>2, <2>3
  <2> QED BY <2>4
<1> HIDE DEF T, U
<1>6. m \in T
  BY <1>2, <1>3, NaturalsIn
<1>7. k \in U
  BY <1>4, <1>5, NaturalsIn
<1> QED BY <1>6, <1>7 DEF T, U

-----------------------------------------------------------------------------
(* The bucket of a latency. *)

LEMMA BucketSpan ==
    ASSUME NEW ns \in Latencies
    PROVE  /\ BucketOf(ns) \in Buckets /\ ns \in Nat
           /\ ns < 1 => BucketOf(ns) = 0
           /\ ns >= 1 => /\ BucketOf(ns) >= 1
                         /\ RootPower[2 * BucketOf(ns) - 2] <= ns
                         /\ ns < RootPower[2 * BucketOf(ns)]
<1> DEFINE A == {b \in Buckets \ {0} : RootPower[2 * b - 2] <= ns}
           S == {0} \cup A
           m == Max(S)
<1>1. S \subseteq Buckets /\ S # {}
  BY SecsFinite
<1>2. BucketOf(ns) = m
  BY DEF BucketOf
<1>3. ns \in Nat /\ ns < RootPower[2 * MaxBucket] /\ MaxBucket \in Nat
  BY ScoringAssumption
<1>4. \A b \in Buckets : b \in Nat /\ b <= MaxBucket
  BY <1>3 DEF Buckets
<1>5. \A b \in S : b = 0 \/ (b \in Buckets /\ b # 0 /\ RootPower[2 * b - 2] <= ns)
  OBVIOUS
<1>6. 0 \in S /\ \A b \in Buckets : b # 0 /\ RootPower[2 * b - 2] <= ns => b \in S
  OBVIOUS
<1> HIDE DEF A, S
<1>7. IsFiniteSet(S)
  BY <1>1, SecsFinite, FS_Subset
<1>8. m \in S /\ \A b \in S : b <= m
  <2>1. S \subseteq Int
    BY <1>1, <1>4
  <2> QED BY <1>1, <1>7, <2>1, MaxIs
<1> HIDE DEF m
<1>9. m \in Buckets /\ m \in Nat /\ m <= MaxBucket
  BY <1>1, <1>4, <1>8
<1>10. ASSUME ns < 1 PROVE m = 0
  <2> SUFFICES ASSUME m # 0 PROVE FALSE
    OBVIOUS
  <2>1. RootPower[2 * m - 2] <= ns
    BY <1>5, <1>8
  <2>2. 2 * m - 2 \in Nat
    BY <1>9
  <2>3. 1 <= RootPower[2 * m - 2] /\ RootPower[2 * m - 2] \in Nat
    BY <2>2, PowersGrow, RootPowerIs
  <2> QED BY <1>3, <1>10, <2>1, <2>3
<1>11. ASSUME ns >= 1 PROVE m >= 1 /\ RootPower[2 * m - 2] <= ns /\ ns < RootPower[2 * m]
  <2>1. MaxBucket # 0
    <3> SUFFICES ASSUME MaxBucket = 0 PROVE FALSE
      OBVIOUS
    <3>1. 2 * MaxBucket = 0
      OBVIOUS
    <3>2. RootPower[2 * MaxBucket] = 1
      BY <3>1, RootPowerIs
    <3> QED BY <1>3, <1>11, <3>2
  <2>2. 1 \in Buckets /\ 2 * 1 - 2 = 0 /\ RootPower[0] = 1
    BY <1>3, <2>1, RootPowerIs DEF Buckets
  <2>3. 1 \in S
    <3>1. RootPower[2 * 1 - 2] <= ns
      BY <1>11, <2>2
    <3> QED BY <1>6, <2>2, <3>1
  <2>4. m >= 1
    BY <1>8, <1>9, <2>3
  <2>5. RootPower[2 * m - 2] <= ns
    BY <1>5, <1>8, <1>9, <2>4
  <2>6. ns < RootPower[2 * m]
    <3>1. CASE m = MaxBucket
      BY <1>3, <3>1
    <3>2. CASE m # MaxBucket
      <4>1. m + 1 \in Buckets /\ m + 1 # 0 /\ ~(m + 1 <= m) /\ 2 * (m + 1) - 2 = 2 * m
        BY <1>3, <1>9, <3>2 DEF Buckets
      <4>2. m + 1 \notin S
        BY <1>8, <4>1
      <4>3. ~(RootPower[2 * m] <= ns)
        BY <1>6, <4>1, <4>2
      <4>4. 2 * m \in Nat /\ RootPower[2 * m] \in Nat
        BY <1>9, RootPowerIs
      <4> QED BY <1>3, <4>3, <4>4
    <3> QED BY <3>1, <3>2
  <2> QED BY <2>4, <2>5, <2>6
<1> QED BY <1>2, <1>3, <1>9, <1>10, <1>11

(* A longer latency is in no earlier bucket. *)
LEMMA BucketMonotone ==
    ASSUME NEW ns \in Latencies, NEW ms \in Latencies, ns <= ms
    PROVE  BucketOf(ns) <= BucketOf(ms)
<1> DEFINE b == BucketOf(ns)
           c == BucketOf(ms)
<1>1. /\ b \in Nat /\ c \in Nat /\ ns \in Nat /\ ms \in Nat
      /\ ns < 1 => b = 0
      /\ ns >= 1 => b >= 1 /\ RootPower[2 * b - 2] <= ns
      /\ ms >= 1 => ms < RootPower[2 * c]
  BY BucketSpan, SecsFinite
<1> HIDE DEF b, c
<1>2. CASE ns < 1
  BY <1>1, <1>2 DEF b, c
<1>3. CASE ns >= 1
  <2> SUFFICES ASSUME ~(b <= c) PROVE FALSE
    BY DEF b, c
  <2> DEFINE k == 2 * b - 2 - 2 * c
             n == 2 * c
  <2>1. k \in Nat /\ n \in Nat /\ n + k = 2 * b - 2
    BY <1>1
  <2> HIDE DEF k, n
  <2>2. RootPower[n] <= RootPower[n + k]
    BY <2>1, PowersGrow
  <2>3. RootPower[n] \in Nat /\ RootPower[n + k] \in Nat
    BY <2>1, RootPowerIs
  <2>4. RootPower[n + k] <= ns /\ ms < RootPower[n]
    BY <1>1, <1>3, <2>1 DEF n
  <2> QED BY <1>1, <2>2, <2>3, <2>4
<1> QED BY <1>1, <1>2, <1>3

(* Half a bucket from its middle. *)
LEMMA BucketValueNear ==
    ASSUME NEW ns \in Latencies
    PROVE  LET q == BucketValue(BucketOf(ns))
           IN  IF ns < 1 THEN q = 1 ELSE q <= ns * Root /\ ns <= q * Root
<1> DEFINE b == BucketOf(ns)
<1>1. /\ b \in Nat /\ ns \in Nat
      /\ ns < 1 => b = 0
      /\ ns >= 1 => b >= 1 /\ RootPower[2 * b - 2] <= ns /\ ns < RootPower[2 * b]
  BY BucketSpan, SecsFinite
<1> HIDE DEF b
<1>2. CASE ns < 1
  <2>1. BucketValue(b) = 1
    BY <1>1, <1>2 DEF BucketValue
  <2> QED BY <1>2, <2>1 DEF b
<1>3. CASE ns >= 1
  <2> DEFINE n == 2 * b - 2
  <2>1. n \in Nat /\ n + 1 = 2 * b - 1 /\ (n + 1) + 1 = 2 * b /\ b # 0 /\ n + 1 \in Nat
    BY <1>1, <1>3
  <2>2. RootPower[n] <= ns /\ ns < RootPower[(n + 1) + 1]
    BY <1>1, <1>3, <2>1
  <2> HIDE DEF n
  <2> DEFINE x == RootPower[n]
             y == RootPower[n + 1]
  <2>3. x \in Nat /\ y \in Nat /\ y = Root * x /\ RootPower[(n + 1) + 1] = Root * y
    BY <2>1, RootPowerIs
  <2>4. BucketValue(b) = y
    BY <2>1 DEF BucketValue
  <2>5. x <= ns /\ ns < Root * y
    BY <2>2, <2>3
  <2> HIDE DEF x, y
  <2>6. y <= ns * Root
    <3>1. x * Root <= ns * Root
      BY <1>1, <2>3, <2>5, RootIs, TimesMonotone
    <3>2. Root * x = x * Root
      BY <2>3, RootIs
    <3> QED BY <2>3, <3>1, <3>2
  <2>7. ns <= y * Root
    <3>1. Root * y = y * Root /\ y * Root \in Int
      BY <2>3, RootIs
    <3> QED BY <1>1, <2>5, <3>1
  <2>8. ~(ns < 1)
    BY <1>1, <1>3
  <2> QED BY <2>4, <2>6, <2>7, <2>8 DEF b
<1> QED BY <1>1, <1>2, <1>3

-----------------------------------------------------------------------------
(* The histograms: for every b, the latencies of the first buckets are     *)
(* folded or pending.                                                      *)

FirstBuckets(b) == {k \in Buckets : k <= b}
Shorter(b)      == {ns \in Latencies : BucketOf(ns) <= b}
PendingUpto(b)  == [x \in Shards |-> SumOf(FirstBuckets(b), delta[x].hist)]

HistConserved(b) ==
    SumOf(Shorter(b), truth.lat) = SumOf(FirstBuckets(b), agg.hist) + SumOf(Shards, PendingUpto(b))

HistInv == \A b \in Int : HistConserved(b)

LEMMA HistFinite ==
    ASSUME NEW b
    PROVE  /\ FirstBuckets(b) \in SUBSET Buckets /\ IsFiniteSet(FirstBuckets(b))
           /\ Shorter(b) \in SUBSET Latencies /\ IsFiniteSet(Shorter(b)) /\ IsFiniteSet(Latencies)
<1>1. FirstBuckets(b) \in SUBSET Buckets /\ Shorter(b) \in SUBSET Latencies
  BY DEF FirstBuckets, Shorter
<1>2. IsFiniteSet(Latencies)
  BY ScoringAssumption
<1>3. IsFiniteSet(FirstBuckets(b))
  BY <1>1, SecsFinite, FS_Subset
<1>4. IsFiniteSet(Shorter(b))
  BY <1>1, <1>2, FS_Subset
<1> QED BY <1>1, <1>2, <1>3, <1>4

LEMMA SumNat ==
    ASSUME NEW D, NEW f \in [D -> Nat], NEW R \in SUBSET D, IsFiniteSet(R)
    PROVE  SumOf(R, f) \in Nat /\ Whole(R, f) /\ Natural(R, f) /\ \A x \in R : f[x] <= SumOf(R, f)
<1>1. Whole(R, f) /\ Natural(R, f)
  BY DEF Whole, Natural
<1> QED BY <1>1, SumOfNat

SumsOneMore(R, f, x) == SumOf(R, OneMore(f, x)) = SumOf(R, f) + (IF x \in R THEN 1 ELSE 0)

LEMMA SumOneMore ==
    ASSUME NEW D, NEW f \in [D -> Nat], NEW x \in D, NEW R \in SUBSET D, IsFiniteSet(R)
    PROVE  SumsOneMore(R, f, x)
<1> DEFINE g == OneMore(f, x)
<1>1. g[x] = f[x] + 1 /\ \A y \in D \ {x} : g[y] = f[y]
  BY OneMoreIs
<1>2. SumOf(R, f) \in Nat /\ Whole(R, f)
  BY SumNat
<1>3. SumsOneMore(R, f, x) <=> SumOf(R, g) = SumOf(R, f) + (IF x \in R THEN 1 ELSE 0)
  BY DEF SumsOneMore
<1> HIDE DEF g
<1>4. CASE x \in R
  <2>1. OneMoved(R, x, f, g, 1)
    BY <1>1 DEF OneMoved
  <2>2. MovesBy(R, f, g, 1)
    BY <1>2, <1>4, <2>1, SumOfMoved
  <2> QED BY <1>3, <1>4, <2>2 DEF MovesBy
<1>5. CASE x \notin R
  <2>1. \A y \in R : f[y] \in Int /\ g[y] = f[y]
    BY <1>1, <1>5
  <2>2. SumOf(R, f) = SumOf(R, g)
    BY <2>1, SumOfSame
  <2> QED BY <1>2, <1>3, <1>5, <2>2
<1> QED BY <1>4, <1>5

(* One shard's count of the first buckets changes by d, the true one by e. *)
HistShifts(b, s, d, e) ==
    /\ SumOf(FirstBuckets(b), delta'[s].hist) = SumOf(FirstBuckets(b), delta[s].hist) + d
    /\ \A x \in Shards \ {s} : delta'[x].hist = delta[x].hist
    /\ SumOf(Shorter(b), truth'.lat) = SumOf(Shorter(b), truth.lat) + e
    /\ SumOf(FirstBuckets(b), agg'.hist) = SumOf(FirstBuckets(b), agg.hist) + e - d

LEMMA HistMoves ==
    ASSUME ScoringInv, HistInv, NEW b \in Int, NEW s \in Shards, NEW d \in Int, NEW e \in Int,
           HistShifts(b, s, d, e)
    PROVE  HistConserved(b)'
<1>1. /\ agg.hist \in [Buckets -> Nat] /\ truth.lat \in [Latencies -> Nat]
      /\ \A x \in Shards : delta[x].hist \in [Buckets -> Nat]
  BY DEF ScoringInv, ScoringTypeOK, Batch, Truth
<1>2. /\ SumOf(FirstBuckets(b), agg.hist) \in Nat /\ SumOf(Shorter(b), truth.lat) \in Nat
      /\ \A x \in Shards : SumOf(FirstBuckets(b), delta[x].hist) \in Nat
  BY <1>1, HistFinite, SumNat
<1>3. Whole(Shards, PendingUpto(b))
  BY <1>2 DEF PendingUpto, Whole
<1> DEFINE w == PendingUpto(b)
           v == PendingUpto(b)'
<1>4. OneMoved(Shards, s, w, v, d)
  <2>1. \A x \in Shards : w[x] = SumOf(FirstBuckets(b), delta[x].hist) /\ v[x] = SumOf(FirstBuckets(b), delta'[x].hist)
    BY DEF PendingUpto, FirstBuckets
  <2> HIDE DEF w, v
  <2>2. v[s] = w[s] + d
    BY <2>1 DEF HistShifts
  <2>3. \A y \in Shards \ {s} : v[y] = w[y]
    BY <2>1 DEF HistShifts
  <2> QED BY <2>2, <2>3 DEF OneMoved
<1> DEFINE p == SumOf(Shards, w)
           q == SumOf(Shards, v)
<1>5. q = p + d /\ p \in Int
  <2> HIDE DEF v
  <2>1. MovesBy(Shards, w, v, d)
    BY <1>3, <1>4, SumOfMoved, SecsFinite
  <2>2. p \in Int
    BY <1>3, SumOfInt, SecsFinite DEF Whole
  <2> QED BY <2>1, <2>2 DEF MovesBy
<1>6. SumOf(Shorter(b), truth.lat) = SumOf(FirstBuckets(b), agg.hist) + p
  BY DEF HistInv, HistConserved
<1>7. HistConserved(b)' <=> SumOf(Shorter(b), truth'.lat) = SumOf(FirstBuckets(b), agg'.hist) + q
  BY DEF HistConserved, Shorter, FirstBuckets
<1> HIDE DEF w, v, p, q
<1>8. SumOf(Shorter(b), truth'.lat) = SumOf(FirstBuckets(b), agg'.hist) + q
  BY <1>2, <1>5, <1>6 DEF HistShifts
<1> QED BY <1>7, <1>8

(* Steps that record and fold no latency. *)
LEMMA HistStays ==
    ASSUME HistInv, \A x \in Shards : delta'[x].hist = delta[x].hist, agg'.hist = agg.hist, truth'.lat = truth.lat
    PROVE  HistInv'
<1> SUFFICES ASSUME NEW b \in Int PROVE HistConserved(b)'
  BY DEF HistInv
<1>1. PendingUpto(b)' = PendingUpto(b)
  BY DEF PendingUpto, FirstBuckets
<1>2. HistConserved(b)
  BY DEF HistInv
<1>3. SumOf(Shorter(b), truth'.lat) = SumOf(FirstBuckets(b), agg'.hist) + SumOf(Shards, PendingUpto(b)')
  BY <1>1, <1>2 DEF HistConserved
<1> QED BY <1>3 DEF HistConserved, Shorter, FirstBuckets

LEMMA AckRecords ==
    ASSUME ScoringInv, HistInv, NEW s \in Shards, NEW ns \in Latencies, Ack(s, ns)
    PROVE  HistInv'
<1> DEFINE d == delta[s]
           k == BucketOf(ns)
           e == [hist |-> OneMore(d.hist, k), acks |-> OneMore(d.acks, now), errs |-> d.errs, violations |-> d.violations]
<1>1. delta \in [Shards -> Batch] /\ agg \in Batch /\ truth \in Truth /\ d \in Batch
  BY DEF ScoringInv, ScoringTypeOK
<1>2. d.hist \in [Buckets -> Nat] /\ agg.hist \in [Buckets -> Nat] /\ truth.lat \in [Latencies -> Nat]
  BY <1>1 DEF Batch, Truth
<1>3. delta' = [delta EXCEPT ![s] = e]
  <2>1. delta' = [delta EXCEPT ![s] = [d EXCEPT !.hist[k] = @ + 1, !.acks[now] = @ + 1]]
    BY <1>1 DEF Ack
  <2>2. [d EXCEPT !.hist[k] = @ + 1, !.acks[now] = @ + 1] = e
    BY <1>1, BatchMore
  <2> QED BY <2>1, <2>2
<1>4. truth' = [lat |-> OneMore(truth.lat, ns), acks |-> OneMore(truth.acks, now), errs |-> truth.errs]
  BY <1>1 DEF Ack, Truth, OneMore
<1>5. agg' = agg
  BY DEF Ack
<1>6. k \in Buckets
  BY BucketOfIs
<1>7. e.hist = OneMore(d.hist, k) /\ truth'.lat = OneMore(truth.lat, ns)
  BY <1>4
<1> HIDE DEF e, d
<1>8. delta'[s] = e /\ \A x \in Shards \ {s} : delta'[x].hist = delta[x].hist
  BY <1>1, <1>3
<1> SUFFICES ASSUME NEW b \in Int PROVE HistConserved(b)'
  BY DEF HistInv
<1> DEFINE n == IF k <= b THEN 1 ELSE 0
<1>9. SumOf(FirstBuckets(b), OneMore(d.hist, k)) = SumOf(FirstBuckets(b), d.hist) + n
  <2>1. SumsOneMore(FirstBuckets(b), d.hist, k)
    BY <1>2, <1>6, HistFinite, SumOneMore
  <2>2. k \in FirstBuckets(b) <=> k <= b
    BY <1>6 DEF FirstBuckets
  <2> QED BY <2>1, <2>2 DEF SumsOneMore
<1>10. SumOf(Shorter(b), OneMore(truth.lat, ns)) = SumOf(Shorter(b), truth.lat) + n
  <2>1. SumsOneMore(Shorter(b), truth.lat, ns)
    BY <1>2, HistFinite, SumOneMore
  <2>2. ns \in Shorter(b) <=> k <= b
    BY DEF Shorter
  <2> QED BY <2>1, <2>2 DEF SumsOneMore
<1>11. n \in Int
  OBVIOUS
<1> HIDE DEF n
<1>12. SumOf(FirstBuckets(b), agg'.hist) = SumOf(FirstBuckets(b), agg.hist) + n - n
  <2>1. SumOf(FirstBuckets(b), agg.hist) \in Nat
    BY <1>2, HistFinite, SumNat
  <2> QED BY <1>5, <1>11, <2>1
<1>13. HistShifts(b, s, n, n)
  <2>1. SumOf(FirstBuckets(b), delta'[s].hist) = SumOf(FirstBuckets(b), delta[s].hist) + n
    BY <1>7, <1>8, <1>9 DEF d
  <2>2. SumOf(Shorter(b), truth'.lat) = SumOf(Shorter(b), truth.lat) + n
    BY <1>7, <1>10
  <2> QED BY <1>8, <1>12, <2>1, <2>2 DEF HistShifts
<1> QED BY <1>11, <1>13, HistMoves

LEMMA ErrorRecords ==
    ASSUME ScoringInv, HistInv, NEW s \in Shards, Error(s)
    PROVE  HistInv'
<1> DEFINE d == delta[s]
           e == [hist |-> d.hist, acks |-> d.acks, errs |-> OneMore(d.errs, now), violations |-> d.violations]
<1>1. delta \in [Shards -> Batch] /\ truth \in Truth /\ d \in Batch
  BY DEF ScoringInv, ScoringTypeOK
<1>2. delta' = [delta EXCEPT ![s] = e]
  <2>1. delta' = [delta EXCEPT ![s] = [d EXCEPT !.errs[now] = @ + 1]]
    BY <1>1 DEF Error
  <2>2. [d EXCEPT !.errs[now] = @ + 1] = e
    BY <1>1, BatchMore
  <2> QED BY <2>1, <2>2
<1>3. agg' = agg /\ truth'.lat = truth.lat
  BY <1>1 DEF Error, Truth
<1>4. e.hist = d.hist
  OBVIOUS
<1> HIDE DEF e
<1>5. \A x \in Shards : delta'[x].hist = delta[x].hist
  BY <1>1, <1>2, <1>4
<1> QED BY <1>3, <1>5, HistStays

LEMMA ViolateRecords ==
    ASSUME ScoringInv, HistInv, NEW s \in Shards, Violate(s)
    PROVE  HistInv'
<1> DEFINE d == delta[s]
           e == [hist |-> d.hist, acks |-> d.acks, errs |-> d.errs, violations |-> d.violations + 1]
<1>1. delta \in [Shards -> Batch] /\ d \in Batch
  BY DEF ScoringInv, ScoringTypeOK
<1>2. delta' = [delta EXCEPT ![s] = e]
  <2>1. delta' = [delta EXCEPT ![s] = [d EXCEPT !.violations = @ + 1]]
    BY <1>1 DEF Violate
  <2>2. [d EXCEPT !.violations = @ + 1] = e
    BY <1>1, BatchViolated
  <2> QED BY <2>1, <2>2
<1>3. agg' = agg /\ truth' = truth
  BY DEF Violate
<1>4. e.hist = d.hist
  OBVIOUS
<1> HIDE DEF e
<1>5. \A x \in Shards : delta'[x].hist = delta[x].hist
  BY <1>1, <1>2, <1>4
<1> QED BY <1>3, <1>5, HistStays

LEMMA FoldRecords ==
    ASSUME ScoringInv, HistInv, NEW s \in Shards, Fold(s)
    PROVE  HistInv'
<1> DEFINE d == delta[s]
           g == Merge(agg.hist, d.hist)
<1>1. delta \in [Shards -> Batch] /\ agg \in Batch /\ d \in Batch
  BY DEF ScoringInv, ScoringTypeOK
<1>2. d.hist \in [Buckets -> Nat] /\ agg.hist \in [Buckets -> Nat]
      /\ truth.lat \in [Latencies -> Nat]
  BY <1>1 DEF Batch, ScoringInv, ScoringTypeOK, Truth
<1>3. delta' = [delta EXCEPT ![s] = Nothing] /\ truth' = truth /\ agg'.hist = g
  BY DEF Fold
<1>4. delta'[s].hist = Nothing.hist /\ \A x \in Shards \ {s} : delta'[x].hist = delta[x].hist
  BY <1>1, <1>3
<1>5. \A k \in Buckets : g[k] = agg.hist[k] + d.hist[k]
  BY <1>2 DEF Merge
<1> HIDE DEF g, d
<1> SUFFICES ASSUME NEW b \in Int PROVE HistConserved(b)'
  BY DEF HistInv
<1> DEFINE F == FirstBuckets(b)
           n == SumOf(F, d.hist)
           m == SumOf(F, agg.hist)
<1>6. F \in SUBSET Buckets /\ IsFiniteSet(F)
  BY HistFinite
<1> HIDE DEF F
<1>7. n \in Nat /\ m \in Nat /\ Whole(F, d.hist) /\ Whole(F, agg.hist)
  BY <1>2, <1>6, SumNat
<1>8. SumOf(F, g) = m + n
  <2>1. Joined(F, agg.hist, d.hist, g)
    BY <1>5, <1>6 DEF Joined
  <2>2. JoinsTo(F, agg.hist, d.hist, g)
    BY <1>6, <1>7, <2>1, SumOfJoined
  <2> QED BY <2>2 DEF JoinsTo
<1>9. SumOf(F, Nothing.hist) = 0
  <2>1. \A x \in F : Nothing.hist[x] = 0
    BY <1>6, NothingIs
  <2> QED BY <1>6, <2>1, SumOfZero
<1>10. SumOf(Shorter(b), truth.lat) \in Nat
  BY <1>2, HistFinite, SumNat
<1> HIDE DEF n, m
<1>11. HistShifts(b, s, 0 - n, 0)
  <2>1. SumOf(FirstBuckets(b), delta'[s].hist) = SumOf(FirstBuckets(b), delta[s].hist) + (0 - n)
    <3>1. 0 = n + (0 - n)
      BY <1>7
    <3> QED BY <1>4, <1>9, <3>1 DEF F, d, n
  <2>2. SumOf(Shorter(b), truth'.lat) = SumOf(Shorter(b), truth.lat) + 0
    BY <1>3, <1>10
  <2>3. SumOf(FirstBuckets(b), agg'.hist) = SumOf(FirstBuckets(b), agg.hist) + 0 - (0 - n)
    <3>1. m + n = m + 0 - (0 - n)
      BY <1>7
    <3> QED BY <1>3, <1>8, <3>1 DEF F, m
  <2> QED BY <1>4, <2>1, <2>2, <2>3 DEF HistShifts
<1>12. 0 - n \in Int
  BY <1>7
<1> QED BY <1>11, <1>12, HistMoves

LEMMA HistInit ==
    ASSUME Init
    PROVE  HistInv
<1> SUFFICES ASSUME NEW b \in Int PROVE HistConserved(b)
  BY DEF HistInv
<1>1. /\ \A ns \in Shorter(b) : truth.lat[ns] = 0
      /\ \A k \in FirstBuckets(b) : agg.hist[k] = 0
      /\ \A x \in Shards : \A k \in FirstBuckets(b) : delta[x].hist[k] = 0
  BY NothingIs DEF Init, Shorter, FirstBuckets
<1>2. SumOf(Shorter(b), truth.lat) = 0 /\ SumOf(FirstBuckets(b), agg.hist) = 0
  BY <1>1, HistFinite, SumOfZero
<1>3. \A x \in Shards : SumOf(FirstBuckets(b), delta[x].hist) = 0
  BY <1>1, HistFinite, SumOfZero
<1>4. \A x \in Shards : PendingUpto(b)[x] = 0
  BY <1>3 DEF PendingUpto
<1>5. SumOf(Shards, PendingUpto(b)) = 0
  BY <1>4, SumOfZero, SecsFinite
<1> QED BY <1>2, <1>5 DEF HistConserved

LEMMA HistInvariant == Spec => []HistInv
<1>1. Init => HistInv
  BY HistInit
<1>2. ScoringInv /\ HistInv /\ [Next]_vars => HistInv'
  <2> SUFFICES ASSUME ScoringInv, HistInv, [Next]_vars PROVE HistInv'
    OBVIOUS
  <2>1. CASE UNCHANGED vars
    BY <2>1, HistStays DEF vars
  <2>2. CASE Next
    <3>1. CASE Tick
      BY <3>1, HistStays DEF Tick
    <3> QED BY <2>2, <3>1, AckRecords, ErrorRecords, ViolateRecords, FoldRecords DEF Next
  <2> QED BY <2>1, <2>2
<1> QED BY <1>1, <1>2, ScoringInvariant, PTL DEF Spec

-----------------------------------------------------------------------------
(* The percentiles. *)

Percents == {50, 90, 99}

(* Acks no longer than ns, and shorter ones. *)
Within(ns) == {n \in Latencies : n <= ns}
Under(ns)  == {n \in Latencies : n < ns}

LEMMA WithinFinite ==
    ASSUME NEW ns
    PROVE  /\ Within(ns) \in SUBSET Latencies /\ IsFiniteSet(Within(ns))
           /\ Under(ns) \in SUBSET Latencies /\ IsFiniteSet(Under(ns))
<1>1. Within(ns) \in SUBSET Latencies /\ Under(ns) \in SUBSET Latencies
  BY DEF Within, Under
<1>2. IsFiniteSet(Latencies)
  BY ScoringAssumption
<1> QED BY <1>1, <1>2, FS_Subset

(* So many percent of all acks were answered within the true latency, and  *)
(* fewer in less.                                                          *)
LEMMA TrueLatencyIs ==
    ASSUME ScoringInv, Total(truth.lat) > 0, NEW p \in Percents
    PROVE  /\ TrueLatency(p) \in Latencies
           /\ 100 * SumOf(Within(TrueLatency(p)), truth.lat) >= p * Total(truth.lat)
           /\ 100 * SumOf(Under(TrueLatency(p)), truth.lat) < p * Total(truth.lat)
<1> DEFINE lat == truth.lat
           n == Total(truth.lat)
           S == {ns \in Latencies : 100 * SumOf(Within(ns), lat) >= p * n}
           t == Min(S)
<1>1. lat \in [Latencies -> Nat]
  BY DEF ScoringInv, ScoringTypeOK, Truth
<1>2. IsFiniteSet(Latencies) /\ Latencies \subseteq Nat
  BY ScoringAssumption
<1>3. n = SumOf(Latencies, lat) /\ n \in Nat /\ n > 0
  BY <1>1, <1>2, TotalNat
<1>4. ASSUME NEW ns \in Latencies
      PROVE  MapThenSumSet(LAMBDA k : truth.lat[k], {k \in Latencies : k <= ns}) = SumOf(Within(ns), lat)
  <2>1. TotalOver(lat, Within(ns)) = SumOf(Within(ns), lat)
    BY <1>1, WithinFinite, SumNat, MapSumIs
  <2>2. TotalOver(lat, Within(ns)) = MapThenSumSet(LAMBDA k : truth.lat[k], {k \in Latencies : k <= ns})
    BY DEF TotalOver, Within
  <2> QED BY <2>1, <2>2
<1>5. TrueLatency(p) = t
  <2>1. {ns \in Latencies : 100 * MapThenSumSet(LAMBDA k : truth.lat[k], {k \in Latencies : k <= ns})
                               >= p * Total(truth.lat)} = S
    BY <1>4
  <2> QED BY <2>1 DEF TrueLatency
<1>6. \A ns \in Latencies : SumOf(Within(ns), lat) \in Nat /\ SumOf(Under(ns), lat) \in Nat
  BY <1>1, WithinFinite, SumNat
<1>7. p * n \in Nat /\ p * n > 0 /\ p * n <= 100 * n
  BY <1>3 DEF Percents
<1> HIDE DEF lat, n
<1>8. Latencies # {}
  <2> SUFFICES ASSUME Latencies = {} PROVE FALSE
    OBVIOUS
  <2> QED BY <1>3, SumOfEmpty
<1> DEFINE z == Max(Latencies)
<1>9. z \in Latencies /\ \A k \in Latencies : k <= z
  <2>1. Latencies \subseteq Int
    BY <1>2
  <2> QED BY <1>2, <1>8, <2>1, MaxIs
<1> HIDE DEF z
<1>10. z \in S
  <2>1. Within(z) = Latencies
    BY <1>9 DEF Within
  <2>2. SumOf(Within(z), lat) = n
    BY <1>3, <2>1
  <2>3. 100 * SumOf(Within(z), lat) >= p * n
    BY <1>3, <1>7, <2>2
  <2> QED BY <1>9, <2>3
<1>11. S \subseteq Latencies /\ \A ns \in S : 100 * SumOf(Within(ns), lat) >= p * n
  OBVIOUS
<1>12. \A ns \in Latencies : 100 * SumOf(Within(ns), lat) >= p * n => ns \in S
  OBVIOUS
<1> HIDE DEF S
<1>13. t \in S /\ \A ns \in S : t <= ns
  <2>1. IsFiniteSet(S)
    BY <1>2, <1>11, FS_Subset
  <2>2. S # {} /\ S \subseteq Int
    BY <1>2, <1>10, <1>11
  <2> QED BY <2>1, <2>2, MinIs
<1> HIDE DEF t
<1>14. t \in Latencies /\ t \in Nat /\ 100 * SumOf(Within(t), lat) >= p * n
  BY <1>2, <1>11, <1>13
<1>15. 100 * SumOf(Under(t), lat) < p * n
  <2>1. CASE Under(t) = {}
    <3>1. SumOf(Under(t), lat) = 0
      BY <2>1, SumOfEmpty
    <3> QED BY <1>7, <3>1
  <2>2. CASE Under(t) # {}
    <3> DEFINE u == Max(Under(t))
    <3>1. Under(t) \subseteq Int /\ IsFiniteSet(Under(t))
      <4>1. Under(t) \in SUBSET Latencies /\ IsFiniteSet(Under(t))
        BY WithinFinite
      <4>2. Latencies \subseteq Int
        BY <1>2
      <4>3. Under(t) \subseteq Int
        BY <4>1, <4>2
      <4> QED BY <4>1, <4>3
    <3>2. u \in Under(t) /\ \A k \in Under(t) : k <= u
      BY <2>2, <3>1, MaxIs
    <3> HIDE DEF u
    <3>3. u \in Latencies /\ u < t /\ u \in Nat
      BY <1>2, <3>2 DEF Under
    <3>4. Within(u) = Under(t)
      <4>1. ASSUME NEW k \in Within(u) PROVE k \in Under(t)
        BY <1>2, <1>14, <3>3 DEF Within, Under
      <4>2. ASSUME NEW k \in Under(t) PROVE k \in Within(u)
        BY <3>2 DEF Within, Under
      <4> QED BY <4>1, <4>2
    <3>5. u \notin S
      BY <1>13, <1>14, <3>3
    <3>6. ~(100 * SumOf(Within(u), lat) >= p * n)
      BY <1>12, <3>3, <3>5
    <3> DEFINE x == SumOf(Under(t), lat)
               y == p * n
    <3>7. ~(100 * x >= y) /\ x \in Nat /\ y \in Nat
      BY <1>6, <1>7, <1>14, <3>4, <3>6
    <3> HIDE DEF x, y
    <3>8. 100 * x < y
      BY <3>7
    <3> QED BY <3>8 DEF x, y
  <2> QED BY <2>1, <2>2
<1> QED BY <1>5, <1>14, <1>15 DEF lat, n

(* Reaching the rank is reaching the share. *)
LEMMA RankIs ==
    ASSUME NEW n \in Nat, NEW p \in Percents, NEW x \in Nat
    PROVE  x >= Rank(n, p) <=> 100 * x >= p * n
<1>1. ASSUME NEW y \in Nat PROVE x >= (y + 99) \div 100 <=> 100 * x >= y
  OBVIOUS
<1>2. n * p \in Nat /\ n * p = p * n
  BY DEF Percents
<1> QED BY <1>1, <1>2 DEF Rank

(* The quantile finds the bucket of the true latency. *)
LEMMA QuantileBucketTrue ==
    ASSUME ScoringInv, HistInv, AllFolded, Total(truth.lat) > 0, NEW p \in Percents
    PROVE  /\ Total(agg.hist) = Total(truth.lat)
           /\ QuantileBucket(agg.hist, p) = BucketOf(TrueLatency(p))
<1> DEFINE lat == truth.lat
           c == agg.hist
           n == Total(truth.lat)
           t == TrueLatency(p)
           B == BucketOf(t)
           Cum(b) == SumOf(FirstBuckets(b), c)
<1>1. lat \in [Latencies -> Nat] /\ c \in [Buckets -> Nat]
  BY DEF ScoringInv, ScoringTypeOK, Truth, Batch
<1>2. IsFiniteSet(Latencies) /\ Latencies \subseteq Nat
  BY ScoringAssumption
<1>3. n = SumOf(Latencies, lat) /\ n \in Nat
  BY <1>1, <1>2, TotalNat
<1>4. ASSUME NEW b \in Int PROVE Cum(b) = SumOf(Shorter(b), lat) /\ Cum(b) \in Nat
  <2>1. \A x \in Shards : PendingUpto(b)[x] = 0
    <3> TAKE x \in Shards
    <3>1. delta[x] = Nothing
      BY DEF AllFolded
    <3>2. \A k \in FirstBuckets(b) : delta[x].hist[k] = 0
      BY <3>1, NothingIs DEF FirstBuckets
    <3>3. SumOf(FirstBuckets(b), delta[x].hist) = 0
      BY <3>2, HistFinite, SumOfZero
    <3> QED BY <3>3 DEF PendingUpto
  <2>2. SumOf(Shards, PendingUpto(b)) = 0
    BY <2>1, SumOfZero, SecsFinite
  <2>3. SumOf(FirstBuckets(b), c) \in Nat
    BY <1>1, HistFinite, SumNat
  <2>4. SumOf(Shorter(b), lat) = SumOf(FirstBuckets(b), c) + SumOf(Shards, PendingUpto(b))
    BY DEF HistInv, HistConserved
  <2> QED BY <2>2, <2>3, <2>4
<1>5. Total(c) = n
  <2>1. MaxBucket \in Int
    BY ScoringAssumption
  <2>2. FirstBuckets(MaxBucket) = Buckets
    BY <2>1 DEF FirstBuckets, Buckets
  <2>3. Shorter(MaxBucket) = Latencies
    <3>1. \A k \in Buckets : k <= MaxBucket
      BY <2>1 DEF Buckets
    <3> QED BY <3>1, BucketOfIs DEF Shorter
  <2>4. SumOf(Buckets, c) = SumOf(Latencies, lat)
    BY <1>4, <2>1, <2>2, <2>3
  <2>5. Total(c) = SumOf(Buckets, c)
    BY <1>1, SecsFinite, TotalNat
  <2> QED BY <1>3, <2>4, <2>5
<1>6. /\ t \in Latencies /\ 100 * SumOf(Within(t), lat) >= p * n /\ 100 * SumOf(Under(t), lat) < p * n
  BY TrueLatencyIs
<1>7. B \in Buckets /\ B \in Nat /\ B \in Int /\ B - 1 \in Int
  <2>1. B \in Buckets
    BY BucketOfIs
  <2> HIDE DEF B
  <2>2. B \in Nat
    BY <2>1, SecsFinite
  <2> QED BY <2>1, <2>2
<1>8. SumOf(Within(t), lat) \in Nat /\ SumOf(Under(t), lat) \in Nat /\ p * n \in Nat
  <2>1. SumOf(Within(t), lat) \in Nat /\ SumOf(Under(t), lat) \in Nat
    BY <1>1, WithinFinite, SumNat
  <2>2. p \in Nat
    BY DEF Percents
  <2>3. p * n \in Nat
    BY <1>3, <2>2, TimesMonotone
  <2> QED BY <2>1, <2>3
<1>9. \A k \in Buckets : k \in Nat
  BY SecsFinite
<1> DEFINE S == {b \in Buckets : c[b] > 0 /\ Cum(b) >= Rank(n, p)}
<1>10. QuantileBucket(c, p) = Min(S)
  <2>1. DOMAIN c = Buckets
    BY <1>1
  <2>2. ASSUME NEW b \in Buckets PROVE MapThenSumSet(LAMBDA k : c[k], {k \in Buckets : k <= b}) = Cum(b)
    <3>1. TotalOver(c, FirstBuckets(b)) = SumOf(FirstBuckets(b), c)
      BY <1>1, HistFinite, SumNat, MapSumIs
    <3>2. TotalOver(c, FirstBuckets(b)) = MapThenSumSet(LAMBDA k : c[k], {k \in Buckets : k <= b})
      BY DEF TotalOver, FirstBuckets
    <3> QED BY <3>1, <3>2
  <2>3. {b \in Buckets : /\ c[b] > 0
                         /\ MapThenSumSet(LAMBDA k : c[k], {k \in Buckets : k <= b}) >= Rank(Total(c), p)} = S
    BY <1>5, <2>2
  <2> QED BY <2>1, <2>3 DEF QuantileBucket
<1> HIDE DEF lat, c, n, t, B, Cum
<1>11. Cum(B) >= Rank(n, p)
  <2>1. Within(t) \in SUBSET Shorter(B)
    <3>1. ASSUME NEW k \in Latencies, k <= t PROVE BucketOf(k) <= B
      BY <1>6, <3>1, BucketMonotone DEF B
    <3> QED BY <3>1 DEF Within, Shorter
  <2>2. Natural(Shorter(B), lat) /\ IsFiniteSet(Shorter(B)) /\ SumOf(Shorter(B), lat) \in Nat
    BY <1>1, HistFinite, SumNat
  <2>3. SumOf(Within(t), lat) <= SumOf(Shorter(B), lat)
    BY <2>1, <2>2, SumOfMore
  <2>4. 100 * SumOf(Shorter(B), lat) >= p * n
    BY <1>6, <1>8, <2>2, <2>3
  <2>5. Cum(B) = SumOf(Shorter(B), lat) /\ Cum(B) \in Nat
    BY <1>4, <1>7
  <2>6. 100 * Cum(B) >= p * n
    BY <2>4, <2>5
  <2> QED BY <1>3, <2>5, <2>6, RankIs
<1>12. ASSUME NEW b \in Int, b < B PROVE 100 * Cum(b) < p * n
  <2>1. Shorter(b) \in SUBSET Under(t)
    <3>1. ASSUME NEW k \in Latencies, BucketOf(k) <= b PROVE k < t
      <4> SUFFICES ASSUME ~(k < t) PROVE FALSE
        OBVIOUS
      <4>1. k \in Nat /\ t \in Nat
        BY <1>2, <1>6
      <4>2. t <= k
        BY <4>1
      <4>3. B <= BucketOf(k)
        BY <1>6, <4>2, BucketMonotone DEF B
      <4>4. BucketOf(k) \in Nat
        BY <1>9, BucketOfIs
      <4> QED BY <1>7, <1>12, <3>1, <4>3, <4>4
    <3> QED BY <3>1 DEF Under, Shorter
  <2>2. Natural(Under(t), lat) /\ IsFiniteSet(Under(t))
    BY <1>1, WithinFinite, SumNat
  <2>3. SumOf(Shorter(b), lat) <= SumOf(Under(t), lat)
    BY <2>1, <2>2, SumOfMore
  <2>4. Cum(b) = SumOf(Shorter(b), lat) /\ Cum(b) \in Nat
    BY <1>4
  <2>5. Cum(b) <= SumOf(Under(t), lat)
    BY <2>3, <2>4
  <2> QED BY <1>6, <1>8, <2>4, <2>5
<1>13. c[B] > 0
  <2>1. FirstBuckets(B) = FirstBuckets(B - 1) \cup {B} /\ B \notin FirstBuckets(B - 1)
    <3>1. \A k \in Buckets : k <= B <=> (k <= B - 1 \/ k = B)
      BY <1>7, <1>9
    <3>2. ~(B <= B - 1)
      BY <1>7
    <3> QED BY <1>7, <3>1, <3>2 DEF FirstBuckets
  <2>2. AddsUp(FirstBuckets(B - 1), B, c, c)
    <3>1. Whole(FirstBuckets(B), c)
      BY <1>1, HistFinite, SumNat
    <3> QED BY <2>1, <3>1, HistFinite, SumOfAdd DEF Alike
  <2>3. Cum(B) = c[B] + Cum(B - 1)
    BY <2>1, <2>2 DEF AddsUp, Cum
  <2>4. c[B] \in Nat
    BY <1>1, <1>7
  <2>5. 100 * Cum(B - 1) < p * n /\ Cum(B - 1) \in Nat
    BY <1>4, <1>7, <1>12
  <2>6. 100 * Cum(B) >= p * n
    BY <1>3, <1>4, <1>7, <1>11, RankIs
  <2> QED BY <1>8, <2>3, <2>4, <2>5, <2>6
<1>14. B \in S
  BY <1>7, <1>11, <1>13
<1>15. ASSUME NEW b \in S PROVE B <= b
  <2>1. b \in Nat /\ b \in Int /\ Cum(b) >= Rank(n, p) /\ Cum(b) \in Nat
    BY <1>4, <1>9
  <2>2. 100 * Cum(b) >= p * n
    BY <1>3, <2>1, RankIs
  <2>3. ~(b < B)
    BY <1>8, <1>12, <2>1, <2>2
  <2> QED BY <1>7, <2>1, <2>3
<1>16. S \subseteq Buckets
  OBVIOUS
<1> HIDE DEF S
<1>17. Min(S) \in S /\ \A b \in S : Min(S) <= b
  <2>1. IsFiniteSet(S)
    BY <1>16, SecsFinite, FS_Subset
  <2>2. S # {} /\ S \subseteq Int
    BY <1>9, <1>14, <1>16
  <2> QED BY <2>1, <2>2, MinIs
<1>18. Min(S) = B
  <2>1. Min(S) \in Nat /\ Min(S) <= B /\ B <= Min(S)
    BY <1>9, <1>14, <1>15, <1>16, <1>17
  <2> QED BY <1>7, <2>1
<1> QED BY <1>5, <1>10, <1>18 DEF c, n, B, t

(* The percentiles of a verdict on all batches are within half a bucket of *)
(* the latencies that so many percent of all acks did not exceed: Quantile *)
(* on the merged histograms finds the bucket of the true percentile,       *)
(* however the acks were spread over shards and batches.                   *)
THEOREM PercentilesAreAccurate == Spec => []PercentilesAccurate
<1>1. ASSUME ScoringInv, HistInv PROVE PercentilesAccurate
  <2> SUFFICES ASSUME AllFolded, Total(truth.lat) > 0, NEW p \in Percents
               PROVE  IF TrueLatency(p) < 1 THEN Quantile(agg.hist, p) = 1
                      ELSE /\ Quantile(agg.hist, p) <= TrueLatency(p) * Root
                           /\ TrueLatency(p) <= Quantile(agg.hist, p) * Root
    BY DEF PercentilesAccurate, Percents
  <2>1. TrueLatency(p) \in Latencies
    BY <1>1, TrueLatencyIs
  <2>2. Total(agg.hist) = Total(truth.lat) /\ QuantileBucket(agg.hist, p) = BucketOf(TrueLatency(p))
    BY <1>1, QuantileBucketTrue
  <2>3. Total(agg.hist) # 0
    <3>1. truth.lat \in [Latencies -> Nat] /\ IsFiniteSet(Latencies)
      BY <1>1, ScoringAssumption DEF ScoringInv, ScoringTypeOK, Truth
    <3>2. Total(truth.lat) \in Nat
      BY <3>1, TotalNat
    <3> QED BY <2>2, <3>2
  <2>4. Quantile(agg.hist, p) = BucketValue(BucketOf(TrueLatency(p)))
    BY <2>2, <2>3 DEF Quantile
  <2> QED BY <2>1, <2>4, BucketValueNear
<1> QED BY <1>1, ScoringInvariant, HistInvariant, PTL
=============================================================================
