------------------------- MODULE PreparationProofs -------------------------
(***************************************************************************)
(* The fan-out of a job is exact for every number of bots and requests per *)
(* second that may be asked for and for every cap, default and shard size: *)
(* a proof of LoadPlan's FanOutExact.                                      *)
(*                                                                         *)
(* handle() computes each share on its own, from the index of the shard.   *)
(* The invariant says what the shares dispatched so far add up to.         *)
(***************************************************************************)
EXTENDS Preparation, SumProofs

Shard == [bots : Int, rps : Int]

JobOK == job.bots \in 1 .. MaxBots /\ job.rps \in 1 .. MaxRPS

Lesser(a, b) == IF a <= b THEN a ELSE b

Shares ==
    /\ JobOK
    /\ Len(shards) <= TotalShards
    /\ \A i \in 1 .. Len(shards) : shards[i].bots = ShardBots(i - 1) /\ shards[i].rps = ShardRPS
    /\ FieldTotal(shards, "bots") = Len(shards) * (job.bots \div TotalShards)
                               + Lesser(Len(shards), job.bots % TotalShards)
    /\ FieldTotal(shards, "rps") = Len(shards) * ShardRPS

(* The inductive invariant. *)
PlanInv ==
    /\ asked \in [bots : Int, rps : Int]
    /\ shards \in Seq(Shard)
    /\ job = NoJob => shards = <<>>
    /\ job # NoJob => Shares

-----------------------------------------------------------------------------
(* Integer division, fact by fact. *)
LEMMA QuotientIs ==
    ASSUME NEW a \in Nat, NEW d \in Nat \ {0}
    PROVE  a \div d \in Int /\ a \div d >= 0
OBVIOUS

LEMMA RemainderIs ==
    ASSUME NEW a \in Nat, NEW d \in Nat \ {0}
    PROVE  a % d \in 0 .. d - 1
OBVIOUS

LEMMA QuotientAndRemainder ==
    ASSUME NEW a \in Nat, NEW d \in Nat \ {0}
    PROVE  a = d * (a \div d) + (a % d)
OBVIOUS

LEMMA Division ==
    ASSUME NEW a \in Nat, NEW d \in Nat \ {0}
    PROVE  /\ a \div d \in Nat /\ a % d \in 0 .. d - 1
           /\ a = d * (a \div d) + (a % d)
<1> DEFINE q == a \div d
           m == a % d
<1>1. q \in Int /\ q >= 0
  BY QuotientIs
<1>2. m \in 0 .. d - 1
  BY RemainderIs
<1>3. a = d * q + m
  BY QuotientAndRemainder
<1> HIDE DEF q, m
<1>4. q \in Nat
  BY <1>1
<1>5. q \in Nat /\ m \in 0 .. d - 1 /\ a = d * q + m
  BY <1>2, <1>3, <1>4
<1> QED BY <1>5 DEF q, m

(* ceil(b / p) shards of at most p bots: none is empty. *)
LEMMA Ceiling ==
    ASSUME NEW b \in Nat \ {0}, NEW p \in Nat \ {0}, NEW t, t = (b + p - 1) \div p
    PROVE  t \in Nat \ {0} /\ t <= b /\ b <= t * p
<1> DEFINE m == (b + p - 1) % p
<1>1. b + p - 1 \in Nat
  OBVIOUS
<1>2. t \in Nat /\ m \in 0 .. p - 1 /\ b + p - 1 = p * t + m
  BY <1>1, Division
<1> HIDE DEF m
<1> DEFINE u == p * t
<1>3. u \in Int
  BY <1>2
<1>4. b <= u /\ u <= b + p - 1
  <2> HIDE DEF u
  <2>1. b + p - 1 = u + m
    BY <1>2 DEF u
  <2> QED BY <1>2, <1>3, <2>1
<1>5. u = t * p
  BY <1>2
<1>6. t # 0
  BY <1>2, <1>4, <1>5
<1>7. t <= b
  <2> SUFFICES ASSUME t >= b + 1 PROVE FALSE
    BY <1>2
  <2>1. p * t >= p * (b + 1)
    BY <1>2
  <2>2. p * (b + 1) = p * b + p
    OBVIOUS
  <2>3. p * b >= b
    OBVIOUS
  <2>4. p * b \in Int
    OBVIOUS
  <2> QED BY <1>3, <1>4, <2>1, <2>2, <2>3, <2>4
<1> QED BY <1>2, <1>4, <1>5, <1>6, <1>7

(* An even share, with or without one of the remainder, fits a shard. *)
LEMMA Share ==
    ASSUME NEW b \in Nat \ {0}, NEW p \in Nat \ {0}, NEW t \in Nat \ {0}, t <= b, b <= t * p
    PROVE  /\ b \div t >= 1 /\ b \div t <= p
           /\ b % t > 0 => b \div t + 1 <= p
<1> DEFINE q == b \div t
           m == b % t
<1>1. q \in Nat /\ m \in 0 .. t - 1 /\ b = t * q + m
  BY Division
<1> HIDE DEF q, m
<1>2. q # 0
  BY <1>1
<1>3. q <= p
  <2> SUFFICES ASSUME q >= p + 1 PROVE FALSE
    BY <1>1
  <2>1. t * q >= t * (p + 1)
    BY <1>1
  <2>2. t * (p + 1) = t * p + t
    OBVIOUS
  <2>3. t * q \in Int /\ t * p \in Int
    BY <1>1
  <2> QED BY <1>1, <2>1, <2>2, <2>3
<1>4. m > 0 => q # p
  BY <1>1
<1> QED BY <1>1, <1>2, <1>3, <1>4 DEF q, m

(* The defaults and caps of createRun. *)
LEMMA NormalIs ==
    ASSUME NEW n \in Int, NEW default \in Nat \ {0}, NEW max \in Nat \ {0}
    PROVE  Normal(n, default, max) \in 1 .. max
<1> DEFINE a == IF n <= 0 THEN default ELSE n
           c == Min({a, max})
<1>1. a \in Nat \ {0}
  OBVIOUS
<1> HIDE DEF a
<1>2. \E x \in {a, max} : \A y \in {a, max} : x <= y
  BY <1>1
<1>3. c \in {a, max} /\ \A y \in {a, max} : c <= y
  BY <1>2 DEF Min
<1>4. Normal(n, default, max) = c
  BY DEF Normal, a
<1> HIDE DEF c
<1> QED BY <1>1, <1>3, <1>4

-----------------------------------------------------------------------------
(* The numbers of a job that is well-formed. *)
LEMMA JobIs ==
    ASSUME JobOK
    PROVE  /\ job.bots \in Nat \ {0} /\ job.rps \in Nat \ {0}
           /\ TotalShards \in Nat \ {0} /\ TotalShards <= job.bots
           /\ job.bots <= TotalShards * BotsPerShard
           /\ job.bots \div TotalShards \in Nat /\ job.bots % TotalShards \in 0 .. TotalShards - 1
           /\ job.bots = TotalShards * (job.bots \div TotalShards) + (job.bots % TotalShards)
           /\ ShardRPS \in Nat
<1>1. job.bots \in Nat \ {0} /\ job.rps \in Nat \ {0}
  BY LoadPlanAssumption DEF JobOK
<1>2. BotsPerShard \in Nat \ {0}
  BY LoadPlanAssumption
<1>3. TotalShards = (job.bots + BotsPerShard - 1) \div BotsPerShard
  BY DEF TotalShards
<1>4. /\ TotalShards \in Nat \ {0} /\ TotalShards <= job.bots
      /\ job.bots <= TotalShards * BotsPerShard
  BY <1>1, <1>2, <1>3, Ceiling
<1>5. /\ job.bots \div TotalShards \in Nat /\ job.bots % TotalShards \in 0 .. TotalShards - 1
      /\ job.bots = TotalShards * (job.bots \div TotalShards) + (job.bots % TotalShards)
  BY <1>1, <1>4, Division
<1>6. ShardRPS \in Nat
  BY <1>1, <1>4, Division DEF ShardRPS
<1> QED BY <1>1, <1>4, <1>5, <1>6

LEMMA PlanStarts == Init => PlanInv
<1> SUFFICES ASSUME Init PROVE PlanInv
  OBVIOUS
<1>1. asked \in [bots : Numbers, rps : Numbers] /\ job = NoJob /\ shards = <<>>
  BY DEF Init, PlanInit
<1>2. asked \in [bots : Int, rps : Int]
  BY <1>1, LoadPlanAssumption
<1> QED BY <1>1, <1>2 DEF PlanInv

LEMMA PlanCreates ==
    ASSUME PlanInv, CreateRun
    PROVE  PlanInv'
<1>1. /\ asked' = asked /\ shards' = <<>> /\ asked \in [bots : Int, rps : Int]
      /\ job' = [bots |-> Normal(asked.bots, BotsDefault, MaxBots),
                 rps |-> Normal(asked.rps, RPSDefault, MaxRPS)]
  BY DEF PlanInv, CreateRun
<1>2. JobOK'
  <2>1. asked.bots \in Int /\ asked.rps \in Int
    BY <1>1
  <2>2. /\ BotsDefault \in Nat \ {0} /\ MaxBots \in Nat \ {0}
        /\ RPSDefault \in Nat \ {0} /\ MaxRPS \in Nat \ {0}
    BY LoadPlanAssumption
  <2>3. Normal(asked.bots, BotsDefault, MaxBots) \in 1 .. MaxBots
    BY <2>1, <2>2, NormalIs
  <2>4. Normal(asked.rps, RPSDefault, MaxRPS) \in 1 .. MaxRPS
    BY <2>1, <2>2, NormalIs
  <2>5. job'.bots \in 1 .. MaxBots /\ job'.rps \in 1 .. MaxRPS
    BY <1>1, <2>3, <2>4
  <2> QED BY <2>5 DEF JobOK
<1>3. /\ TotalShards' \in Nat /\ job'.bots \div TotalShards' \in Int
      /\ job'.bots % TotalShards' \in Nat /\ ShardRPS' \in Int
  <2> DEFINE b == job'.bots
             r == job'.rps
             t == TotalShards'
  <2>1. b \in Nat \ {0} /\ r \in Nat \ {0} /\ BotsPerShard \in Nat \ {0}
    BY <1>2, LoadPlanAssumption DEF JobOK
  <2>2. t = (b + BotsPerShard - 1) \div BotsPerShard /\ ShardRPS' = r \div t
    BY DEF TotalShards, ShardRPS
  <2> HIDE DEF b, r, t
  <2>3. t \in Nat \ {0}
    BY <2>1, <2>2, Ceiling
  <2>4. b \div t \in Nat /\ b % t \in 0 .. t - 1 /\ r \div t \in Nat
    BY <2>1, <2>3, Division
  <2> QED BY <2>2, <2>3, <2>4 DEF b, t
<1>4. Len(shards') = 0 /\ FieldTotal(shards', "bots") = 0 /\ FieldTotal(shards', "rps") = 0 /\ shards' \in Seq(Shard)
  BY <1>1, TotalEmpty
<1>5. Shares'
  BY <1>2, <1>3, <1>4 DEF Shares, Lesser
<1> QED BY <1>1, <1>4, <1>5 DEF PlanInv

LEMMA PlanDispatches ==
    ASSUME PlanInv, Dispatch
    PROVE  PlanInv'
<1> DEFINE n == Len(shards)
           t == TotalShards
           q == job.bots \div t
           m == job.bots % t
           e == [bots |-> ShardBots(n), rps |-> ShardRPS]
<1>1. /\ Shares /\ shards \in Seq(Shard) /\ n < t /\ job # NoJob
      /\ shards' = Append(shards, e) /\ asked' = asked /\ job' = job
  BY DEF PlanInv, Dispatch
<1>2. JobOK
  BY <1>1 DEF Shares
<1>3. t \in Nat /\ q \in Nat /\ m \in Nat /\ ShardRPS \in Nat /\ n \in Nat
  BY <1>1, <1>2, JobIs
<1>4. \A i \in Nat : ShardBots(i) = q + (IF i < m THEN 1 ELSE 0)
  BY DEF ShardBots
<1>5. e \in Shard /\ e["bots"] = q + (IF n < m THEN 1 ELSE 0) /\ e["rps"] = ShardRPS
  <2> HIDE DEF q, m, n
  <2>1. ShardBots(n) \in Int
    BY <1>3, <1>4
  <2> QED BY <1>3, <1>4, <2>1 DEF Shard
<1>6. TotalShards' = t /\ ShardRPS' = ShardRPS /\ \A i : ShardBots(i)' = ShardBots(i)
  BY <1>1 DEF TotalShards, ShardRPS, ShardBots
<1> HIDE DEF e
<1>7. /\ shards' \in Seq(Shard) /\ Len(shards') = n + 1
      /\ \A i \in 1 .. n : shards'[i] = shards[i]
      /\ shards'[n + 1] = e
  BY <1>1, <1>5
<1>8. FieldTotal(shards', "bots") = FieldTotal(shards, "bots") + e["bots"]
  <2>1. Counted(Shard, "bots")
    BY DEF Counted, Shard
  <2> QED BY <1>1, <1>5, <2>1, TotalAppend
<1>9. FieldTotal(shards', "rps") = FieldTotal(shards, "rps") + e["rps"]
  <2>1. Counted(Shard, "rps")
    BY DEF Counted, Shard
  <2> QED BY <1>1, <1>5, <2>1, TotalAppend
<1>10. FieldTotal(shards, "bots") = n * q + Lesser(n, m) /\ FieldTotal(shards, "rps") = n * ShardRPS
  BY <1>1 DEF Shares
<1> HIDE DEF n, t, q, m
<1>11. (n + 1) * q = n * q + q /\ (n + 1) * ShardRPS = n * ShardRPS + ShardRPS
  BY <1>3
<1>12. n * q \in Int /\ n * ShardRPS \in Int
  BY <1>3
<1>13. FieldTotal(shards', "bots") = (n + 1) * q + Lesser(n + 1, m)
  BY <1>3, <1>5, <1>8, <1>10, <1>11, <1>12 DEF Lesser
<1>14. FieldTotal(shards', "rps") = (n + 1) * ShardRPS
  BY <1>3, <1>5, <1>9, <1>10, <1>11, <1>12
<1>15. \A i \in 1 .. n + 1 : shards'[i].bots = ShardBots(i - 1) /\ shards'[i].rps = ShardRPS
  <2>1. \A i \in 1 .. n : shards[i].bots = ShardBots(i - 1) /\ shards[i].rps = ShardRPS
    BY <1>1 DEF Shares, n
  <2>2. e.bots = ShardBots(n) /\ e.rps = ShardRPS
    BY DEF e
  <2>3. n + 1 - 1 = n
    BY <1>3
  <2> QED BY <1>3, <1>7, <2>1, <2>2, <2>3
<1>16. Shares'
  <2>1. JobOK' /\ n + 1 <= t
    BY <1>1, <1>2, <1>3 DEF JobOK
  <2>2. job'.bots \div TotalShards' = q /\ job'.bots % TotalShards' = m
    BY <1>1, <1>6 DEF q, m
  <2> QED BY <1>6, <1>7, <1>13, <1>14, <1>15, <2>1, <2>2 DEF Shares
<1> QED BY <1>1, <1>7, <1>16 DEF PlanInv

LEMMA PlanInvariant == Spec => []PlanInv
<1>1. PlanInv /\ [Next]_vars => PlanInv'
  <2> SUFFICES ASSUME PlanInv, [Next]_vars PROVE PlanInv'
    OBVIOUS
  <2>1. CASE UNCHANGED planVars
    BY <2>1 DEF planVars, PlanInv, Shares, JobOK, TotalShards, ShardBots, ShardRPS
  <2>2. UNCHANGED planVars \/ CreateRun \/ Dispatch
    BY DEF Next, vars
  <2> QED BY <2>1, <2>2, PlanCreates, PlanDispatches
<1> QED BY <1>1, PlanStarts, PTL DEF Spec

-----------------------------------------------------------------------------
(* Once all shards are out, the sums are the job's. *)
LEMMA SharesAddUp ==
    ASSUME Shares, Len(shards) = TotalShards
    PROVE  /\ FieldTotal(shards, "bots") = job.bots
           /\ FieldTotal(shards, "rps") \in job.rps - TotalShards + 1 .. job.rps
<1> DEFINE t == TotalShards
           q == job.bots \div t
           m == job.bots % t
           k == job.rps \div t
           l == job.rps % t
           r == job.rps
<1>1. /\ t \in Nat \ {0} /\ m \in 0 .. t - 1
      /\ q \in Nat /\ job.bots = t * q + m /\ r \in Nat
  BY JobIs DEF Shares
<1>2. k \in Nat /\ l \in 0 .. t - 1 /\ r = t * k + l
  BY <1>1, Division
<1>3. FieldTotal(shards, "bots") = t * q + Lesser(t, m)
  BY DEF Shares
<1>4. FieldTotal(shards, "rps") = t * k
  BY DEF Shares, ShardRPS
<1> HIDE DEF t, q, m, k, l, r
<1>5. Lesser(t, m) = m
  BY <1>1 DEF Lesser
<1>6. t * k \in Int
  BY <1>1, <1>2
<1>7. t * k \in r - t + 1 .. r
  BY <1>1, <1>2, <1>6
<1> QED BY <1>1, <1>3, <1>4, <1>5, <1>7 DEF t, r

(* No shard is empty or too large, and no two differ by more than one. *)
LEMMA SharesAreEven ==
    ASSUME Shares, shards \in Seq(Shard)
    PROVE  /\ \A i \in DOMAIN shards : shards[i].bots \in 1 .. BotsPerShard
           /\ \A i, j \in DOMAIN shards : shards[i].bots - shards[j].bots \in -1 .. 1
<1> DEFINE q == job.bots \div TotalShards
           m == job.bots % TotalShards
<1>1. /\ job.bots \in Nat \ {0} /\ TotalShards \in Nat \ {0} /\ TotalShards <= job.bots
      /\ job.bots <= TotalShards * BotsPerShard /\ q \in Nat /\ m \in Nat
  BY JobIs DEF Shares
<1>2. BotsPerShard \in Nat \ {0}
  BY LoadPlanAssumption
<1>3. q >= 1 /\ q <= BotsPerShard /\ (m > 0 => q + 1 <= BotsPerShard)
  BY <1>1, <1>2, Share
<1>4. \A i : ShardBots(i) = q + (IF i < m THEN 1 ELSE 0)
  BY DEF ShardBots
<1>5. DOMAIN shards = 1 .. Len(shards) /\ Len(shards) \in Nat
  OBVIOUS
<1>6. \A i \in DOMAIN shards : shards[i].bots = ShardBots(i - 1)
  BY <1>5 DEF Shares
<1> HIDE DEF q, m
<1>7. \A i \in DOMAIN shards : shards[i].bots \in {q, q + 1} /\ shards[i].bots \in 1 .. BotsPerShard
  <2> SUFFICES ASSUME NEW i \in DOMAIN shards
               PROVE  shards[i].bots \in {q, q + 1} /\ shards[i].bots \in 1 .. BotsPerShard
    OBVIOUS
  <2>1. shards[i].bots = q + (IF i - 1 < m THEN 1 ELSE 0)
    BY <1>4, <1>6
  <2>2. i - 1 \in Nat
    BY <1>5
  <2> QED BY <1>1, <1>2, <1>3, <2>1, <2>2
<1>8. \A i, j \in DOMAIN shards : shards[i].bots - shards[j].bots \in -1 .. 1
  <2> SUFFICES ASSUME NEW i \in DOMAIN shards, NEW j \in DOMAIN shards
               PROVE  shards[i].bots - shards[j].bots \in -1 .. 1
    OBVIOUS
  <2>1. shards[i].bots \in {q, q + 1} /\ shards[j].bots \in {q, q + 1}
    BY <1>7
  <2> QED BY <1>1, <2>1
<1> QED BY <1>7, <1>8

LEMMA PlanIsExact == PlanInv => FanOutExact
<1> SUFFICES ASSUME PlanInv, Dispatched PROVE FanOutExact
  BY DEF FanOutExact
<1>1. Shares /\ Len(shards) = TotalShards /\ shards \in Seq(Shard)
  BY DEF PlanInv, Dispatched
<1>2. Sum(LAMBDA s : s.bots) = FieldTotal(shards, "bots")
  BY DEF Sum, FieldTotal
<1>3. Sum(LAMBDA s : s.rps) = FieldTotal(shards, "rps")
  BY DEF Sum, FieldTotal
<1>4. job.bots \in 1 .. MaxBots
  BY <1>1 DEF Shares, JobOK
<1> QED BY <1>1, <1>2, <1>3, <1>4, SharesAddUp, SharesAreEven DEF FanOutExact

(* Whatever was asked for, when the last shard of a job is out every bot   *)
(* is in exactly one shard, the shards are even and within their size, and *)
(* the budgets lose less than one request per second each to rounding:     *)
(* createRun's caps and handle()'s fan-out.                                *)
THEOREM FanOutIsExact == Spec => []FanOutExact
  BY PlanInvariant, PlanIsExact, PTL
=============================================================================
