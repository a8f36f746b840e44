------------------------ MODULE ShardTelemetryProofs ------------------------
(***************************************************************************)
(* The telemetry of a shard adds up: proofs of ShardTelemetry's TypeOK,    *)
(* FinalTotalsExact, TornOneWay, SamplesBounded and ChargesExplained for   *)
(* any number of bots, requests, verdicts, flushes and faults.             *)
(*                                                                         *)
(* The bots and flush() share no lock.  What holds at every moment is a    *)
(* balance: each count is in a buffer, in the batch being put together, in *)
(* the aggregate or lost, up to the bots that stand between two of their   *)
(* own counters.                                                           *)
(***************************************************************************)
EXTENDS ShardTelemetry, FiniteSetTheorems, TLAPS

-----------------------------------------------------------------------------
(* The number of bots that stand at one of the states S. *)
In(S) == Cardinality({b \in Bots : bot[b].at \in S})

(* What has left the shard, and where a tick of a buffer may be. *)
Total(f) == agg[f] + lost[f]
Held(f)  == buf[f] + flusher.cur[f] + Total(f)

(* The counters that the present flush() has loaded. *)
Read ==
    {f \in Counter :
        \/ f = "sent" /\ flusher.at \in {"acked", "errors", "violations", "hist", "ship"}
        \/ f = "acked" /\ flusher.at \in {"errors", "violations", "hist", "ship"}
        \/ f = "errors" /\ flusher.at \in {"violations", "hist", "ship"}
        \/ f = "violations" /\ flusher.at \in {"hist", "ship"}}

(* A bot that is to report a verdict has one. *)
VerdictsLeft == \A b \in Bots : bot[b].at \in {"check", "sample"} => bot[b].verdicts > 0

(* A flush of the ticker is one of those that the bound allows. *)
FlushesLeft == flusher.at # "select" /\ ~flusher.final => flusher.flushes < MaxFlush

(* A counter never shows less than was read of it before. *)
ReadsGrow ==
    /\ \A f \in Counter : flusher.prev[f] <= count[f]
    /\ \A f \in Read : flusher.prev[f] <= flusher.cur[f] /\ flusher.cur[f] <= count[f]

(* Every count is in one place. *)
Balance ==
    /\ count["sent"] = count["acked"] + count["errors"] + In({"wait", "recorded"})
    /\ flusher.at # "ship" => flusher.cur["hist"] = 0
    /\ flusher.at \in {"select", "done"} => \A f \in Buffer : flusher.cur[f] = 0
    /\ faults.dup = 0 =>
          /\ Held("hist") = count["acked"] + In({"recorded"})
          /\ Held("secAcks") + In({"counted"}) = count["acked"]
          /\ Held("secErrs") + In({"failed"}) = count["errors"]
          /\ \A f \in Counter : Total(f) = flusher.prev[f]

(* The maps are taken before the counters are loaded, and the histogram    *)
(* after them.                                                             *)
OneWay ==
    faults.dup = 0 =>
       /\ "acked" \in Read => Total("secAcks") + flusher.cur["secAcks"] <= flusher.cur["acked"]
       /\ "errors" \in Read => Total("secErrs") + flusher.cur["secErrs"] <= flusher.cur["errors"]
       /\ flusher.at = "ship" => flusher.cur["acked"] <= Total("hist") + flusher.cur["hist"]
       /\ Total("secAcks") <= Total("acked")
       /\ Total("acked") <= Total("hist")
       /\ Total("secErrs") <= Total("errors")

(* The last flush() starts when all bots are done, and leaves nothing. *)
LastFlush ==
    /\ flusher.at = "done" => flusher.final
    /\ flusher.final =>
          /\ AllDone
          /\ flusher.at # "select"
          /\ \A f \in Buffer \ {"hist"} : buf[f] = 0
          /\ \A f \in Read : flusher.cur[f] = count[f]
          /\ flusher.at \in {"ship", "done"} => buf["hist"] = 0
          /\ flusher.at = "done" => \A f \in Counter : flusher.prev[f] = count[f]

(* Samples are capped where they are taken, and a violation leaves one. *)
Samples ==
    /\ buf["samples"] <= MaxSamples
    /\ flusher.cur["samples"] <= MaxSamples
    /\ agg["samples"] < 2 * MaxSamples
    /\ faults.lost = 0 => \A f \in Field : lost[f] = 0
    /\ count["violations"] = 0 => agg["violations"] = 0
    /\ count["violations"] > 0 =>
          \/ \E b \in Bots : bot[b].at = "sample"
          \/ buf["samples"] > 0 \/ flusher.cur["samples"] > 0
          \/ agg["samples"] > 0 \/ lost["samples"] > 0

(* The inductive invariant. *)
Exact ==
    /\ TypeOK /\ VerdictsLeft /\ FlushesLeft
    /\ ReadsGrow /\ Balance /\ OneWay /\ LastFlush /\ Samples

-----------------------------------------------------------------------------
LEMMA FieldTypes ==
    /\ \A f \in Counter : f \in Field /\ f \notin Buffer
    /\ \A f \in Buffer : f \in Field /\ f \notin Counter
    /\ "sent" \in Counter /\ "acked" \in Counter /\ "errors" \in Counter
    /\ "violations" \in Counter
    /\ "hist" \in Buffer /\ "secAcks" \in Buffer /\ "secErrs" \in Buffer
    /\ "samples" \in Buffer
BY DEF Field, Counter, Buffer

(* The number of bots at S changes by what the one that moves does. *)
LEMMA OneBotMoves ==
    ASSUME TypeOK, NEW b \in Bots, \A x \in Bots : x # b => bot'[x] = bot[x], NEW S
    PROVE  /\ In(S) \in Nat /\ In(S)' \in Nat
           /\ (bot[b].at \in S <=> bot'[b].at \in S) => In(S)' = In(S)
           /\ bot[b].at \notin S /\ bot'[b].at \in S => In(S)' = In(S) + 1
           /\ bot[b].at \in S /\ bot'[b].at \notin S => In(S)' = In(S) - 1
<1> DEFINE M == {x \in Bots : bot[x].at \in S}
           N == {x \in Bots : bot'[x].at \in S}
<1>1. In(S) = Cardinality(M) /\ In(S)' = Cardinality(N)
    BY DEF In
<1>2. IsFiniteSet(M) /\ IsFiniteSet(N)
    <2>1. M \subseteq Bots /\ N \subseteq Bots /\ IsFiniteSet(Bots)
        BY TelemetryAssumption
    <2> QED BY <2>1, FS_Subset
<1>3. Cardinality(M) \in Nat /\ Cardinality(N) \in Nat
    BY <1>2, FS_CardinalityType
<1>4. ASSUME bot[b].at \in S <=> bot'[b].at \in S
      PROVE  M = N
    BY <1>4
<1>5. ASSUME bot[b].at \notin S, bot'[b].at \in S
      PROVE  Cardinality(N) = Cardinality(M) + 1
    <2>1. N = M \cup {b} /\ b \notin M
        BY <1>5
    <2> HIDE DEF M, N
    <2> QED BY <1>2, <2>1, FS_AddElement
<1>6. ASSUME bot[b].at \in S, bot'[b].at \notin S
      PROVE  Cardinality(N) = Cardinality(M) - 1
    <2>1. N = M \ {b} /\ b \in M
        BY <1>6
    <2> HIDE DEF M, N
    <2> QED BY <1>2, <2>1, FS_RemoveElement
<1> HIDE DEF M, N
<1> QED BY <1>1, <1>3, <1>4, <1>5, <1>6

LEMMA NoBotMoves ==
    ASSUME UNCHANGED bot, NEW S
    PROVE  In(S)' = In(S)
BY DEF In

LEMMA InIsNat ==
    ASSUME NEW S
    PROVE  In(S) \in Nat
<1>1. IsFiniteSet({b \in Bots : bot[b].at \in S})
    <2>1. IsFiniteSet(Bots) /\ {b \in Bots : bot[b].at \in S} \subseteq Bots
        BY TelemetryAssumption
    <2> QED BY <2>1, FS_Subset
<1> QED BY <1>1, FS_CardinalityType DEF In

(* What a step of a bot does: it moves one bot, and at most one counter or *)
(* buffer with it.                                                         *)
BotEffect(b, from, to, f) ==
    /\ bot[b].at = from /\ bot'[b].at = to
    /\ \A x \in Bots : x # b => bot'[x] = bot[x]
    /\ \A g \in Counter : count'[g] = IF g = f THEN count[g] + 1 ELSE count[g]
    /\ \A g \in Buffer : buf'[g] = IF g = f THEN buf[g] + 1 ELSE buf[g]

LEMMA BotEffects ==
    ASSUME TypeOK, VerdictsLeft, NEW b \in Bots, BotStep(b)
    PROVE  /\ TypeOK' /\ VerdictsLeft'
           /\ UNCHANGED <<flusher, agg, lost, faults>>
           /\ \/ BotEffect(b, "loop", "wait", "sent")
              \/ BotEffect(b, "wait", "recorded", "hist")
              \/ BotEffect(b, "recorded", "counted", "acked")
              \/ \E to \in {"loop", "check"} : BotEffect(b, "counted", to, "secAcks")
              \/ BotEffect(b, "check", "sample", "violations")
              \/ \E to \in {"loop", "check"} :
                    \/ BotEffect(b, "sample", to, "samples") /\ buf["samples"] < MaxSamples
                    \/ BotEffect(b, "sample", to, "none") /\ buf["samples"] >= MaxSamples
              \/ BotEffect(b, "wait", "failed", "errors")
              \/ BotEffect(b, "failed", "loop", "secErrs")
              \/ BotEffect(b, "loop", "done", "none")
<1>a. /\ bot \in [Bots -> [at : BotState, made : 0 .. MaxRequests, verdicts : 0 .. MaxVerdicts]]
      /\ count \in [Counter -> Nat] /\ buf \in [Buffer -> Nat]
      /\ MaxRequests \in Nat /\ MaxVerdicts \in Nat /\ MaxSamples \in Nat
    BY TelemetryAssumption DEF TypeOK
<1>b. bot[b] \in [at : BotState, made : 0 .. MaxRequests, verdicts : 0 .. MaxVerdicts]
    BY <1>a
<1>c. "none" \notin Counter /\ "none" \notin Buffer
    BY DEF Counter, Buffer
<1>d. ASSUME UNCHANGED <<flusher, agg, lost, faults>>, count' \in [Counter -> Nat],
             buf' \in [Buffer -> Nat],
             NEW c \in [at : BotState, made : 0 .. MaxRequests, verdicts : 0 .. MaxVerdicts],
             bot' = [bot EXCEPT ![b] = c],
             c.at \in {"check", "sample"} => c.verdicts > 0
      PROVE  /\ TypeOK' /\ VerdictsLeft' /\ bot'[b] = c
             /\ \A x \in Bots : x # b => bot'[x] = bot[x]
    <2>1. bot'[b] = c /\ \A x \in Bots : x # b => bot'[x] = bot[x]
        BY <1>a, <1>d
    <2>2. TypeOK'
        BY <1>a, <1>d DEF TypeOK
    <2>3. VerdictsLeft'
        BY <1>d, <2>1 DEF VerdictsLeft
    <2> QED BY <2>1, <2>2, <2>3
<1>e. ASSUME NEW f \in Counter, Add(f)
      PROVE  /\ count' \in [Counter -> Nat] /\ buf' \in [Buffer -> Nat]
             /\ \A g \in Counter : count'[g] = IF g = f THEN count[g] + 1 ELSE count[g]
             /\ \A g \in Buffer : buf'[g] = IF g = f THEN buf[g] + 1 ELSE buf[g]
    <2>1. f \notin Buffer
        BY FieldTypes
    <2> QED BY <1>a, <1>e, <2>1 DEF Add
<1>f. ASSUME NEW f \in Buffer, Tick(f)
      PROVE  /\ count' \in [Counter -> Nat] /\ buf' \in [Buffer -> Nat]
             /\ \A g \in Counter : count'[g] = IF g = f THEN count[g] + 1 ELSE count[g]
             /\ \A g \in Buffer : buf'[g] = IF g = f THEN buf[g] + 1 ELSE buf[g]
    <2>1. f \notin Counter
        BY FieldTypes
    <2> QED BY <1>a, <1>f, <2>1 DEF Tick
<1>g. ASSUME NEW from, NEW to \in BotState, At(b, from, to),
             to \notin {"check", "sample"} \/ (from = "check" /\ to = "sample"),
             count' \in [Counter -> Nat], buf' \in [Buffer -> Nat]
      PROVE  /\ TypeOK' /\ VerdictsLeft' /\ bot[b].at = from /\ bot'[b].at = to
             /\ \A x \in Bots : x # b => bot'[x] = bot[x]
             /\ UNCHANGED <<flusher, agg, lost, faults>>
    <2> DEFINE c == [bot[b] EXCEPT !.at = to]
    <2>1. /\ c \in [at : BotState, made : 0 .. MaxRequests, verdicts : 0 .. MaxVerdicts]
          /\ c.at = to /\ c.verdicts = bot[b].verdicts
        BY <1>b, <1>g
    <2>2. bot' = [bot EXCEPT ![b] = c] /\ bot[b].at = from /\ UNCHANGED <<flusher, agg, lost, faults>>
        BY <1>g DEF At
    <2>3. c.at \in {"check", "sample"} => c.verdicts > 0
        BY <1>g, <2>1, <2>2 DEF VerdictsLeft
    <2> HIDE DEF c
    <2> QED BY <1>d, <1>g, <2>1, <2>2, <2>3
<1>1. CASE SendRequest(b)
    <2> DEFINE c == [bot[b] EXCEPT !.at = "wait", !.made = @ + 1]
    <2>1. /\ c \in [at : BotState, made : 0 .. MaxRequests, verdicts : 0 .. MaxVerdicts]
          /\ c.at = "wait"
        BY <1>1, <1>a, <1>b DEF SendRequest, BotState
    <2>2. /\ bot' = [bot EXCEPT ![b] = c] /\ bot[b].at = "loop" /\ Add("sent")
          /\ UNCHANGED <<flusher, agg, lost, faults>>
        BY <1>1, <1>a DEF SendRequest
    <2> HIDE DEF c
    <2> QED BY <1>d, <1>e, <2>1, <2>2, FieldTypes DEF BotEffect
<1>2. CASE RecordLatency(b)
    BY <1>2, <1>f, <1>g, FieldTypes DEF RecordLatency, BotState, BotEffect
<1>3. CASE CountAck(b)
    BY <1>3, <1>e, <1>g, FieldTypes DEF CountAck, BotState, BotEffect
<1>4. CASE TickAck(b)
    <2>1. PICK v \in 0 .. MaxVerdicts :
              bot' = [bot EXCEPT ![b].at = IF v = 0 THEN "loop" ELSE "check", ![b].verdicts = v]
        BY <1>4 DEF TickAck
    <2> DEFINE c == [bot[b] EXCEPT !.at = IF v = 0 THEN "loop" ELSE "check", !.verdicts = v]
    <2>2. /\ c \in [at : BotState, made : 0 .. MaxRequests, verdicts : 0 .. MaxVerdicts]
          /\ c.at = (IF v = 0 THEN "loop" ELSE "check") /\ c.verdicts = v
        BY <1>b DEF BotState
    <2>3. /\ bot' = [bot EXCEPT ![b] = c] /\ bot[b].at = "counted" /\ Tick("secAcks")
          /\ UNCHANGED <<flusher, agg, lost, faults>>
        BY <1>4, <1>a, <2>1 DEF TickAck
    <2>4. c.at \in {"check", "sample"} => c.verdicts > 0
        BY <1>a, <2>2
    <2> HIDE DEF c
    <2> QED BY <1>d, <1>f, <2>2, <2>3, <2>4, FieldTypes DEF BotEffect
<1>5. CASE CountViolation(b)
    BY <1>5, <1>e, <1>g, FieldTypes DEF CountViolation, BotState, BotEffect
<1>6. CASE AddSample(b)
    <2>0. bot[b].at = "sample" /\ bot[b].verdicts \in 1 .. MaxVerdicts
        BY <1>6, <1>a, <1>b DEF AddSample, VerdictsLeft
    <2> DEFINE to == IF bot[b].verdicts = 1 THEN "loop" ELSE "check"
               c == [bot[b] EXCEPT !.verdicts = @ - 1, !.at = to]
    <2>1. /\ c \in [at : BotState, made : 0 .. MaxRequests, verdicts : 0 .. MaxVerdicts]
          /\ c.at = to /\ c.verdicts = bot[b].verdicts - 1
        <3>1. to \in BotState /\ bot[b].verdicts - 1 \in 0 .. MaxVerdicts
            BY <1>a, <2>0 DEF BotState
        <3> HIDE DEF to
        <3> QED BY <1>b, <3>1
    <2>2. /\ bot' = [bot EXCEPT ![b] = c] /\ bot[b].at = "sample"
          /\ UNCHANGED <<count, flusher, agg, lost, faults>>
          /\ buf' = IF buf["samples"] < MaxSamples THEN [buf EXCEPT !["samples"] = @ + 1] ELSE buf
        BY <1>6, <1>a DEF AddSample
    <2>3. c.at \in {"check", "sample"} => c.verdicts > 0
        BY <1>a, <2>0, <2>1
    <2>4. to \in {"loop", "check"}
        OBVIOUS
    <2>5. buf["samples"] \in Nat /\ "samples" \notin Counter
        BY <1>a, FieldTypes
    <2> HIDE DEF c, to
    <2>6. CASE buf["samples"] < MaxSamples
        <3>1. /\ count' \in [Counter -> Nat] /\ buf' \in [Buffer -> Nat]
              /\ \A g \in Counter : count'[g] = count[g]
              /\ \A g \in Buffer : buf'[g] = IF g = "samples" THEN buf[g] + 1 ELSE buf[g]
            BY <1>a, <2>2, <2>6, FieldTypes
        <3> QED BY <1>d, <2>1, <2>2, <2>3, <2>4, <2>5, <2>6, <3>1 DEF BotEffect
    <2>7. CASE buf["samples"] >= MaxSamples
        <3>1. buf' = buf /\ count' = count
            BY <1>a, <2>2, <2>5, <2>7
        <3> QED BY <1>a, <1>c, <1>d, <2>1, <2>2, <2>3, <2>4, <2>7, <3>1 DEF BotEffect
    <2> QED BY <1>a, <2>5, <2>6, <2>7
<1>7. CASE CountError(b)
    BY <1>7, <1>e, <1>g, FieldTypes DEF CountError, BotState, BotEffect
<1>8. CASE TickError(b)
    BY <1>8, <1>f, <1>g, FieldTypes DEF TickError, BotState, BotEffect
<1>9. CASE BotEnds(b)
    <2>1. At(b, "loop", "done") /\ count' = count /\ buf' = buf
        BY <1>9 DEF BotEnds
    <2> QED BY <1>a, <1>c, <1>g, <2>1 DEF BotState, BotEffect
<1> QED BY <1>1, <1>2, <1>3, <1>4, <1>5, <1>6, <1>7, <1>8, <1>9 DEF BotStep

(* The values the invariant talks about are numbers. *)
LEMMA Numbers ==
    ASSUME TypeOK
    PROVE  /\ \A f \in Counter : count[f] \in Nat /\ flusher.prev[f] \in Nat
           /\ \A f \in Buffer : buf[f] \in Nat
           /\ \A f \in Field : flusher.cur[f] \in Nat /\ agg[f] \in Nat /\ lost[f] \in Nat
           /\ faults.dup \in Nat /\ faults.lost \in Nat
           /\ flusher.at \in FlushState /\ flusher.final \in BOOLEAN
           /\ MaxSamples \in Nat \ {0}
BY TelemetryAssumption DEF TypeOK

LEMMA BotsKeepExact ==
    ASSUME Exact, NEW b \in Bots, BotStep(b)
    PROVE  Exact'
<1>a. /\ TypeOK' /\ VerdictsLeft' /\ UNCHANGED <<flusher, agg, lost, faults>>
      /\ \/ BotEffect(b, "loop", "wait", "sent")
         \/ BotEffect(b, "wait", "recorded", "hist")
         \/ BotEffect(b, "recorded", "counted", "acked")
         \/ \E to \in {"loop", "check"} : BotEffect(b, "counted", to, "secAcks")
         \/ BotEffect(b, "check", "sample", "violations")
         \/ \E to \in {"loop", "check"} :
               \/ BotEffect(b, "sample", to, "samples") /\ buf["samples"] < MaxSamples
               \/ BotEffect(b, "sample", to, "none") /\ buf["samples"] >= MaxSamples
         \/ BotEffect(b, "wait", "failed", "errors")
         \/ BotEffect(b, "failed", "loop", "secErrs")
         \/ BotEffect(b, "loop", "done", "none")
    BY BotEffects DEF Exact
<1>b. /\ \A f \in Counter : count[f] \in Nat /\ flusher.prev[f] \in Nat
      /\ \A f \in Buffer : buf[f] \in Nat
      /\ \A f \in Field : flusher.cur[f] \in Nat /\ agg[f] \in Nat /\ lost[f] \in Nat
      /\ MaxSamples \in Nat \ {0}
    BY Numbers DEF Exact
<1>c. \A x \in Bots : x # b => bot'[x] = bot[x]
    BY <1>a DEF BotEffect
<1>d. /\ \A f \in Counter : count'[f] \in {count[f], count[f] + 1}
      /\ \A f \in Buffer : buf'[f] \in {buf[f], buf[f] + 1}
    BY <1>a DEF BotEffect
<1>e. /\ \A f \in Counter : count[f] <= count'[f]
      /\ \A f \in Buffer : buf[f] <= buf'[f]
    BY <1>b, <1>d
<1>f. ~flusher.final
    <2>1. bot[b].at # "done"
        BY <1>a DEF BotEffect
    <2> QED BY <2>1 DEF Exact, LastFlush, AllDone
<1>g. Read' = Read /\ Read \subseteq Counter
    BY <1>a DEF Read
<1>h. \A f \in Field : Total(f) \in Nat
    BY <1>b DEF Total
<1>i. /\ Total("secAcks")' = Total("secAcks") /\ Total("acked")' = Total("acked")
      /\ Total("secErrs")' = Total("secErrs") /\ Total("errors")' = Total("errors")
      /\ Total("hist")' = Total("hist")
      /\ \A f \in Field : Total(f)' = Total(f)
    BY <1>a DEF Total
<1>1. ReadsGrow'
    <2>1. \A f \in Counter : flusher.prev[f] <= count'[f]
        BY <1>b, <1>d, <1>e DEF Exact, ReadsGrow
    <2>2. \A f \in Read : flusher.prev[f] <= flusher.cur[f] /\ flusher.cur[f] <= count'[f]
        <3> SUFFICES ASSUME NEW f \in Read
                     PROVE  flusher.prev[f] <= flusher.cur[f] /\ flusher.cur[f] <= count'[f]
            OBVIOUS
        <3>1. f \in Counter /\ f \in Field
            BY <1>g, FieldTypes
        <3> QED BY <1>b, <1>d, <1>e, <3>1 DEF Exact, ReadsGrow
    <2> QED BY <1>a, <1>g, <2>1, <2>2 DEF ReadsGrow
<1>2. OneWay'
    BY <1>a, <1>g, <1>i DEF Exact, OneWay
<1>3. LastFlush'
    BY <1>a, <1>f DEF Exact, LastFlush
<1>4. Balance'
    <2> DEFINE W == {"wait", "recorded"}
               R == {"recorded"}
               C == {"counted"}
               F == {"failed"}
    <2>a. /\ In(W) \in Nat /\ In(R) \in Nat /\ In(C) \in Nat /\ In(F) \in Nat
        BY InIsNat
    <2>b. /\ count["sent"] \in Nat /\ count["acked"] \in Nat /\ count["errors"] \in Nat
          /\ Held("hist") \in Nat /\ Held("secAcks") \in Nat /\ Held("secErrs") \in Nat
          /\ count["sent"] = count["acked"] + count["errors"] + In(W)
          /\ faults.dup = 0 => /\ Held("hist") = count["acked"] + In(R)
                               /\ Held("secAcks") + In(C) = count["acked"]
                               /\ Held("secErrs") + In(F) = count["errors"]
        <3>1. \A f \in Buffer : f \in Field
            BY FieldTypes
        <3> QED BY <1>b, <1>h, <3>1, FieldTypes DEF Exact, Balance, Held
    <2>c. ASSUME NEW S
          PROVE  /\ (bot[b].at \in S <=> bot'[b].at \in S) => In(S)' = In(S)
                 /\ bot[b].at \notin S /\ bot'[b].at \in S => In(S)' = In(S) + 1
                 /\ bot[b].at \in S /\ bot'[b].at \notin S => In(S)' = In(S) - 1
        BY <1>c, OneBotMoves DEF Exact
    <2>d. ASSUME NEW f \in Buffer
          PROVE  /\ buf'[f] = buf[f] => Held(f)' = Held(f)
                 /\ buf'[f] = buf[f] + 1 => Held(f)' = Held(f) + 1
        <3>1. f \in Field /\ Held(f)' = buf'[f] + flusher.cur[f] + Total(f)
            BY <1>a, <1>i, FieldTypes DEF Held
        <3> QED BY <1>b, <1>h, <3>1 DEF Held
    <2>e. /\ buf'["hist"] = buf["hist"] => Held("hist")' = Held("hist")
          /\ buf'["hist"] = buf["hist"] + 1 => Held("hist")' = Held("hist") + 1
          /\ buf'["secAcks"] = buf["secAcks"] => Held("secAcks")' = Held("secAcks")
          /\ buf'["secAcks"] = buf["secAcks"] + 1 => Held("secAcks")' = Held("secAcks") + 1
          /\ buf'["secErrs"] = buf["secErrs"] => Held("secErrs")' = Held("secErrs")
          /\ buf'["secErrs"] = buf["secErrs"] + 1 => Held("secErrs")' = Held("secErrs") + 1
        BY <2>d, FieldTypes
    <2>f. /\ (bot[b].at \in W <=> bot'[b].at \in W) => In(W)' = In(W)
          /\ bot[b].at \notin W /\ bot'[b].at \in W => In(W)' = In(W) + 1
          /\ bot[b].at \in W /\ bot'[b].at \notin W => In(W)' = In(W) - 1
        BY <2>c
    <2>g. /\ (bot[b].at \in R <=> bot'[b].at \in R) => In(R)' = In(R)
          /\ bot[b].at \notin R /\ bot'[b].at \in R => In(R)' = In(R) + 1
          /\ bot[b].at \in R /\ bot'[b].at \notin R => In(R)' = In(R) - 1
        BY <2>c
    <2>h. /\ (bot[b].at \in C <=> bot'[b].at \in C) => In(C)' = In(C)
          /\ bot[b].at \notin C /\ bot'[b].at \in C => In(C)' = In(C) + 1
          /\ bot[b].at \in C /\ bot'[b].at \notin C => In(C)' = In(C) - 1
        BY <2>c
    <2>i. /\ (bot[b].at \in F <=> bot'[b].at \in F) => In(F)' = In(F)
          /\ bot[b].at \notin F /\ bot'[b].at \in F => In(F)' = In(F) + 1
          /\ bot[b].at \in F /\ bot'[b].at \notin F => In(F)' = In(F) - 1
        BY <2>c
    <2>j. ASSUME /\ count'["sent"] = count'["acked"] + count'["errors"] + In(W)'
                 /\ faults.dup = 0 => /\ Held("hist")' = count'["acked"] + In(R)'
                                      /\ Held("secAcks")' + In(C)' = count'["acked"]
                                      /\ Held("secErrs")' + In(F)' = count'["errors"]
          PROVE  Balance'
        BY <1>a, <1>i, <2>j, FieldTypes DEF Exact, Balance
    <2>1. ASSUME NEW from, NEW to, NEW f, BotEffect(b, from, to, f)
          PROVE  /\ bot[b].at = from /\ bot'[b].at = to
                 /\ count'["sent"] = IF f = "sent" THEN count["sent"] + 1 ELSE count["sent"]
                 /\ count'["acked"] = IF f = "acked" THEN count["acked"] + 1 ELSE count["acked"]
                 /\ count'["errors"] = IF f = "errors" THEN count["errors"] + 1 ELSE count["errors"]
                 /\ buf'["hist"] = IF f = "hist" THEN buf["hist"] + 1 ELSE buf["hist"]
                 /\ buf'["secAcks"] = IF f = "secAcks" THEN buf["secAcks"] + 1 ELSE buf["secAcks"]
                 /\ buf'["secErrs"] = IF f = "secErrs" THEN buf["secErrs"] + 1 ELSE buf["secErrs"]
        BY <2>1, FieldTypes DEF BotEffect
    <2>2. CASE BotEffect(b, "loop", "wait", "sent")
        BY <2>1, <2>2, <2>a, <2>b, <2>e, <2>f, <2>g, <2>h, <2>i, <2>j
    <2>3. CASE BotEffect(b, "wait", "recorded", "hist")
        BY <2>1, <2>3, <2>a, <2>b, <2>e, <2>f, <2>g, <2>h, <2>i, <2>j
    <2>4. CASE BotEffect(b, "recorded", "counted", "acked")
        BY <2>1, <2>4, <2>a, <2>b, <2>e, <2>f, <2>g, <2>h, <2>i, <2>j
    <2>5. CASE \E to \in {"loop", "check"} : BotEffect(b, "counted", to, "secAcks")
        <3>1. /\ UNCHANGED <<count["sent"], count["acked"], count["errors"]>>
              /\ In(W)' = In(W) /\ In(R)' = In(R)
              /\ In(C)' = In(C) - 1 /\ In(F)' = In(F)
              /\ Held("hist")' = Held("hist")
              /\ Held("secAcks")' = Held("secAcks") + 1
              /\ Held("secErrs")' = Held("secErrs")
            BY <2>1, <2>5, <2>e, <2>f, <2>g, <2>h, <2>i
        <3>2. (Held("secAcks") + 1) + (In(C) - 1) = Held("secAcks") + In(C)
            BY <2>a, <2>b
        <3> HIDE DEF W, R, C, F
        <3> QED BY <2>a, <2>b, <2>j, <3>1, <3>2
    <2>6. CASE BotEffect(b, "check", "sample", "violations")
        BY <2>1, <2>6, <2>a, <2>b, <2>e, <2>f, <2>g, <2>h, <2>i, <2>j
    <2>7. CASE \E to \in {"loop", "check"}, f \in {"samples", "none"} :
                  BotEffect(b, "sample", to, f)
        BY <2>1, <2>7, <2>a, <2>b, <2>e, <2>f, <2>g, <2>h, <2>i, <2>j
    <2>8. CASE BotEffect(b, "wait", "failed", "errors")
        BY <2>1, <2>8, <2>a, <2>b, <2>e, <2>f, <2>g, <2>h, <2>i, <2>j
    <2>9. CASE BotEffect(b, "failed", "loop", "secErrs")
        <3>1. /\ UNCHANGED <<count["sent"], count["acked"], count["errors"]>>
              /\ In(W)' = In(W) /\ In(R)' = In(R)
              /\ In(C)' = In(C) /\ In(F)' = In(F) - 1
              /\ Held("hist")' = Held("hist")
              /\ Held("secAcks")' = Held("secAcks")
              /\ Held("secErrs")' = Held("secErrs") + 1
            BY <2>1, <2>9, <2>e, <2>f, <2>g, <2>h, <2>i
        <3> QED BY <2>a, <2>b, <2>j, <3>1
    <2>10. CASE BotEffect(b, "loop", "done", "none")
        BY <2>1, <2>10, <2>a, <2>b, <2>e, <2>f, <2>g, <2>h, <2>i, <2>j
    <2> QED BY <1>a, <2>2, <2>3, <2>4, <2>5, <2>6, <2>7, <2>8, <2>9, <2>10
<1>5. Samples'
    <2>a. /\ "samples" \in Buffer /\ "samples" \in Field /\ "violations" \in Counter
          /\ count["violations"] \in Nat /\ buf["samples"] \in Nat
        BY <1>b, FieldTypes
    <2>1. buf'["samples"] <= MaxSamples
        <3>1. buf'["samples"] = buf["samples"] \/ buf["samples"] < MaxSamples
            BY <1>a, <2>a DEF BotEffect
        <3>2. buf["samples"] <= MaxSamples /\ buf'["samples"] \in {buf["samples"], buf["samples"] + 1}
            BY <1>d, <2>a DEF Exact, Samples
        <3> QED BY <1>b, <2>a, <3>1, <3>2
    <2>2. count'["violations"] = 0 => agg["violations"] = 0
        <3>1. count'["violations"] = 0 => count["violations"] = 0
            BY <1>d, <2>a
        <3> QED BY <3>1 DEF Exact, Samples
    <2>3. count'["violations"] > 0 =>
             \/ \E x \in Bots : bot'[x].at = "sample"
             \/ buf'["samples"] > 0 \/ flusher.cur["samples"] > 0
             \/ agg["samples"] > 0 \/ lost["samples"] > 0
        <3>1. CASE BotEffect(b, "check", "sample", "violations")
            BY <3>1 DEF BotEffect
        <3>2. CASE bot[b].at = "sample"
            <4>1. \/ buf'["samples"] = buf["samples"] + 1
                  \/ buf'["samples"] = buf["samples"] /\ buf["samples"] >= MaxSamples
                BY <1>a, <2>a, <3>2 DEF BotEffect
            <4> QED BY <1>b, <2>a, <4>1
        <3>3. CASE bot[b].at # "sample" /\ ~BotEffect(b, "check", "sample", "violations")
            <4>1. count'["violations"] = count["violations"] /\ buf'["samples"] = buf["samples"]
                BY <1>a, <2>a, <3>3 DEF BotEffect
            <4> QED BY <1>c, <3>3, <4>1 DEF Exact, Samples
        <3> QED BY <3>1, <3>2, <3>3
    <2> QED BY <1>a, <2>1, <2>2, <2>3 DEF Exact, Samples
<1>6. FlushesLeft'
    BY <1>a DEF Exact, FlushesLeft
<1> QED BY <1>a, <1>1, <1>2, <1>3, <1>4, <1>5, <1>6 DEF Exact

-----------------------------------------------------------------------------
LEMMA SwapKeepsExact ==
    ASSUME Exact, NEW final \in BOOLEAN, Swap(final), final => AllDone,
           ~final => flusher.flushes < MaxFlush
    PROVE  Exact'
<1>a. /\ flusher.at = "select" /\ UNCHANGED <<bot, count, agg, lost, faults>>
      /\ flusher'.at = "sent" /\ flusher'.final = final /\ flusher'.flushes = flusher.flushes
      /\ flusher'.prev = flusher.prev
      /\ \A f \in Field : flusher'.cur[f] =
             IF f \in {"secAcks", "secErrs", "samples"} THEN buf[f] ELSE 0
      /\ \A f \in Buffer : buf'[f] = IF f = "hist" THEN buf[f] ELSE 0
    BY DEF Exact, TypeOK, Swap
<1>b. /\ \A f \in Counter : count[f] \in Nat /\ flusher.prev[f] \in Nat
      /\ \A f \in Buffer : buf[f] \in Nat
      /\ \A f \in Field : flusher.cur[f] \in Nat /\ agg[f] \in Nat /\ lost[f] \in Nat
      /\ MaxSamples \in Nat \ {0}
    BY Numbers DEF Exact
<1>c. TypeOK'
    <2>1. \A f \in {"secAcks", "secErrs", "samples"} : buf[f] \in Nat
        BY <1>b, FieldTypes
    <2>2. [f \in Field |-> IF f \in {"secAcks", "secErrs", "samples"} THEN buf[f] ELSE 0]
              \in [Field -> Nat]
        BY <2>1
    <2>3. [f \in Buffer |-> IF f = "hist" THEN buf[f] ELSE 0] \in [Buffer -> Nat]
        BY <1>b
    <2> QED BY <2>2, <2>3 DEF Exact, TypeOK, Swap, FlushState
<1>d. Read' = {}
    BY <1>a DEF Read
<1>e. \A f \in Field : Total(f)' = Total(f)
    BY <1>a DEF Total
<1>f. /\ Total("secAcks")' = Total("secAcks") /\ Total("acked")' = Total("acked")
      /\ Total("secErrs")' = Total("secErrs") /\ Total("errors")' = Total("errors")
      /\ Total("hist")' = Total("hist")
    BY <1>a DEF Total
<1>1. VerdictsLeft' /\ FlushesLeft'
    BY <1>a DEF Exact, VerdictsLeft, FlushesLeft
<1>2. ReadsGrow'
    BY <1>a, <1>d DEF Exact, ReadsGrow
<1>3. Balance'
    <2>1. \A f \in Buffer : buf'[f] + flusher'.cur[f] = buf[f] + flusher.cur[f]
        <3> SUFFICES ASSUME NEW f \in Buffer
                     PROVE  buf'[f] + flusher'.cur[f] = buf[f] + flusher.cur[f]
            OBVIOUS
        <3>1. flusher.cur[f] = 0 /\ f \in Field /\ buf[f] \in Nat
            BY <1>a, <1>b, FieldTypes DEF Exact, Balance
        <3>2. f \in {"secAcks", "secErrs", "samples"} \/ f = "hist"
            BY DEF Buffer
        <3> QED BY <1>a, <3>1, <3>2
    <2>2. /\ Held("hist")' = Held("hist") /\ Held("secAcks")' = Held("secAcks")
          /\ Held("secErrs")' = Held("secErrs")
        BY <1>f, <2>1, FieldTypes DEF Held
    <2>3. flusher'.cur["hist"] = 0
        BY <1>a, FieldTypes
    <2>4. /\ In({"wait", "recorded"})' = In({"wait", "recorded"})
          /\ In({"recorded"})' = In({"recorded"}) /\ In({"counted"})' = In({"counted"})
          /\ In({"failed"})' = In({"failed"})
        BY <1>a DEF In
    <2> QED BY <1>a, <1>e, <2>2, <2>3, <2>4, FieldTypes DEF Exact, Balance
<1>4. OneWay'
    BY <1>a, <1>d, <1>f DEF Exact, OneWay
<1>5. LastFlush'
    <2>1. \A f \in Buffer \ {"hist"} : buf'[f] = 0
        BY <1>a
    <2> QED BY <1>a, <1>d, <2>1 DEF LastFlush, AllDone
<1>6. Samples'
    <2>1. buf'["samples"] = 0 /\ flusher'.cur["samples"] = buf["samples"]
        BY <1>a, FieldTypes
    <2>2. flusher.cur["samples"] = 0
        BY <1>a, FieldTypes DEF Exact, Balance
    <2> QED BY <1>a, <1>b, <2>1, <2>2 DEF Exact, Samples
<1> QED BY <1>c, <1>1, <1>2, <1>3, <1>4, <1>5, <1>6 DEF Exact

LEMMA LoadKeepsExact ==
    ASSUME Exact, NEW c \in Counter, NEW next,
           \/ c = "sent" /\ next = "acked"
           \/ c = "acked" /\ next = "errors"
           \/ c = "errors" /\ next = "violations"
           \/ c = "violations" /\ next = "hist",
           Load(c, next)
    PROVE  Exact'
<1>a. /\ flusher.at = c /\ UNCHANGED <<bot, count, buf, agg, lost, faults>>
      /\ flusher'.at = next /\ flusher'.final = flusher.final
      /\ flusher'.flushes = flusher.flushes /\ flusher'.prev = flusher.prev
      /\ \A f \in Field : flusher'.cur[f] = IF f = c THEN count[c] ELSE flusher.cur[f]
    BY DEF Exact, TypeOK, Load
<1>b. /\ \A f \in Counter : count[f] \in Nat /\ flusher.prev[f] \in Nat
      /\ \A f \in Buffer : buf[f] \in Nat
      /\ \A f \in Field : flusher.cur[f] \in Nat /\ agg[f] \in Nat /\ lost[f] \in Nat
      /\ MaxSamples \in Nat \ {0}
    BY Numbers DEF Exact
<1>c. TypeOK'
    <2>1. c \in Field /\ count[c] \in Nat /\ next \in FlushState
        BY <1>b, FieldTypes DEF FlushState
    <2> QED BY <2>1 DEF Exact, TypeOK, Load
<1>d. Read' = Read \cup {c} /\ c \notin Read /\ Read \subseteq Counter
    BY <1>a DEF Read, Counter
<1>e. \A f \in Field : Total(f)' = Total(f) /\ Total(f) \in Nat
    BY <1>a, <1>b DEF Total
<1>f. /\ Total("secAcks")' = Total("secAcks") /\ Total("acked")' = Total("acked")
      /\ Total("secErrs")' = Total("secErrs") /\ Total("errors")' = Total("errors")
      /\ Total("hist")' = Total("hist")
    BY <1>a DEF Total
<1>g. \A f \in Buffer : flusher'.cur[f] = flusher.cur[f]
    BY <1>a, FieldTypes
<1>1. VerdictsLeft' /\ FlushesLeft'
    BY <1>a DEF Exact, VerdictsLeft, FlushesLeft
<1>2. ReadsGrow'
    <2>1. \A f \in Read \cup {c} :
             flusher.prev[f] <= flusher'.cur[f] /\ flusher'.cur[f] <= count[f]
        <3> SUFFICES ASSUME NEW f \in Read \cup {c}
                     PROVE  flusher.prev[f] <= flusher'.cur[f] /\ flusher'.cur[f] <= count[f]
            OBVIOUS
        <3>1. f \in Counter /\ f \in Field
            BY <1>d, FieldTypes
        <3>2. CASE f = c
            BY <1>a, <1>b, <3>1, <3>2 DEF Exact, ReadsGrow
        <3>3. CASE f # c
            BY <1>a, <3>1, <3>3 DEF Exact, ReadsGrow
        <3> QED BY <3>2, <3>3
    <2> QED BY <1>a, <1>d, <2>1 DEF Exact, ReadsGrow
<1>3. Balance'
    <2>1. /\ Held("hist")' = Held("hist") /\ Held("secAcks")' = Held("secAcks")
          /\ Held("secErrs")' = Held("secErrs") /\ flusher'.cur["hist"] = flusher.cur["hist"]
        BY <1>a, <1>f, <1>g, FieldTypes DEF Held
    <2>2. /\ In({"wait", "recorded"})' = In({"wait", "recorded"})
          /\ In({"recorded"})' = In({"recorded"}) /\ In({"counted"})' = In({"counted"})
          /\ In({"failed"})' = In({"failed"})
        BY <1>a DEF In
    <2> QED BY <1>a, <1>e, <2>1, <2>2, FieldTypes DEF Exact, Balance
<1>4. OneWay'
    <2> SUFFICES ASSUME faults.dup = 0
                 PROVE  /\ "acked" \in Read \cup {c} =>
                              Total("secAcks") + flusher'.cur["secAcks"] <= flusher'.cur["acked"]
                        /\ "errors" \in Read \cup {c} =>
                              Total("secErrs") + flusher'.cur["secErrs"] <= flusher'.cur["errors"]
        BY <1>a, <1>d, <1>f DEF Exact, OneWay
    <2>1. /\ flusher'.cur["secAcks"] = flusher.cur["secAcks"]
          /\ flusher'.cur["secErrs"] = flusher.cur["secErrs"]
          /\ "acked" \in Field /\ "errors" \in Field
        BY <1>g, FieldTypes
    <2>2. /\ In({"counted"}) \in Nat /\ In({"failed"}) \in Nat
          /\ Total("secAcks") \in Nat /\ Total("secErrs") \in Nat
          /\ buf["secAcks"] \in Nat /\ buf["secErrs"] \in Nat
          /\ flusher.cur["secAcks"] \in Nat /\ flusher.cur["secErrs"] \in Nat
          /\ count["acked"] \in Nat /\ count["errors"] \in Nat
        BY <1>b, <1>e, InIsNat, FieldTypes
    <2>3. /\ Total("secAcks") + flusher.cur["secAcks"] <= count["acked"]
          /\ Total("secErrs") + flusher.cur["secErrs"] <= count["errors"]
        <3>1. /\ (buf["secAcks"] + flusher.cur["secAcks"] + Total("secAcks")) + In({"counted"})
                     = count["acked"]
              /\ (buf["secErrs"] + flusher.cur["secErrs"] + Total("secErrs")) + In({"failed"})
                     = count["errors"]
            BY DEF Exact, Balance, Held
        <3> QED BY <2>2, <3>1
    <2>4. /\ c = "acked" => flusher'.cur["acked"] = count["acked"]
          /\ c # "acked" => flusher'.cur["acked"] = flusher.cur["acked"]
          /\ c = "errors" => flusher'.cur["errors"] = count["errors"]
          /\ c # "errors" => flusher'.cur["errors"] = flusher.cur["errors"]
        BY <1>a, <2>1
    <2> QED BY <2>1, <2>3, <2>4 DEF Exact, OneWay
<1>5. LastFlush'
    <2>1. flusher.final => \A f \in Read \cup {c} : flusher'.cur[f] = count[f]
        <3> SUFFICES ASSUME flusher.final, NEW f \in Read \cup {c}
                     PROVE  flusher'.cur[f] = count[f]
            OBVIOUS
        <3>1. f \in Field
            BY <1>d, FieldTypes
        <3> QED BY <1>a, <3>1 DEF Exact, LastFlush
    <2> QED BY <1>a, <1>d, <2>1 DEF Exact, LastFlush, AllDone
<1>6. Samples'
    <2>1. flusher'.cur["samples"] = flusher.cur["samples"]
        BY <1>g, FieldTypes
    <2> QED BY <1>a, <2>1 DEF Exact, Samples
<1> QED BY <1>c, <1>1, <1>2, <1>3, <1>4, <1>5, <1>6 DEF Exact

LEMMA TakeDeltaKeepsExact ==
    ASSUME Exact, TakeDelta
    PROVE  Exact'
<1>a. /\ flusher.at = "hist" /\ UNCHANGED <<bot, count, agg, lost, faults>>
      /\ flusher'.at = "ship" /\ flusher'.final = flusher.final
      /\ flusher'.flushes = flusher.flushes /\ flusher'.prev = flusher.prev
      /\ \A f \in Field : flusher'.cur[f] = IF f = "hist" THEN buf["hist"] ELSE flusher.cur[f]
      /\ \A f \in Buffer : buf'[f] = IF f = "hist" THEN 0 ELSE buf[f]
    BY DEF Exact, TypeOK, TakeDelta
<1>b. /\ \A f \in Counter : count[f] \in Nat /\ flusher.prev[f] \in Nat
      /\ \A f \in Buffer : buf[f] \in Nat
      /\ \A f \in Field : flusher.cur[f] \in Nat /\ agg[f] \in Nat /\ lost[f] \in Nat
      /\ MaxSamples \in Nat \ {0}
    BY Numbers DEF Exact
<1>c. TypeOK'
    <2>1. "hist" \in Field /\ buf["hist"] \in Nat
        BY <1>b, FieldTypes
    <2> QED BY <2>1 DEF Exact, TypeOK, TakeDelta, FlushState
<1>d. Read' = Read /\ Read \subseteq Counter
    BY <1>a DEF Read, Counter
<1>e. \A f \in Field : Total(f)' = Total(f) /\ Total(f) \in Nat
    BY <1>a, <1>b DEF Total
<1>f. /\ Total("secAcks")' = Total("secAcks") /\ Total("acked")' = Total("acked")
      /\ Total("secErrs")' = Total("secErrs") /\ Total("errors")' = Total("errors")
      /\ Total("hist")' = Total("hist")
    BY <1>a DEF Total
<1>g. \A f \in Field : f # "hist" => flusher'.cur[f] = flusher.cur[f]
    BY <1>a
<1>h. /\ \A f \in Read : flusher'.cur[f] = flusher.cur[f]
      /\ flusher'.cur["hist"] = buf["hist"] /\ buf'["hist"] = 0 /\ flusher.cur["hist"] = 0
    <2>1. \A f \in Read : f \in Field /\ f # "hist"
        BY <1>d, FieldTypes
    <2> QED BY <1>a, <1>g, <2>1, FieldTypes DEF Exact, Balance
<1>1. VerdictsLeft' /\ FlushesLeft'
    BY <1>a DEF Exact, VerdictsLeft, FlushesLeft
<1>2. ReadsGrow'
    BY <1>a, <1>d, <1>h DEF Exact, ReadsGrow
<1>3. Balance'
    <2>1. /\ Held("secAcks")' = Held("secAcks") /\ Held("secErrs")' = Held("secErrs")
        BY <1>a, <1>f, <1>g, FieldTypes DEF Held
    <2>2. Held("hist")' = Held("hist")
        <3>1. buf["hist"] \in Nat /\ Total("hist") \in Nat
            BY <1>b, <1>e, FieldTypes
        <3> QED BY <1>f, <1>h, <3>1 DEF Held
    <2>3. /\ In({"wait", "recorded"})' = In({"wait", "recorded"})
          /\ In({"recorded"})' = In({"recorded"}) /\ In({"counted"})' = In({"counted"})
          /\ In({"failed"})' = In({"failed"})
        BY <1>a DEF In
    <2> QED BY <1>a, <1>e, <2>1, <2>2, <2>3, FieldTypes DEF Exact, Balance
<1>4. OneWay'
    <2> SUFFICES ASSUME faults.dup = 0
                 PROVE  flusher'.cur["acked"] <= Total("hist") + flusher'.cur["hist"]
        BY <1>a, <1>d, <1>f, <1>g, FieldTypes DEF Exact, OneWay
    <2>1. "acked" \in Read
        BY <1>a DEF Read, Counter
    <2>2. /\ flusher.cur["acked"] <= count["acked"] /\ flusher'.cur["acked"] = flusher.cur["acked"]
          /\ flusher.cur["acked"] \in Nat
        BY <1>b, <1>h, <2>1, FieldTypes DEF Exact, ReadsGrow
    <2>3. /\ In({"recorded"}) \in Nat /\ buf["hist"] \in Nat /\ count["acked"] \in Nat
          /\ Total("hist") \in Nat
        BY <1>b, <1>e, InIsNat, FieldTypes
    <2>4. buf["hist"] + 0 + Total("hist") = count["acked"] + In({"recorded"})
        BY <1>h DEF Exact, Balance, Held
    <2> QED BY <1>h, <2>2, <2>3, <2>4
<1>5. LastFlush'
    <2>1. \A f \in Buffer \ {"hist"} : buf'[f] = buf[f]
        BY <1>a
    <2> QED BY <1>a, <1>d, <1>h, <2>1 DEF Exact, LastFlush, AllDone
<1>6. Samples'
    <2>1. flusher'.cur["samples"] = flusher.cur["samples"] /\ buf'["samples"] = buf["samples"]
        BY <1>a, FieldTypes
    <2> QED BY <1>a, <2>1 DEF Exact, Samples
<1> QED BY <1>c, <1>1, <1>2, <1>3, <1>4, <1>5, <1>6 DEF Exact

(* A batch that was put together is no smaller than nothing. *)
LEMMA BatchIsNat ==
    ASSUME Exact, flusher.at = "ship"
    PROVE  /\ Batch \in [Field -> Nat]
           /\ \A f \in Counter : Batch[f] = flusher.cur[f] - flusher.prev[f]
           /\ \A f \in Buffer : Batch[f] = flusher.cur[f]
<1>1. \A f \in Counter : f \in Read /\ flusher.prev[f] <= flusher.cur[f]
    BY DEF Exact, ReadsGrow, Read, Counter
<1>2. /\ \A f \in Counter : flusher.prev[f] \in Nat /\ flusher.cur[f] \in Nat
      /\ \A f \in Field : flusher.cur[f] \in Nat
    BY Numbers, FieldTypes DEF Exact
<1>3. \A f \in Counter : flusher.cur[f] - flusher.prev[f] \in Nat
    BY <1>1, <1>2
<1> QED BY <1>2, <1>3, FieldTypes DEF Batch

(* What all three ways to ship have in common. *)
LEMMA ShippedKeeps ==
    ASSUME Exact, flusher.at = "ship", Shipped, UNCHANGED <<bot, count, buf>>,
           agg' \in [Field -> Nat], lost' \in [Field -> Nat],
           faults' \in [lost : 0 .. MaxLost, dup : 0 .. MaxDup],
           \/ faults'.dup > 0
           \/ /\ faults'.dup = faults.dup
              /\ \A f \in Field \ {"samples"} : agg'[f] + lost'[f] = (agg[f] + lost[f]) + Batch[f]
    PROVE  /\ TypeOK' /\ VerdictsLeft' /\ FlushesLeft' /\ ReadsGrow' /\ Balance' /\ OneWay'
           /\ LastFlush'
           /\ flusher'.cur["samples"] = 0
<1>a. /\ flusher'.at = (IF flusher.final THEN "done" ELSE "select")
      /\ flusher'.final = flusher.final
      /\ \A f \in Field : flusher'.cur[f] = 0
      /\ \A f \in Counter : flusher'.prev[f] = flusher.cur[f]
    BY DEF Exact, TypeOK, Shipped, Zero
<1>b. /\ \A f \in Counter : count[f] \in Nat /\ flusher.prev[f] \in Nat
      /\ \A f \in Buffer : buf[f] \in Nat
      /\ \A f \in Field : flusher.cur[f] \in Nat /\ agg[f] \in Nat /\ lost[f] \in Nat
      /\ faults.dup \in Nat
    BY Numbers DEF Exact
<1>c. /\ Batch \in [Field -> Nat]
      /\ \A f \in Counter : Batch[f] = flusher.cur[f] - flusher.prev[f]
      /\ \A f \in Buffer : Batch[f] = flusher.cur[f]
    BY BatchIsNat
<1>d. \A f \in Counter : f \in Read /\ flusher.cur[f] <= count[f]
    BY DEF Exact, ReadsGrow, Read, Counter
<1>e. Read' = {}
    BY <1>a DEF Read
<1>f. \A f \in Field : Total(f) \in Nat
    BY <1>b DEF Total
<1>g. ASSUME faults'.dup = 0
      PROVE  /\ faults.dup = 0
             /\ \A f \in Field \ {"samples"} : agg'[f] + lost'[f] = Total(f) + Batch[f]
    BY <1>g DEF Total
<1>h. ASSUME faults'.dup = 0
      PROVE  /\ \A f \in Counter : agg'[f] + lost'[f] = flusher.cur[f]
             /\ \A f \in Buffer \ {"samples"} : agg'[f] + lost'[f] = Total(f) + flusher.cur[f]
    <2>1. \A f \in Counter : f \in Field \ {"samples"} /\ Total(f) = flusher.prev[f]
        BY <1>g, <1>h, FieldTypes DEF Exact, Balance
    <2>2. \A f \in Counter : flusher.prev[f] + (flusher.cur[f] - flusher.prev[f]) = flusher.cur[f]
        BY <1>b, FieldTypes
    <2> QED BY <1>c, <1>g, <1>h, <2>1, <2>2, FieldTypes
<1>1. TypeOK'
    <2>1. flusher.flushes \in 0 .. MaxFlush /\ (~flusher.final => flusher.flushes + 1 \in 0 .. MaxFlush)
        BY TelemetryAssumption DEF Exact, TypeOK, FlushesLeft
    <2>2. Zero \in [Field -> Nat] /\ [f \in Counter |-> flusher.cur[f]] \in [Counter -> Nat]
        BY <1>b, FieldTypes DEF Zero
    <2>3. flusher' \in [at : FlushState, final : BOOLEAN, flushes : 0 .. MaxFlush,
                        cur : [Field -> Nat], prev : [Counter -> Nat]]
        BY <2>1, <2>2 DEF Exact, TypeOK, Shipped, FlushState
    <2> QED BY <2>3 DEF Exact, TypeOK
<1>2. VerdictsLeft' /\ FlushesLeft'
    BY <1>a DEF Exact, VerdictsLeft, FlushesLeft
<1>3. ReadsGrow'
    BY <1>a, <1>d, <1>e DEF ReadsGrow
<1>4. Balance'
    <2>1. /\ In({"wait", "recorded"})' = In({"wait", "recorded"})
          /\ In({"recorded"})' = In({"recorded"}) /\ In({"counted"})' = In({"counted"})
          /\ In({"failed"})' = In({"failed"})
        BY DEF In
    <2>2. ASSUME faults'.dup = 0, NEW f \in Buffer \ {"samples"}
          PROVE  buf[f] + flusher'.cur[f] + (agg'[f] + lost'[f]) =
                     buf[f] + flusher.cur[f] + (agg[f] + lost[f])
        <3>1. agg'[f] + lost'[f] = (agg[f] + lost[f]) + flusher.cur[f] /\ flusher'.cur[f] = 0
            BY <1>a, <1>h, <2>2, FieldTypes DEF Total
        <3> QED BY <1>b, <2>2, <3>1, FieldTypes
    <2>3. faults'.dup = 0 => /\ Held("hist")' = Held("hist")
                             /\ Held("secAcks")' = Held("secAcks")
                             /\ Held("secErrs")' = Held("secErrs")
        BY <2>2, FieldTypes DEF Held, Total
    <2>4. faults'.dup = 0 => \A f \in Counter : agg'[f] + lost'[f] = flusher'.prev[f]
        BY <1>a, <1>h
    <2> QED BY <1>a, <1>g, <2>1, <2>3, <2>4, FieldTypes DEF Exact, Balance, Total
<1>5. OneWay'
    <2> SUFFICES ASSUME faults'.dup = 0
                 PROVE  /\ agg'["secAcks"] + lost'["secAcks"] <= agg'["acked"] + lost'["acked"]
                        /\ agg'["acked"] + lost'["acked"] <= agg'["hist"] + lost'["hist"]
                        /\ agg'["secErrs"] + lost'["secErrs"] <= agg'["errors"] + lost'["errors"]
        BY <1>a, <1>e DEF OneWay, Total
    <2>1. /\ agg'["acked"] + lost'["acked"] = flusher.cur["acked"]
          /\ agg'["errors"] + lost'["errors"] = flusher.cur["errors"]
          /\ agg'["secAcks"] + lost'["secAcks"] = Total("secAcks") + flusher.cur["secAcks"]
          /\ agg'["secErrs"] + lost'["secErrs"] = Total("secErrs") + flusher.cur["secErrs"]
          /\ agg'["hist"] + lost'["hist"] = Total("hist") + flusher.cur["hist"]
        BY <1>h, FieldTypes
    <2>2. /\ Total("secAcks") + flusher.cur["secAcks"] <= flusher.cur["acked"]
          /\ Total("secErrs") + flusher.cur["secErrs"] <= flusher.cur["errors"]
          /\ flusher.cur["acked"] <= Total("hist") + flusher.cur["hist"]
        BY <1>d, <1>g, FieldTypes DEF Exact, OneWay
    <2> QED BY <2>1, <2>2
<1>6. LastFlush'
    BY <1>a, <1>d, <1>e DEF Exact, LastFlush, AllDone
<1>7. flusher'.cur["samples"] = 0
    BY <1>a, FieldTypes
<1> QED BY <1>1, <1>2, <1>3, <1>4, <1>5, <1>6, <1>7

(* Folding a batch keeps the samples below twice the cap, and never loses  *)
(* the last one.                                                           *)
LEMMA FoldSamples ==
    ASSUME NEW a \in [Field -> Nat], NEW d \in [Field -> Nat], d["samples"] <= MaxSamples
    PROVE  /\ Fold(a, d) \in [Field -> Nat]
           /\ \A f \in Field \ {"samples"} : Fold(a, d)[f] = a[f] + d[f]
           /\ a["samples"] < 2 * MaxSamples => Fold(a, d)["samples"] < 2 * MaxSamples
           /\ a["samples"] > 0 \/ d["samples"] > 0 => Fold(a, d)["samples"] > 0
<1>1. "samples" \in Field /\ MaxSamples \in Nat \ {0}
    BY FieldTypes, TelemetryAssumption
<1>2. a["samples"] \in Nat /\ d["samples"] \in Nat
    BY <1>1
<1>3. Fold(a, d)["samples"] = IF a["samples"] >= MaxSamples THEN a["samples"]
                              ELSE a["samples"] + d["samples"]
    BY <1>1 DEF Fold
<1>4. /\ a["samples"] < 2 * MaxSamples => Fold(a, d)["samples"] < 2 * MaxSamples
      /\ a["samples"] > 0 \/ d["samples"] > 0 => Fold(a, d)["samples"] > 0
    BY <1>1, <1>2, <1>3
<1> QED BY <1>4 DEF Fold

LEMMA ShipKeepsExact ==
    ASSUME Exact, Ship \/ ShipFails \/ ShipTwice
    PROVE  Exact'
<1>a. /\ flusher.at = "ship" /\ Shipped /\ UNCHANGED <<bot, count, buf>>
    BY DEF Ship, ShipFails, ShipTwice
<1>b. /\ agg \in [Field -> Nat] /\ lost \in [Field -> Nat]
      /\ faults \in [lost : 0 .. MaxLost, dup : 0 .. MaxDup]
      /\ MaxLost \in Nat /\ MaxDup \in Nat /\ MaxSamples \in Nat \ {0}
      /\ count["violations"] \in Nat
    BY TelemetryAssumption, FieldTypes DEF Exact, TypeOK
<1>c. /\ Batch \in [Field -> Nat]
      /\ Batch["samples"] = flusher.cur["samples"]
      /\ Batch["samples"] <= MaxSamples
      /\ Batch["violations"] = flusher.cur["violations"] - flusher.prev["violations"]
    BY <1>a, BatchIsNat, FieldTypes DEF Exact, Samples
<1>d. "samples" \in Field /\ "violations" \in Field \ {"samples"}
    BY FieldTypes
<1>e. count["violations"] = 0 => Batch["violations"] = 0
    <2>1. /\ flusher.prev["violations"] \in Nat /\ flusher.cur["violations"] \in Nat
          /\ flusher.cur["violations"] <= count["violations"]
          /\ flusher.prev["violations"] <= count["violations"]
        BY <1>a, Numbers, FieldTypes DEF Exact, ReadsGrow, Read
    <2> QED BY <1>c, <2>1
<1>f. /\ buf["samples"] <= MaxSamples /\ agg["samples"] < 2 * MaxSamples
      /\ faults.lost = 0 => \A f \in Field : lost[f] = 0
      /\ count["violations"] = 0 => agg["violations"] = 0
      /\ count["violations"] > 0 =>
            \/ \E b \in Bots : bot[b].at = "sample"
            \/ buf["samples"] > 0 \/ Batch["samples"] > 0
            \/ agg["samples"] > 0 \/ lost["samples"] > 0
    BY <1>c DEF Exact, Samples
<1>g. ASSUME agg' \in [Field -> Nat], lost' \in [Field -> Nat], flusher'.cur["samples"] = 0,
             agg'["samples"] < 2 * MaxSamples,
             faults'.lost = 0 => \A f \in Field : lost'[f] = 0,
             count["violations"] = 0 => agg'["violations"] = 0,
             agg["samples"] > 0 => agg'["samples"] > 0,
             lost["samples"] > 0 => lost'["samples"] > 0,
             Batch["samples"] > 0 => agg'["samples"] > 0 \/ lost'["samples"] > 0
      PROVE  Samples'
    BY <1>a, <1>b, <1>f, <1>g DEF Samples
<1> HIDE DEF Batch
<1>1. CASE Ship
    <2>1. agg' = Fold(agg, Batch) /\ UNCHANGED <<lost, faults>>
        BY <1>1 DEF Ship
    <2>2. /\ agg' \in [Field -> Nat]
          /\ \A f \in Field \ {"samples"} : agg'[f] = agg[f] + Batch[f]
          /\ agg'["samples"] < 2 * MaxSamples
          /\ agg["samples"] > 0 \/ Batch["samples"] > 0 => agg'["samples"] > 0
        BY <1>b, <1>c, <1>f, <2>1, FoldSamples
    <2>3. \A f \in Field \ {"samples"} : agg'[f] + lost'[f] = (agg[f] + lost[f]) + Batch[f]
        BY <1>b, <1>c, <2>1, <2>2
    <2>4. /\ TypeOK' /\ VerdictsLeft' /\ FlushesLeft' /\ ReadsGrow' /\ Balance' /\ OneWay'
          /\ LastFlush' /\ flusher'.cur["samples"] = 0
        BY <1>a, <1>b, <2>1, <2>2, <2>3, ShippedKeeps
    <2>5. count["violations"] = 0 => agg'["violations"] = 0
        BY <1>d, <1>e, <1>f, <2>2
    <2>6. Samples'
        BY <1>b, <1>f, <1>g, <2>1, <2>2, <2>4, <2>5
    <2> QED BY <2>4, <2>6 DEF Exact
<1>2. CASE ShipFails
    <2>1. /\ lost' = [f \in Field |-> lost[f] + Batch[f]] /\ UNCHANGED agg
          /\ faults.lost < MaxLost /\ faults' = [faults EXCEPT !.lost = @ + 1]
        BY <1>2 DEF ShipFails
    <2>2. /\ lost' \in [Field -> Nat] /\ \A f \in Field : lost'[f] = lost[f] + Batch[f]
        BY <1>b, <1>c, <2>1
    <2>3. /\ faults' \in [lost : 0 .. MaxLost, dup : 0 .. MaxDup]
          /\ faults'.dup = faults.dup /\ faults'.lost # 0
        BY <1>b, <2>1
    <2>4. \A f \in Field \ {"samples"} : agg'[f] + lost'[f] = (agg[f] + lost[f]) + Batch[f]
        BY <1>b, <1>c, <2>1, <2>2
    <2>5. /\ TypeOK' /\ VerdictsLeft' /\ FlushesLeft' /\ ReadsGrow' /\ Balance' /\ OneWay'
          /\ LastFlush' /\ flusher'.cur["samples"] = 0
        BY <1>a, <1>b, <2>1, <2>2, <2>3, <2>4, ShippedKeeps
    <2>6. lost["samples"] > 0 \/ Batch["samples"] > 0 => lost'["samples"] > 0
        <3>1. lost["samples"] \in Nat /\ Batch["samples"] \in Nat
            BY <1>b, <1>c, <1>d
        <3> QED BY <1>d, <2>2, <3>1
    <2>7. Samples'
        BY <1>b, <1>f, <1>g, <2>1, <2>2, <2>3, <2>5, <2>6
    <2> QED BY <2>5, <2>7 DEF Exact
<1>3. CASE ShipTwice
    <2> DEFINE once == Fold(agg, Batch)
    <2>1. /\ agg' = Fold(once, Batch) /\ UNCHANGED lost
          /\ faults.dup < MaxDup /\ faults' = [faults EXCEPT !.dup = @ + 1]
        BY <1>3 DEF ShipTwice
    <2>2. /\ once \in [Field -> Nat]
          /\ \A f \in Field \ {"samples"} : once[f] = agg[f] + Batch[f]
          /\ once["samples"] < 2 * MaxSamples
          /\ agg["samples"] > 0 \/ Batch["samples"] > 0 => once["samples"] > 0
        BY <1>b, <1>c, <1>f, FoldSamples
    <2> HIDE DEF once
    <2>3. /\ agg' \in [Field -> Nat]
          /\ \A f \in Field \ {"samples"} : agg'[f] = once[f] + Batch[f]
          /\ agg'["samples"] < 2 * MaxSamples
          /\ once["samples"] > 0 => agg'["samples"] > 0
        BY <1>b, <1>c, <2>1, <2>2, FoldSamples
    <2>4. /\ faults' \in [lost : 0 .. MaxLost, dup : 0 .. MaxDup]
          /\ faults'.dup > 0 /\ faults'.lost = faults.lost
        BY <1>b, <2>1
    <2>5. /\ TypeOK' /\ VerdictsLeft' /\ FlushesLeft' /\ ReadsGrow' /\ Balance' /\ OneWay'
          /\ LastFlush' /\ flusher'.cur["samples"] = 0
        BY <1>a, <1>b, <2>1, <2>3, <2>4, ShippedKeeps
    <2>6. count["violations"] = 0 => agg'["violations"] = 0
        BY <1>d, <1>e, <1>f, <2>2, <2>3
    <2>7. Samples'
        BY <1>b, <1>f, <1>g, <2>1, <2>2, <2>3, <2>4, <2>5, <2>6
    <2> QED BY <2>5, <2>7 DEF Exact
<1> QED BY <1>1, <1>2, <1>3

-----------------------------------------------------------------------------
(* Every count is in one place at every moment, whatever the bots do while *)
(* flush() reads the counters one by one.                                  *)
THEOREM TelemetryAddsUp == Spec => []Exact
<1>1. Init => Exact
    <2> SUFFICES ASSUME Init PROVE Exact
        OBVIOUS
    <2>1. TypeOK
        BY TelemetryAssumption, FieldTypes DEF Init, TypeOK, BotState, FlushState, Zero
    <2>2. /\ \A f \in Counter : count[f] = 0 /\ flusher.prev[f] = 0
          /\ \A f \in Buffer : buf[f] = 0
          /\ \A f \in Field : flusher.cur[f] = 0 /\ agg[f] = 0 /\ lost[f] = 0
          /\ flusher.at = "select" /\ flusher.final = FALSE /\ Read = {}
          /\ \A b \in Bots : bot[b].at = "loop"
        BY DEF Init, Zero, Read
    <2>3. ASSUME NEW S, "loop" \notin S
          PROVE  In(S) = 0
        <3>1. {b \in Bots : bot[b].at \in S} = {}
            BY <2>2, <2>3
        <3> QED BY <3>1, FS_EmptySet DEF In
    <2>4. Balance
        <3>1. /\ In({"wait", "recorded"}) = 0 /\ In({"recorded"}) = 0
              /\ In({"counted"}) = 0 /\ In({"failed"}) = 0
            BY <2>3
        <3> QED BY <2>2, <3>1, FieldTypes DEF Balance, Held, Total
    <2>5. ReadsGrow /\ VerdictsLeft /\ FlushesLeft /\ LastFlush
        BY <2>2 DEF ReadsGrow, VerdictsLeft, FlushesLeft, LastFlush
    <2>6. OneWay /\ Samples
        BY <2>2, TelemetryAssumption, FieldTypes DEF OneWay, Samples, Total
    <2> QED BY <2>1, <2>4, <2>5, <2>6 DEF Exact
<1>2. Exact /\ [Next]_vars => Exact'
    <2> SUFFICES ASSUME Exact, [Next]_vars PROVE Exact'
        OBVIOUS
    <2>1. CASE \E b \in Bots : BotStep(b)
        BY <2>1, BotsKeepExact
    <2>2. CASE TickerFires \/ BotsDone
        BY <2>2, SwapKeepsExact DEF TickerFires, BotsDone
    <2>3. CASE LoadCounters
        BY <2>3, LoadKeepsExact, FieldTypes DEF LoadCounters
    <2>4. CASE TakeDelta
        BY <2>4, TakeDeltaKeepsExact
    <2>5. CASE Ship \/ ShipFails \/ ShipTwice
        BY <2>5, ShipKeepsExact
    <2>6. CASE UNCHANGED vars
        <3>1. UNCHANGED <<bot, count, buf, flusher, agg, lost, faults>>
            BY <2>6 DEF vars
        <3> QED BY <3>1 DEF Exact, TypeOK, VerdictsLeft, FlushesLeft, ReadsGrow, Balance, OneWay,
               LastFlush, Samples, AllDone, In, Held, Total, Read
    <2> QED BY <2>1, <2>2, <2>3, <2>4, <2>5, <2>6 DEF Next, FlushStep
<1> QED BY <1>1, <1>2, PTL DEF Spec

(* The variables keep their types; above all, no delta that is shipped is  *)
(* negative.                                                               *)
THEOREM TelemetryTypes == Spec => []TypeOK
<1>1. Exact => TypeOK
    BY DEF Exact
<1> QED BY <1>1, TelemetryAddsUp, PTL

(* When the final batch is shipped, what arrived and what was refused add  *)
(* up to what the bots counted, and the ways of counting agree.            *)
THEOREM FinalTotalsAreExact == Spec => []FinalTotalsExact
<1>1. Exact => FinalTotalsExact
    <2> SUFFICES ASSUME Exact, flusher.at = "done", faults.dup = 0
                 PROVE  LET total == [f \in Field |-> agg[f] + lost[f]] IN
                        /\ \A f \in Counter : total[f] = count[f]
                        /\ total.sent = total.acked + total.errors
                        /\ total.hist = total.acked
                        /\ total.secAcks = total.acked
                        /\ total.secErrs = total.errors
        BY DEF FinalTotalsExact
    <2>1. AllDone /\ \A f \in Buffer : buf[f] = 0 /\ flusher.cur[f] = 0
        BY DEF Exact, LastFlush, Balance
    <2>2. ASSUME NEW S, "done" \notin S
          PROVE  In(S) = 0
        <3>1. {b \in Bots : bot[b].at \in S} = {}
            BY <2>1, <2>2 DEF AllDone
        <3> QED BY <3>1, FS_EmptySet DEF In
    <2>3. \A f \in Counter : Total(f) = count[f]
        BY DEF Exact, LastFlush, Balance
    <2>4. /\ In({"wait", "recorded"}) = 0 /\ In({"recorded"}) = 0
          /\ In({"counted"}) = 0 /\ In({"failed"}) = 0
        BY <2>2
    <2>5. \A f \in Field : Total(f) \in Nat
        BY Numbers DEF Exact, Total
    <2>6. Held("hist") = Total("hist") /\ Held("secAcks") = Total("secAcks")
          /\ Held("secErrs") = Total("secErrs")
        BY <2>1, <2>5, FieldTypes DEF Held
    <2>7. \A f \in Counter : count[f] \in Nat
        BY Numbers DEF Exact
    <2>8. /\ count["sent"] = count["acked"] + count["errors"]
          /\ Total("hist") = count["acked"] /\ Total("secAcks") = count["acked"]
          /\ Total("secErrs") = count["errors"]
        BY <2>4, <2>5, <2>6, <2>7, FieldTypes DEF Exact, Balance
    <2> QED BY <2>3, <2>8, FieldTypes DEF Total
<1> QED BY <1>1, TelemetryAddsUp, PTL

(* Whatever moment the ingester looks at: per-second counts lag behind the *)
(* counters, and the counters behind the histogram.                        *)
THEOREM TornOnlyOneWay == Spec => []TornOneWay
<1>1. Exact => TornOneWay
    <2> SUFFICES ASSUME Exact, faults.lost = 0, faults.dup = 0
                 PROVE  /\ agg["secAcks"] <= agg["acked"]
                        /\ agg["acked"] <= agg["hist"]
                        /\ agg["secErrs"] <= agg["errors"]
        BY DEF TornOneWay
    <2>1. \A f \in Field : Total(f) = agg[f]
        BY Numbers DEF Exact, Samples, Total
    <2> QED BY <2>1, FieldTypes DEF Exact, OneWay
<1> QED BY <1>1, TelemetryAddsUp, PTL

(* A run keeps fewer than twice the cap of samples, even when a batch is   *)
(* folded twice.                                                           *)
THEOREM SamplesAreBounded == Spec => []SamplesBounded
<1>1. Exact => SamplesBounded
    BY DEF Exact, Samples, SamplesBounded
<1> QED BY <1>1, TelemetryAddsUp, PTL

(* If no batch was refused, violations in the final aggregate come with a  *)
(* sample, although the two travel separately.                             *)
THEOREM ChargesAreExplained == Spec => []ChargesExplained
<1>1. Exact => ChargesExplained
    <2> SUFFICES ASSUME Exact, flusher.at = "done", faults.lost = 0, agg["violations"] > 0
                 PROVE  agg["samples"] > 0
        BY DEF ChargesExplained
    <2>1. AllDone /\ buf["samples"] = 0 /\ flusher.cur["samples"] = 0 /\ lost["samples"] = 0
        BY FieldTypes DEF Exact, LastFlush, Balance, Samples
    <2>2. count["violations"] \in Nat /\ count["violations"] # 0
        BY Numbers, FieldTypes DEF Exact, Samples
    <2>3. count["violations"] > 0 /\ ~\E b \in Bots : bot[b].at = "sample"
        BY <2>1, <2>2 DEF AllDone
    <2> QED BY <2>1, <2>3 DEF Exact, Samples
<1> QED BY <1>1, TelemetryAddsUp, PTL
=============================================================================
