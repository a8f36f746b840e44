--------------------------- MODULE ShardTelemetry ---------------------------
(***************************************************************************)
(* One shard of the bot fleet from the inside: the bots of cmd/botfleet    *)
(* count what they see in a shardState while flush() takes snapshots of it *)
(* and ships the differences, and the ingester adds the differences up.    *)
(*                                                                         *)
(*   bot[b]   the next step of bot b, the requests it has made, and the    *)
(*            verdicts of the present ack it has still to report;          *)
(*   count    the four atomic counters;                                    *)
(*   buf      what is taken and reset by a flush: the histogram, the       *)
(*            per-second maps and the samples.  Only totals matter here,   *)
(*            so each is the number of its entries;                        *)
(*   flusher  the next step of the goroutine of runShard(), the batch it   *)
(*            is putting together, and prev;                               *)
(*   agg      the runAgg that the batches fold into.  Folding is addition, *)
(*            so when a batch is folded does not matter, only whether.     *)
(*   lost     the batches whose XADD was refused, added up.                *)
(***************************************************************************)
EXTENDS Integers, FiniteSets

CONSTANTS Bots,          \* the bots of the shard
          MaxRequests,   \* bound: requests of a bot before its deadline
          MaxVerdicts,   \* bound: verdicts on one ack
          MaxFlush,      \* bound: flushes before the final one
          MaxSamples,    \* the cap on samples (10 in the code)
          MaxLost,       \* bound: refused XADDs
          MaxDup         \* bound: XADDs that take effect twice

ASSUME TelemetryAssumption ==
    /\ IsFiniteSet(Bots)
    /\ MaxRequests \in Nat /\ MaxVerdicts \in Nat /\ MaxFlush \in Nat
    /\ MaxSamples \in Nat \ {0}
    /\ MaxLost \in Nat /\ MaxDup \in Nat

VARIABLES bot, count, buf, flusher, agg, lost, faults

vars == <<bot, count, buf, flusher, agg, lost, faults>>

Counter == {"sent", "acked", "errors", "violations"}
Buffer  == {"hist", "secAcks", "secErrs", "samples"}
Field   == Counter \cup Buffer

Zero == [f \in Field |-> 0]

BotState == {"loop", "wait", "recorded", "counted", "check", "sample", "failed", "done"}

(* The steps of flush(), in the order in which Go evaluates the literal. *)
FlushState == {"select", "sent", "acked", "errors", "violations", "hist", "ship", "done"}

Init ==
    /\ bot = [b \in Bots |-> [at |-> "loop", made |-> 0, verdicts |-> 0]]
    /\ count = [f \in Counter |-> 0]
    /\ buf = [f \in Buffer |-> 0]
    /\ flusher = [at |-> "select", final |-> FALSE, flushes |-> 0, cur |-> Zero,
                  prev |-> [f \in Counter |-> 0]]
    /\ agg = Zero
    /\ lost = Zero
    /\ faults = [lost |-> 0, dup |-> 0]

(* Deltas are never negative: counters only grow between two loads. *)
TypeOK ==
    /\ bot \in [Bots -> [at : BotState, made : 0 .. MaxRequests, verdicts : 0 .. MaxVerdicts]]
    /\ count \in [Counter -> Nat]
    /\ buf \in [Buffer -> Nat]
    /\ flusher \in [at : FlushState, final : BOOLEAN, flushes : 0 .. MaxFlush,
                    cur : [Field -> Nat], prev : [Counter -> Nat]]
    /\ agg \in [Field -> Nat]
    /\ lost \in [Field -> Nat]
    /\ faults \in [lost : 0 .. MaxLost, dup : 0 .. MaxDup]

-----------------------------------------------------------------------------
(* The bots. *)
At(b, from, to) ==
    /\ bot[b].at = from
    /\ bot' = [bot EXCEPT ![b].at = to]
    /\ UNCHANGED <<flusher, agg, lost, faults>>

Add(f)  == count' = [count EXCEPT ![f] = @ + 1] /\ UNCHANGED buf
Tick(f) == buf' = [buf EXCEPT ![f] = @ + 1] /\ UNCHANGED count

(* send(): st.sent.Add(1), and the request goes out. *)
SendRequest(b) ==
    /\ bot[b].at = "loop"
    /\ bot[b].made < MaxRequests
    /\ bot' = [bot EXCEPT ![b].at = "wait", ![b].made = @ + 1]
    /\ Add("sent")
    /\ UNCHANGED <<flusher, agg, lost, faults>>

(* An ack: the latency first, the counter next, the second last. *)
RecordLatency(b) == At(b, "wait", "recorded") /\ Tick("hist")
CountAck(b)      == At(b, "recorded", "counted") /\ Add("acked")

(* ... and then the verdicts that validate() and checkSeq() returned. *)
TickAck(b) ==
    /\ bot[b].at = "counted"
    /\ \E v \in 0 .. MaxVerdicts :
          bot' = [bot EXCEPT ![b].at = IF v = 0 THEN "loop" ELSE "check", ![b].verdicts = v]
    /\ Tick("secAcks")
    /\ UNCHANGED <<flusher, agg, lost, faults>>

(* violate(): the counter, and then the sample if there is room. *)
CountViolation(b) == At(b, "check", "sample") /\ Add("violations")

AddSample(b) ==
    /\ bot[b].at = "sample"
    /\ bot' = [bot EXCEPT ![b].verdicts = @ - 1,
                          ![b].at = IF bot[b].verdicts = 1 THEN "loop" ELSE "check"]
    /\ buf' = IF buf.samples < MaxSamples THEN [buf EXCEPT !.samples = @ + 1] ELSE buf
    /\ UNCHANGED <<count, flusher, agg, lost, faults>>

(* No answer, a status other than 200, or no JSON. *)
CountError(b) == At(b, "wait", "failed") /\ Add("errors")
TickError(b)  == At(b, "failed", "loop") /\ Tick("secErrs")

(* The deadline has passed: wg.Done(). *)
BotEnds(b) == At(b, "loop", "done") /\ UNCHANGED <<count, buf>>

BotStep(b) ==
    \/ SendRequest(b) \/ RecordLatency(b) \/ CountAck(b) \/ TickAck(b)
    \/ CountViolation(b) \/ AddSample(b) \/ CountError(b) \/ TickError(b) \/ BotEnds(b)

-----------------------------------------------------------------------------
(* The flusher. *)
(* Mutant of AllDone: the last flush waits for the first bot only. *)
SomeDone == \E b \in Bots : bot[b].at = "done"

AllDone == \A b \in Bots : bot[b].at = "done"

(* Mutant of Swap: the samples are dropped before they are copied. *)
SwapDrops(final) ==
    /\ flusher.at = "select"
    /\ flusher' = [flusher EXCEPT !.at = "sent", !.final = final,
                      !.cur = [f \in Field |->
                                  IF f \in {"secAcks", "secErrs"} THEN buf[f] ELSE 0]]
    /\ buf' = [f \in Buffer |-> IF f = "hist" THEN buf[f] ELSE 0]
    /\ UNCHANGED <<bot, count, agg, lost, faults>>

(* flush() starts: under st.mu it takes the maps and the samples. *)
Swap(final) ==
    /\ flusher.at = "select"
    /\ flusher' = [flusher EXCEPT !.at = "sent", !.final = final,
                      !.cur = [f \in Field |->
                                  IF f \in {"secAcks", "secErrs", "samples"} THEN buf[f] ELSE 0]]
    /\ buf' = [f \in Buffer |-> IF f = "hist" THEN buf[f] ELSE 0]
    /\ UNCHANGED <<bot, count, agg, lost, faults>>

TickerFires == flusher.flushes < MaxFlush /\ Swap(FALSE)

BotsDone == AllDone /\ Swap(TRUE)

(* One atomic load after another. *)
Load(f, next) ==
    /\ flusher.at = f
    /\ flusher' = [flusher EXCEPT !.at = next, !.cur[f] = count[f]]
    /\ UNCHANGED <<bot, count, buf, agg, lost, faults>>

LoadCounters ==
    \/ Load("sent", "acked")
    \/ Load("acked", "errors")
    \/ Load("errors", "violations")
    \/ Load("violations", "hist")

(* Mutant of TakeDelta: the latencies are kept for the final batch. *)
TakeDeltaAtEnd ==
    /\ flusher.at = "hist"
    /\ flusher' = [flusher EXCEPT !.at = "ship",
                                  !.cur["hist"] = IF flusher.final THEN buf.hist ELSE 0]
    /\ buf' = IF flusher.final THEN [buf EXCEPT !.hist = 0] ELSE buf
    /\ UNCHANGED <<bot, count, agg, lost, faults>>

(* hist.TakeDelta() *)
TakeDelta ==
    /\ flusher.at = "hist"
    /\ flusher' = [flusher EXCEPT !.at = "ship", !.cur["hist"] = buf.hist]
    /\ buf' = [buf EXCEPT !.hist = 0]
    /\ UNCHANGED <<bot, count, agg, lost, faults>>

(* The batch: what the counters gained since the last one, and the rest as *)
(* it is.                                                                  *)
Batch == [f \in Field |-> IF f \in Counter THEN flusher.cur[f] - flusher.prev[f]
                                           ELSE flusher.cur[f]]

(* Mutant of Fold: the cap is applied to every batch, not to the total. *)
FoldAllSamples(a, d) == [f \in Field |-> a[f] + d[f]]

(* absorb(): everything is added, the samples only while there are fewer   *)
(* than the cap.                                                           *)
Fold(a, d) ==
    [f \in Field |-> IF f = "samples" /\ a.samples >= MaxSamples THEN a[f] ELSE a[f] + d[f]]

(* *prev = cur, whether or not the XADD that follows succeeds. *)
Shipped ==
    flusher' = [flusher EXCEPT !.at = IF flusher.final THEN "done" ELSE "select",
                  !.flushes = IF flusher.final THEN @ ELSE @ + 1, !.cur = Zero,
                  !.prev = [f \in Counter |-> flusher.cur[f]]]

Ship ==
    /\ flusher.at = "ship"
    /\ Shipped
    /\ agg' = Fold(agg, Batch)
    /\ UNCHANGED <<bot, count, buf, lost, faults>>

(* XADD is refused; the error is logged. *)
ShipFails ==
    /\ flusher.at = "ship"
    /\ faults.lost < MaxLost
    /\ faults' = [faults EXCEPT !.lost = @ + 1]
    /\ Shipped
    /\ lost' = [f \in Field |-> lost[f] + Batch[f]]
    /\ UNCHANGED <<bot, count, buf, agg>>

(* The connection breaks after Redis has taken the entry: the client       *)
(* library sends the command again, and the entry is there twice.          *)
ShipTwice ==
    /\ flusher.at = "ship"
    /\ faults.dup < MaxDup
    /\ faults' = [faults EXCEPT !.dup = @ + 1]
    /\ Shipped
    /\ agg' = Fold(Fold(agg, Batch), Batch)
    /\ UNCHANGED <<bot, count, buf, lost>>

FlushStep == TickerFires \/ BotsDone \/ LoadCounters \/ TakeDelta \/ Ship

Next == (\E b \in Bots : BotStep(b)) \/ FlushStep \/ ShipFails \/ ShipTwice

Spec == Init /\ [][Next]_vars

-----------------------------------------------------------------------------
(* No count is lost between two flushes or taken twice, although the       *)
(* counters are read one by one while the bots go on: when the final batch *)
(* is shipped, the batches that arrived and the refused ones add up to     *)
(* what the bots saw, and the five ways of counting agree with each other. *)
FinalTotalsExact ==
    flusher.at = "done" /\ faults.dup = 0 =>
        LET total == [f \in Field |-> agg[f] + lost[f]] IN
        /\ \A f \in Counter : total[f] = count[f]
        /\ total.sent = total.acked + total.errors
        /\ total.hist = total.acked
        /\ total.secAcks = total.acked
        /\ total.secErrs = total.errors

(* What the ingester shows before the end is torn, but only one way: the   *)
(* per-second counts lag behind the counters, and the counters behind the  *)
(* histogram.  So an aggregate that has acks has latencies too, and p99 is *)
(* never that of an empty histogram beside a positive count.               *)
TornOneWay ==
    faults.lost = 0 /\ faults.dup = 0 =>
        /\ agg.secAcks <= agg.acked
        /\ agg.acked <= agg.hist
        /\ agg.secErrs <= agg.errors

(* The cap on samples is tested before a whole batch of them is appended:  *)
(* a run keeps fewer than twice the cap, never more, even if a batch is    *)
(* folded twice.                                                           *)
SamplesBounded == buf.samples <= MaxSamples /\ agg.samples < 2 * MaxSamples

(* Whoever is charged with violations is shown at least one of them.       *)
ChargesExplained ==
    flusher.at = "done" /\ faults.lost = 0 /\ agg.violations > 0 => agg.samples > 0

(* "Idempotent merge on the ingester side": a batch that arrives twice     *)
(* counts once, so no aggregate ever says more than the bots counted.      *)
MergeIsIdempotent == \A f \in Counter : agg[f] <= count[f]
=============================================================================
