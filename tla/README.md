# Verification of the trading-engine arena

The repository is a platform that benchmarks order-matching engines. A
contestant uploads an engine; a *run* builds it, sandboxes it, probes it for
correctness, bombards it with simulated traders, and ends in a composite score
on a leaderboard. Four Go services share nothing but a Redis instance. This
directory holds TLA+ models of the life of a run through those services, of what
goes on inside them (uploads, traffic, telemetry, probe, score, live board), and
of the order books that decide what a correct engine is, the TLC configurations
that check them, and TLAPS proofs of their main invariants.

## Inventory

| Part | State | Operations | Hard parts |
|---|---|---|---|
| Reference book, `internal/matching/book.go` | price levels per side with FIFO queues, index by id, sequence number | `Submit`, `Cancel` | sortedness, emptied levels, index and queues in step over long call sequences; priority and partial fills |
| Gateway, `cmd/gateway` | `run:<id>` hashes, websocket hub | `createRun`, `createSubmission`, reads, `ws`, `pumpEvents` | two writes of `createRun`, of which one can fail; hub locking |
| Orchestrator, `cmd/orchestrator` | the call of `handle()`, the sandbox container | claim, build, start, health, probe, fan-out, poll, deadline, teardown | blind status writes, ignored `XADD` errors, death at any step, deadline against verdict |
| Conformance probe, `cmd/orchestrator` | a reference book | fixed scenario, diff of acks | what the scenario does not distinguish |
| Bot fleet, `cmd/botfleet` | the shard being run, its counters | claim (acked at once), bots, flush every 2 s, final flush | at-most-once shards, lost flushes, counter snapshots |
| Ingester, `cmd/ingester` | aggregates under a mutex, two goroutines, result, leaderboard and snapshot keys, archive table | `absorb`, `live`, `sweep`, `finalize`, `publishSnapshot`, `persist` | `finalize` outside the lock in two goroutines, read-modify-write on Redis, late batches, restart |
| Histogram and score, `internal/telemetry`, `internal/score` | none | record, merge, quantile, composite | bucket edges, rounding of ranks, empty histogram |
| Example engine in Go | the same book behind HTTP | concurrent handlers, `reply`, `mangle`, `top` | replies overtake each other, requests served after their client gave up |
| Example engine in Python | a book of sorted lists | `submit`, `_rest`, `cancel` | the same contract by other means |
| Web page | the board it shows | websocket, reconnect, polling | updates lost between snapshot and feed |
| Deployment | – | – | – |

The services interact only through Redis: the gateway appends a `RunJob` to
`runs.jobs`; an orchestrator claims it, and after the probe appends one
`LoadShard` per 250 bots to `load.jobs`; a fleet replica claims a shard and
appends `TelemetryBatch` deltas to `telemetry.raw`; the ingester folds them and
writes the verdict; the orchestrator polls `run:<id>.status` for it. All three of
gateway, orchestrator and ingester write that status, and none of them reads it
before it writes.

What makes the parts correct:

* book: sorted, no empty level, never crossed, index and queues agree, and every
  ack and every book left behind are those of price-time priority;
* run life cycle: phases only go forward, `done`/`failed` are final, an accepted
  run ends, sandboxes are reclaimed;
* telemetry: no count lost or doubled between flushes, percentiles and throughput
  those of all shards together, scores between 0 and 100;
* traffic and probe: a correct engine is never charged, a mistaken one is;
* uploads and views: a build sees whole bundles, a reader no torn verdicts;
* feed: every page ends up with the board as the ingester stored it, the stored board
  lacks only what an error, a crash or an overlap kept out, connections do not leak;
* verdict: one goroutine per run, made once, with the conformance score, with all
  the telemetry when it is counted complete, score before status, best run kept,
  and made at all once telemetry exists.

`PROJECT.json` lists the hazards behind these, each at its line.

## Modules

| Module | Models |
|---|---|
| `PriceTimeBook` | abstract specification: one FIFO per side and tick, an order trades in one step |
| `MatchingBook` | `book.go`, loop iteration by loop iteration; refines `PriceTimeBook` |
| `Bus` | the run hashes and the three streams, and the faults |
| `Gateway` | `createRun` |
| `Orchestrator` | `main` loop and `handle()` |
| `BotFleet` | claim loop, `runShard`, `flush` |
| `Ingester` | `main` loop, `absorb`, `live`, `sweep`, `finalize`, `publishSnapshot`, `persist` |
| `Arena` | the composition, its clocks and fairness, the properties that span services |
| `RestApi` | `createSubmission`, `createRun`, `runView`, one request to Redis at a time, against builds and verdicts |
| `LoadPlan` | the numbers of a run: defaults and caps, bots and budget per shard, rate of a bot |
| `Conformance` | `scenario()` and `conformance()` on `PriceTimeBook` and on engines with a given mistake |
| `Preparation` | the composition of the two in the order of `handle()`: numbers, probe, fan-out |
| `ShardTelemetry` | one shard inside: `send`, `violate`, `flush` and the folding of its batches |
| `ReferenceEngine` | the HTTP handlers of the Go engine over `MatchingBook` |
| `BotTraffic` | `bot`, `validate`, `checkSeq` against `ReferenceEngine` |
| `PythonBook` | the Python book; a second refinement of `PriceTimeBook` |
| `Scoring` | histogram, `compute`, `Composite`, against the latencies themselves |
| `Feed` | `publishSnapshot` to screen: pub/sub, `pumpEvents`, hub, `ws`, the page |
| `EngineProofs` | theorems about `MatchingBook`, its refinement of `PriceTimeBook`, `PythonBook` and `BotTraffic` |
| `ArenaProofs`, `ShardTelemetryProofs`, `PreparationProofs`, `FeedProofs`, `RestApiProofs`, `ScoringProofs` | theorems about the modules they are named after |
| `SumProofs` | lemmas about the folds of the community modules |
| `MCBooks` | both books behind one choice of engine, for TLC |
| other `MC...` | instances for TLC (`Feed` needs none) |

**MatchingBook.** `levels` are `bids` and `asks`, `byID` the index (side and price
of an entry are all `Cancel` reads), `call` the locals of the `Submit` in
progress. `SubmitRejected`, `SubmitAccepted`, `FillBest` (one iteration of the
two nested loops) and `SubmitReturns` make up `Submit`; `CancelUnknown` and
`CancelResting` make up `Cancel`. `examples/reference-engine` has the same book
under a mutex. The refinement mapping shows the caller's view: the queue of a tick
is that of its level, and while a `Submit` is in its loop, the book it started
from (kept in the history field `call.entry`). Quantities stay far from 2^63 and
are mathematical integers.

**Bus.** Consumers read with `XREADGROUP ... >` only, so an entry is delivered
once, and what a dead consumer was delivered is lost to everybody; `XACK` has no
effect on any service. A stream is a FIFO that entries leave on delivery. A batch
carries no counters: it is named by shard and flush number, so that an aggregate
can be the *set* of the deltas folded into it, and "computed from the same
telemetry" can be said. All runs have the same number of shards. `HSET`, `ZADD`
and `SET` are taken to succeed; an `XADD` may be refused (fault `xadd`).

**Orchestrator.** One action per step of `handle()` and per exit: `orch[o].at` is
the next step. Build, start and health check may each go either way. The poll and
the failure at the deadline are two actions (`PollExpires`, `GiveUp`) because the
verdict may land between them.

**Ingester.** The aggregate map changes only under the mutex, so `absorb` up to
its unlock is one action, and so is the collection loop of `sweep`. Everything
`finalize` does after that is one action per Redis request, in the goroutine that
called it. The two steps of `publishSnapshot` are its reads and its write; the
reads of the per-submission keys between them are taken together.

**RestApi.** A handler is a program counter per upload and per run; between two
of its requests anything else may happen. `file` is what a build would find under
the bundle's name. `OpenBundle`, `WriteResult` and `WriteDone` stand for the
orchestrator and the ingester, as far as a client can see them. `pushed` is a
history variable.

**LoadPlan.** `CreateRun` is the normalisation in `createRun`, `Dispatch` one
round of the fan-out loop. `OfferedByShard` counts half requests per second, so
that the floor of 0.5 is an integer.

**Conformance.** The step of the loop is one action in three variants: both books
serve the request and the acks are compared (`Compare`); the engine serves it and the
answer is lost (`AnswerLost`); or the client's five seconds pass first (`TimesOut`). As
with the bots, a request that timed out is not withdrawn: it is `pending`, and
`ServeLate` serves it at any later point, after other steps, during the load, or never.
`overtaken` remembers whether a request was served while an earlier one was pending.
The engine under test is external code: a list
of orders and a habit. `Preparation` lets the probe start when the run has its
numbers, and the fan-out when the probe has taken its last step.

**ShardTelemetry.** Each atomic operation and each critical section of `st.mu` and
`hist.mu` is an action. `flusher.at` walks through `flush()` in the order in which Go
evaluates the composite literal. Histogram, per-second maps and samples are
counted, not kept; `agg` is the fold of the batches shipped so far. A XADD may be
refused, or take effect twice when the client library repeats it.

**ReferenceEngine, BotTraffic.** A request is a record that is sent, then inside
`submit`, then replied. Handlers exclude each other by `call` of `MatchingBook`;
replies are picked up in any order. `GET /book` changes
nothing, so it is an operator (`Top`) and what it answers an invariant. A timeout ends the bot's wait and leaves the
request where it is. `alarms` remembers for every verdict whether the engine had
mangled that ack, which only the engine knows.

**PythonBook.** `submit()` is the text of `MatchingBook`'s up to where an order
comes to rest, so its actions are shared; `_rest()` (append and sort) and
`cancel()` (rebuild the queue) are its own.

**Scoring.** `Root` is the square root of the bucket growth (1.05 in the code, 4
in the instance), so bucket bounds and middles are integers, and the logarithm of
p99 is a number of steps. Scores are kept as a numerator over `Scale`. Left out:
the rounding of floating-point logarithms and of the stored strings. `ScoreFair`
compares aggregates with the same acks. It does not say that answering pays: a failed
request leaves no latency, so failing slow requests instead of answering them can
raise a score, and `dead_engine` is the extreme of that.

**Feed.** A board is the set of verdicts it shows. `fan` is a broadcast in
progress, during which `hub.mu` is held; `conn[c]` is the handler and then the
reader of one websocket. What is written to a dead socket is lost without error
until a write or a read fails. Both goroutines of the ingester publish, after every
verdict, with or without a `ZADD`; `ZREVRANGE` may fail (nothing is stored or
published), `SET` may fail (its error is dropped), and the ingester may die in between.
`missed` is a history variable: the verdicts on the board that one of these, or an older
board stored over a newer one, kept out of the snapshot, until a later publication has
them.

**Faults and time.** `Faults` says which kinds of fault may occur (a kill and
restart of an orchestrator, a replica or the ingester; a refused `XADD`) and
`MaxFaults` how many of each kind. With `Prompt = FALSE` a run may be found silent and a
deadline may pass at any moment, as after stalls of any length; safety that is
claimed unconditionally is checked that way. With `Prompt = TRUE` nothing stalls:
a running shard is never silent (it flushes every 2 s against 60 s), an idle
replica takes a waiting shard, and a deadline passes only while a shard of the run
waits for a busy fleet or when nothing of the run is left to be heard. The counterexamples
that matter are shown with `Prompt = TRUE`, so they need no stall.

Outside this fault model: in `Arena` an `XADD` takes effect once or not at all.
go-redis repeats a command whose answer was lost, so a `RunJob` or `LoadShard` can stand
in its stream twice; two orchestrators or replicas would then work on one run or shard,
and `NeverGoesBack` and `CountedVerdictIsWhole` would not hold. Only `ShardTelemetry` has
the repetition (`ShipTwice`). An error of the `HGET` of `conformance_score`
(`ingester/main.go:249`) is taken for 0 by the code, and is left out, so
`VerdictUsesConformance` is about the order of the services and not about that error. `sweep()` reads the map of aggregates
without the mutex (`ingester/main.go:167`); that another goroutine writes the map
at the same time is a data race in Go, and the model has the values read, not the race
itself. In `RestApi` the `LTRIM` of a request whose context is cancelled
(`gateway/main.go:189`, error dropped) is left out: the list is then longer than its cap
until the next one.

## Runs

| Run | Question | Result |
|---|---|---|
| `books` | do `book.go` and the Python book keep their structure and implement price-time priority? | yes, both |
| `arena_faults` | what holds of one run of two shards when every service may die and an `XADD` be refused, clocks free? | `TypeOK`, `OneOwnerPerVerdict`, `DoneHasScore`, `VerdictUsesConformance`, `CountedVerdictIsWhole`, `NeverGoesBack` |
| `arena_calm` | what holds of two runs with a replica per shard, no fault, no stall? | `TerminalIsFinal`, `OneRowPerRun`, `BestRunKept`, `ScoreMatchesMetrics` |
| `arena_live` | do accepted runs end, sandboxes go and folded telemetry lead to a verdict? | yes, unless the orchestrator (the first two) or the ingester (the third) dies |
| `shard_telemetry` | are counts exact although `flush` reads them one by one? | at the end yes; before, torn one way only |
| `bot_traffic` | is a correct engine ever charged, or sent a bad order, timeouts included, and is `GET /book` the promised top? | never, never, yes |
| `preparation` | does the probe mark down mistakes and only mistakes, and clean up before the load; are bots and budget divided without loss? | mistakes yes; a correct engine loses missing answers only and is left empty if it served every request before any later one, and not otherwise; bots yes, the budget up to rounding |
| `feed` | does a polling page catch up whatever is lost; one writer per websocket; do closed ones leave the hub? | yes, with the board less `missed`: what failed, cut off or overlapping publications of the ingester kept out of the snapshot; yes; yes |
| `scoring` | are percentiles and throughput right for what happened, scores in range and not raised by a further failure or violation? | yes, for the same acks |
| `rest_api` | do builds see whole bundles, and readers consistent runs and lists? | yes |
| `best_run_lost` | is the best run kept when both goroutines finalize? | no |
| `dead_engine` | does an engine without acks score 0? | no |

The two violations are the findings of `PROJECT.json`:

1. `best_run_lost` – `ZSCORE`, compare and `ZADD` of the two goroutines interleave.
2. `dead_engine` – no acks, no p99, and 0 is better than 1 ms: 35 of 100 marks.

**Known limits.** The remaining configurations are no runs of the project: each checks one
statement that TLC refutes, of the documentation where one is quoted, kept with its
counterexample for whoever changes the code.

| Configuration (module) | What the documentation says | What happens |
|---|---|---|
| `MCArenaTerminal` (`MCArena`) | `ARCHITECTURE.md:67`: states end in `done` or `failed` | the only replica is busy with run 1 while the deadline of run 2 passes; run 2 is failed, then run, then `done`, although its sandbox is gone |
| `MCArenaOneRow` (`MCArena`) | `ARCHITECTURE.md:153`: one archive row per finished run | two shards are separated in the queue by another run's; the sweep decides the run after a minute of silence and deletes the aggregate, flag included; the second shard leads to a second verdict and row |
| `MCArenaDeadReplica` (`MCArena`) | `ingester/main.go:8`: a dead replica can never wedge a verdict | a replica that dies before its first flush leaves no aggregate for the sweep to find; the run ends as `failed` |
| `MCShardTelemetryTwice` (`MCShardTelemetry`) | `botfleet/main.go:134`: "idempotent merge on the ingester side" | the merge is an addition; a batch that stands in the stream twice counts twice |
| `MCPreparationMarket` (`MCPreparation`) | `orchestrator/main.go:265`: the scenario covers IOC market sweeps | conf-G is the last order that could meet a resting remainder, and it is the one that leaves it: an engine that rests it passes |
| `MCPreparationLate` (`MCPreparation`) | no document; the comparison takes for granted that both books get the same steps | a request of the probe times out and is served after the next one, or never: the books are out of step, a correct engine loses further checks, and an order of the probe may stay for the bots |
| `MCPreparationOffered` (`MCPreparation`) | `protocol.go:68`: "rate budget for this shard" | a bot never goes below 0.5 requests per second, whatever the budget |
| `MCFeedNoPolling` (`Feed`) | `ARCHITECTURE.md:73`: "WS clients all receive the same pub/sub feed" | the snapshot is read before the connection joins the hub; the poll of the page repairs it within 2.5 s (`feed`) |
| `MCFeedTwoVerdicts` (`Feed`) | `ingester/main.go:4`: the ingester maintains the live snapshot | two goroutines read and store in different orders; polls and websockets serve the older board until the next verdict repairs it |

Two more disagreements are visible without a configuration. A job that was delivered
is never delivered again, so the run of an orchestrator that dies keeps its last status
(`ARCHITECTURE.md:80` promises at-least-once delivery); `AcceptedRunsEnd` says "unless" for
that reason. And `pinCore()` depends on the submission alone, so two concurrent runs of
one submission share a core (`ARCHITECTURE.md:121`).

`arena_calm` shows the other side: the promises about verdicts depend on capacity and on
nobody dying, and hold when both are given. It does not exercise late verdicts, early
deadlines or sweeps, which its conditions exclude; `MCArenaTerminal`, `MCArenaOneRow` and
`best_run_lost` do.

The request of an abstract step of `PriceTimeBook` is existential: of a rejected order only
the id shows, so in `ImplementsPriceTime` a spurious rejection would pass for that of a malformed
order with the same id. `NeverRejected` excludes it for the orders of bots.

**Bounds.** Two shards are enough for "some but not all final batches are in", two
runs for competition on streams, goroutines and the leaderboard, one flush before
the final one for a batch that is not final. `ReadCount = 2` lets a delivered
batch wait behind another (64 in the code). `MaxSeq = 5` calls over three ids, three
ticks and quantities 1 and 2 reach books with two levels a side, two orders in a
level, sweeps over two levels, partial fills and re-use of ids; tick 0 and
quantity 0 are the malformed inputs. Symmetry is used only where no liveness is checked.

Two bots, two requests each and a flush before the final one let every counter
change between any two loads; a cap of two samples is overshot by two batches.
Three requests of two bots with a timeout include a late request served after its
successor. Four acks over two shards, at, below and beyond the edges of the
buckets, tell ranks apart; with `ErrPercent = 40` a failing second is within
reach of four requests. Two requests of the probe that fail reach every order of two
late ones among the rest. In `feed` two verdicts of two goroutines store in either
order, one fault hits any point of a publication or of the way to the page. One more verdict than `BcastCap` fills the hub's channel. `Cap = 1`
makes every second push meet the limit of its list. In `preparation` the caps are
scaled down, and the numbers asked for give one to four shards with every remainder.

**Deadlock** is not checked where the system stops: a bounded book at `MaxSeq`, an
arena all of whose runs are over, a shard, probe or plan that is done. `feed`
does check it.

**Fairness** (`FairSpec`) is weak fairness of each process: an accepted request is
enqueued, each orchestrator, replica and ingester goroutine takes a step when it
can; the goroutine of the sweep includes its ticker, and that of an orchestrator
its deadline. The loops block on Redis and timers only, so the code justifies
this; no fault and no client is fair. In `Feed` the goroutines of the ingester, the
hub, the pump and the timers of the page are weakly fair; a websocket's handler
and reader are strongly fair, because they wait for `hub.mu`, which the hub takes
again and again, and Go's mutex does not starve a waiter. Nothing obliges a run to
end, a page to connect or a socket to drop.

## Proofs

Eight modules prove 43 theorems, 34 of which state a property of a run for every
value of the constants; the other nine state a type or inductive invariant, a
conditional fact or a refinement worth knowing.

| Module | Theorems |
|---|---|
| `ArenaProofs`, part 1 | `ArenaTypes`, `VerdictsHaveOneOwner`, `DoneRunsHaveScores`, `VerdictsUseConformance` |
| `ArenaProofs`, part 2 | `RunsHaveOneLife`, `RunsNeverGoBack` |
| `ArenaProofs`, part 3 | `ShardsKeepOrder`, `CountedVerdictsAreWhole` |
| `ArenaProofs`, part 4 | `CalmRunsAreWhole`, `CalmTerminalIsFinal`, `CalmOneRow`, `CalmBestRun`, `CalmScoreMatches` |
| `EngineProofs`, the book | `BookTypes`, `BookIsSorted`, `BookHasNoEmptyLevel`, `BookIsNeverCrossed`, `BookIndexIsExact`, `BookKeepsPriceTime` |
| `EngineProofs`, the Python book | `PythonIsTheBook`, `PythonKeepsPriceTime` |
| `EngineProofs`, the traffic | `EngineIsABook`, `EngineKeepsPriceTime`, `LoadIsNeverRejected`, `NoFalseCharges`, `TopsAreAsPromised` |
| `ShardTelemetryProofs` | `TelemetryAddsUp`, `TelemetryTypes`, `FinalTotalsAreExact`, `TornOnlyOneWay`, `SamplesAreBounded`, `ChargesAreExplained` |
| `PreparationProofs` | `FanOutIsExact` |
| `FeedProofs` | `NothingInvented`, `ConnectionsHaveOneWriter`, `SnapshotIsComplete` |
| `RestApiProofs` | `BuildsReadWholeBundles`, `ListedRunsAreStored`, `IndexesKeepNewest`, `ViewsAreConsistent` |
| `ScoringProofs` | `PercentilesAreAccurate`, `ThroughputIsReal`, `ScoreIsFair` |
| `SumProofs` | lemmas: what the folds of the model add up to |

**Arena** (any sets of runs, shards, replicas and orchestrators, any number of
flushes and faults, both settings of `Prompt`). `ArenaTypes` goes component by
component; `ComponentSteps` splits `Next` by service with the frame of each.
`OneOwnerPerVerdict` is inductive given the types, because it carries its own
strengthening: a marked aggregate has an owner, and an owner's aggregate is marked,
so a claim, which needs an unmarked one, never meets an owner. `DoneHasScore` is
strengthened (`ScoreBeforeDone`) by what `finalize` knows between its writes, and
`VerdictUsesConformance` by `ProbedUpstream` and `ProbedInIngester`: wherever a shard,
a batch, an aggregate or a verdict in progress is, its run has been probed.

No service reads the status that it overwrites, so `NeverGoesBack` rests on where a
run can be. `RunLife` says that it is in one place upstream (request, `runs.jobs` or
one `handle()`), that its status is one that this place allows, and that nothing of
it is downstream before it is in `load`. `CountedVerdictIsWhole` needs the same one
level down: `ShardsInOrder` says that a shard is to be dispatched, queued or running
in one place (`OnePlace`), that its final batch is the last thing of it between a
replica and the aggregate (`FinalIsLast`), and that the main goroutine finalizes
complete aggregates only (`AllFinal`).

Part 4 is about runs whose promises fail in general (see the known limits above). Its
theorems have the hypothesis `Calm`: `Prompt`, no faults, finitely many runs and
replicas, and at least as many replicas as runs times shards; it is what
`arena_calm` instantiates. The heart is that the deadline and the
sweep never fire. `NothingLost` says that until the verdict each shard is unfinished
or its final batch is on its way or counted; `ReplicaForEveryShard`, by counting, that a
waiting shard has an idle replica; so a run is never silent before its verdict, the main
goroutine is the only judge (`OneJudge`) and nothing of a run follows its verdict
(`NothingAfter`). `Written` carries that to results, rows and leaderboard.

These rest on `BusAssumption` (at least one shard) and `IngesterAssumption` (every run
has a submission, scores are natural numbers, reads return something).

**MatchingBook** (any identifiers, prices, quantities and number of calls). Types,
sortedness, absence of empty levels and of crossing are proved from one inductive
invariant, `BookInv`: none of the four is inductive alone. `FillBest` needs the
absence of empty levels to read a maker at all, an order rests uncrossed only
because the opposite side is sorted and its first price is beyond the limit, and
`CallAccepted` carries the checks at the top of `Submit` into its loop. `IndexExact`
adds `MapsQueues` (an id has at most one place in the queues, and the map names it)
and `CallFresh` (the order in progress is not in the map). The lemmas `RestAtOK`,
`AfterFillOK` and `WithoutOrderOK` say what the three operations on the levels of
one side preserve; `SideChanges` and `SideShrinks` lift that to the book.
Assumptions: `BookAssumption` (prices and quantities are integers) and
`NothingAssumption` (the two model values for "nothing" are no entry and no call).

**MatchingBook implements PriceTimeBook** (`BookKeepsPriceTime`). The abstract book
serves an order in one step, from a formula: a maker trades what the volume ahead of
it leaves. The code goes round a loop. While it does, the abstract state stands
still (`LoopIsHidden`): it is the book the loop started from. `LoopInv` connects the
two. `Progress` says that the fills so far are a list of different makers of that
book (`done`), each with the quantity `Traded` gives it, that every maker before one
of them is in the list too, and that the levels are that book without what they gave
up. A round adds the maker that is first among the others (`NextMaker`), because the
levels are sorted and queues are FIFO, with the quantity that is prescribed
(`NextTraded`: the volume ahead of it is what has been spent). When the loop ends,
because the order is filled, the side is empty or the price is beyond the limit,
the list is all of `Hit` (`HitIs`), so status, fills and queues are the prescribed ones
(`ReturnIs`). `InOrderIs` and `KeptIs` are the facts about sorting and filtering by
places, `VolumeIs` and `TotalTraded` those about sums.

**PythonBook implements MatchingBook** (`PythonIsTheBook`). With `BookInv` and `IndexInv`,
`_rest()` is a step of `rest()`: on a sorted side, sorting after an append moves the new
level to the place where the scan stops and nothing else (`SortInserts`), and only one
level can have the price of an order (`RestSortedIs`). `cancel()` is a step of `Cancel`:
ids are distinct within a queue, so the rebuilt queue lacks exactly the order that
the map led to (`RebuiltIs`). Price-time priority and the five invariants carry over. Its
sort is written by places (`SortedBy`), because the provers have no definition of `SortSeq`.

**BotTraffic** (any number of bots and requests). `EngineIsABook` shows that traffic
only drives the book, so all of the above holds of the engine behind HTTP
(`EngineKeepsPriceTime` for one).
`TrafficInv` then follows requests: each has its own turn (`Numbered`); the id of an
order not served yet is neither in the book nor in another such request (`Fresh`);
fills and remainder of the order in progress add up to its quantity (`Served`); and an
answer that was not mangled fits its request and, for the request the bot is waiting
for, has a later number than any the bot has seen (`Truthful`). `TrafficAssumption` says that bots
are finitely many, quantities positive, 0 (the price of a market order) a price, and ids that bots format are ids.

**ShardTelemetry** (any number of bots, requests, verdicts, flushes and faults). The
invariant `Exact` is a balance: up to the number of bots that stand between two of
their own counters, everything counted is in a counter or buffer, in the batch being
built, in the aggregate or lost (`Balance`), and what `flush` has read is behind what
it will read next (`OneWay`). All five properties follow.

**LoadPlan, as run by Preparation** (any numbers asked for, any caps, defaults and shard
size). `handle()` computes each share on its own; `PlanInv` says what the shares
dispatched so far add up to, `n * (bots \div shards)` plus the smaller of `n` and the
remainder. The rest is division with remainder (`Division`, `Ceiling`, `Share`).
`LoadPlanAssumption`: the caps, defaults and shard size are positive.

**Feed** (any numbers of verdicts, pages and goroutines). `FeedInv`: whatever is on its
way was on the board, and a handler that still writes is not in the hub.
`SnapshotIsComplete` says for any number of goroutines what `PagesCatchUp` leaves out:
when none is in `publishSnapshot()`, the stored board is the board less `missed`. Its invariant
`Accounted` follows a verdict from `ZADD` to `SET`: it is stored, missed, in the rows some
goroutine is about to store, or some goroutine has yet to read. That nothing is missed cannot be
proved (`MCFeedTwoVerdicts.cfg`). `FeedAssumption`: "no board" is no board.

**RestApi** (any uploads, runs and list cap). `ApiInv` says what each place of a handler
implies about Redis and the volume: a bundle is whole before it is registered, a hash
stored before its id is pushed, a result before the status; a list is a prefix of what
was pushed, shorter only if it is at least `Cap` long. `RestApiAssumption`: every run has
a submission and `Cap` is a natural number.

**Scoring** (any finite sets of shards and latencies, any bucket width, any numbers of
seconds, requests and violations). Two inductive invariants say that nothing is lost
on the way: `ScoringInv`, that the acks and errors of every second are in the
aggregate or in the deltas not yet shipped, and `HistInv`, that for every bucket the
acks up to it are. Once all is folded, the aggregate's seconds are the true ones, and
`ThroughputReal` compares two maxima. For `PercentilesAccurate` the bucket of a
latency is monotone and spans a factor `Root^2` (`BucketSpan`, `BucketMonotone`), so
the bucket in which the cumulated count reaches the rank is the bucket of the latency
at that rank (`QuantileBucketTrue`), and its middle is within `Root` of it
(`BucketValueNear`). `ScoreFair` is monotonicity of each component
(`WorseScoresNoMore`), by multiplication of inequalities that are named one by one.
`ScoringAssumption`: latencies fit into the buckets (`MaxBucket` is a bound of the model
only), the share of requests that may fail is a percentage, the latency of full marks is
below that of none, and marks do not fall with the throughput; TLC evaluates it in `scoring`.
`Root^n` is a recursive function (`RootPower`), for which the proof shows that it exists.

**Sums.** `FoldSeq` and `MapThenSumSet` are recursive functions over finite sets.
The library's induction theorems take an operator as a parameter, which no prover
here can instantiate, so `SumProofs` argues by minimal counterexample: strict inclusion on
the finite subsets of a set is well-founded (`FS_StrictSubsetOrderingWellFounded`), and
`WFMin` takes a set. From it follow that a sum exists, is unique and does not depend
on the order in which elements are taken, and `TotalEmpty`, `TotalAppend`: what `NoFalseAlarm`, `FanOutExact`, the refinement and `Scoring` need.

**Only model-checked.** Liveness (`AcceptedRunsEnd`, `SandboxesReclaimed`, `TelemetryGetsVerdict`,
`PagesCatchUp`, `ClosedSocketsLeave`), which the prover does not do. The
properties of `Conformance` and `ProbeLeavesNothing`: they are computations on one
fixed scenario of ten steps, which TLC evaluates for all engines and all places and
orders of up to two lost answers or late requests; constants do not add cases.

## Not modelled

* Deployment files: configuration; replica counts and restarts are constants and
  faults here.
* Core pinning: a hash of the submission that no other step reads.
* Markup and the run list of the web page.
* Parsing of HTTP, multipart forms and JSON: a malformed request is one refusal.
* `docker` itself: build, start and health check go either way; quotas and network
  isolation are flags passed through.
* Failing `HSET`, `ZADD`, `SET` and `LPUSH` (the code drops these errors; `Feed` has
  the `SET` of the snapshot), failing `HGET`s, repeated `XADD`s of `RunJob` and `LoadShard`, and a
  Redis that loses data.
* Data races on memory: a read without the lock has the value of some moment.
* Floating-point rounding in the histogram and the score, 64-bit overflow of
  counters.
* In `Arena` metrics are sets of deltas and scores arbitrary; `Scoring` has the
  numbers. The two are not composed.

## Plan

1. Done: the book and its abstract specification; the life of a run through the
   four services; the inside of the services; the Python book; the theorems above.
2. Left to TLC: liveness and the fixed scenario of the probe. A change of the code
   starts with its module and its run; the proofs say which lemma the change breaks.
