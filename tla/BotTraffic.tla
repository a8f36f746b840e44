----------------------------- MODULE BotTraffic -----------------------------
(***************************************************************************)
(* The bots of cmd/botfleet against the example engine.  A bot is a serial *)
(* client: it sends an order or cancels one of its own, waits for the ack  *)
(* or for the two seconds of its HTTP client, checks the ack and goes on.  *)
(* A request that timed out is not withdrawn: the engine may serve it      *)
(* before or after the requests that follow it, or never.                  *)
(*                                                                         *)
(*   bot[b]   the locals of bot(): n, resting, lastSeq; how many requests  *)
(*            it has made, and whether it waits for the last of them;      *)
(*   alarms   the verdicts reported, each with the engine's own knowledge  *)
(*            of whether it had mangled that ack;                          *)
(*   timeouts how many requests timed out.                                 *)
(***************************************************************************)
EXTENDS ReferenceEngine

CONSTANTS Bots,          \* the bots
          MaxRequests,   \* bound: requests before the deadline, of all bots
          MaxTimeouts,   \* bound: requests that time out
          RestingCap     \* the cap on a bot's list of resting orders (50)

VARIABLES bot, alarms, timeouts

trafficVars == <<levels, byID, seq, call, ack, inflight, bot, alarms, timeouts>>

TrafficInit ==
    /\ EngineInit
    /\ bot = [b \in Bots |-> [waiting |-> FALSE, turn |-> 0, n |-> 0,
                              resting |-> {}, lastSeq |-> 0]]
    /\ alarms = {}
    /\ timeouts = 0

(* Mutant of OrderID: the index of the bot is left out. *)
OrderIDWithoutBot(b, n) == <<CHOOSE x \in Bots : TRUE, n>>

(* "b%d-%d-%d" of the shard, which is one here, the bot and n. *)
OrderID(b, n) == <<b, n>>

(* What bot() draws: quantities are positive, a market order has price 0,  *)
(* and what it formats is an id.                                           *)
ASSUME TrafficAssumption ==
    /\ IsFiniteSet(Bots) /\ MaxRequests \in Nat
    /\ Qtys \subseteq Nat \ {0}
    /\ 0 \in Prices
    /\ \A b \in Bots, n \in 0 .. MaxRequests - 1 : OrderID(b, n) \in Ids

Ready(b) ==
    /\ ~bot[b].waiting
    /\ MapThenSumSet(LAMBDA x : bot[x].turn, Bots) < MaxRequests

Waits(b) == [bot[b] EXCEPT !.waiting = TRUE, !.turn = @ + 1]

SendsOrder(b, o) ==
    /\ Ready(b)
    /\ o.id = OrderID(b, bot[b].n)
    /\ bot' = [bot EXCEPT ![b] = [Waits(b) EXCEPT !.n = @ + 1]]
    /\ inflight' = inflight \cup {Request(b, bot[b].turn, "post", o)}
    /\ UNCHANGED <<levels, byID, seq, call, ack, alarms, timeouts>>

(* A market order carries no price. *)
MarketSweep(b) ==
    \E s \in Side, q \in Qtys :
        SendsOrder(b, [id |-> OrderID(b, bot[b].n), side |-> s, type |-> "market",
                       price |-> 0, qty |-> q])

(* The price walks around the mid and is at least 1. *)
LimitOrder(b) ==
    \E s \in Side, q \in Qtys, p \in Prices :
        /\ p >= 1
        /\ SendsOrder(b, [id |-> OrderID(b, bot[b].n), side |-> s, type |-> "limit",
                          price |-> p, qty |-> q])

(* The order leaves the list before the answer is known. *)
CancelOwn(b) ==
    \E id \in bot[b].resting :
        /\ Ready(b)
        /\ bot' = [bot EXCEPT ![b] = [Waits(b) EXCEPT !.resting = @ \ {id}]]
        /\ inflight' = inflight \cup
              {Request(b, bot[b].turn, "delete",
                       [id |-> id, side |-> "none", type |-> "none", price |-> 0, qty |-> 0])}
        /\ UNCHANGED <<levels, byID, seq, call, ack, alarms, timeouts>>

(* cli.Do() returns an error: nothing is checked and nothing is remembered. *)
Timeout(b) ==
    /\ bot[b].waiting
    /\ timeouts < MaxTimeouts
    /\ timeouts' = timeouts + 1
    /\ bot' = [bot EXCEPT ![b].waiting = FALSE]
    /\ UNCHANGED <<engineVars, alarms>>

-----------------------------------------------------------------------------
Filled(a) == FoldSeq(LAMBDA f, sum : sum + f.qty, 0, a.fills)

(* validate() *)
Validate(o, a) ==
    {v \in {"above limit", "below limit", "overfill", "short fill"} :
        CASE v = "above limit" -> /\ o.type = "limit" /\ o.side = "buy"
                                  /\ \E i \in DOMAIN a.fills : a.fills[i].price > o.price
          [] v = "below limit" -> /\ o.type = "limit" /\ o.side = "sell"
                                  /\ \E i \in DOMAIN a.fills : a.fills[i].price < o.price
          [] v = "overfill"    -> Filled(a) > o.qty
          [] v = "short fill"  -> a.status = "filled" /\ Filled(a) # o.qty}

(* Mutant of CheckSeq: the last number seen by any bot of the shard. *)
CheckSeqShared(b, a) ==
    IF \E x \in Bots : a.seq <= bot[x].lastSeq THEN {"seq regression"} ELSE {}

(* checkSeq() *)
CheckSeq(b, a) == IF a.seq <= bot[b].lastSeq THEN {"seq regression"} ELSE {}

Verdicts(b, r) ==
    CheckSeq(b, r.ack) \cup
    IF r.method = "delete"
    THEN IF r.ack.status \in {"canceled", "unknown"} THEN {} ELSE {"cancel status"}
    ELSE Validate(r.o, r.ack) \cup (IF r.ack.order_id = r.o.id THEN {} ELSE {"order_id"})

(* The ack arrives in time. *)
Receive(b, r) ==
    /\ bot[b].waiting
    /\ r.bot = b /\ r.at = "replied" /\ r.turn = bot[b].turn - 1
    /\ alarms' = alarms \cup {[kind |-> v, mangled |-> r.mangled] : v \in Verdicts(b, r)}
    /\ LET keeps == /\ r.method = "post" /\ r.o.type = "limit"
                    /\ r.ack.status \in {"resting", "partial"}
                    /\ Cardinality(bot[b].resting) < RestingCap
       IN  bot' = [bot EXCEPT ![b].waiting = FALSE, ![b].lastSeq = r.ack.seq,
                              ![b].resting = IF keeps THEN @ \cup {r.o.id} ELSE @]
    /\ inflight' = inflight \ {r}
    /\ UNCHANGED <<levels, byID, seq, call, ack, timeouts>>

BotNext(b) ==
    MarketSweep(b) \/ LimitOrder(b) \/ CancelOwn(b) \/ Timeout(b) \/ \E r \in inflight : Receive(b, r)

TrafficNext ==
    \/ \E b \in Bots : BotNext(b)
    \/ EngineNext /\ UNCHANGED <<bot, alarms, timeouts>>

TrafficSpec == TrafficInit /\ [][TrafficNext]_trafficVars

-----------------------------------------------------------------------------
(* A contestant is charged only for what its engine did: every verdict     *)
(* concerns an ack that the engine mangled.  In particular neither a       *)
(* timeout, nor the late service of the request behind it, nor the other   *)
(* bots' traffic in between makes a correct engine look out of order.      *)
NoFalseAlarm == \A v \in alarms : v.mangled

(* The load consists of orders that a correct engine takes: whatever timed *)
(* out before, no order of a bot meets the id of another one.              *)
NeverRejected == \A r \in inflight : r.ack.status # "rejected"

(* GET /book answers with the top of a book between two calls, as price-   *)
(* time priority prescribes it: the best tick of each side and everything  *)
(* that rests there.                                                       *)
PromisedTop(s) ==
    LET queue(p) == QueueAt(VisibleLevels[s], p)
        ticks == {p \in Tick : queue(p) # <<>>}
        best == CHOOSE p \in ticks : \A q \in ticks : p = q \/ Better(s, p, q)
    IN  IF ticks = {} THEN NoTop
        ELSE [price |-> best,
              qty |-> MapThenSumSet(LAMBDA k : queue(best)[k].qty, DOMAIN queue(best))]

TopIsPromised == call = NoCall => \A s \in Side : Top[s] = PromisedTop(s)
=============================================================================
