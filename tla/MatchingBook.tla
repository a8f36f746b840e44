---------------------------- MODULE MatchingBook ----------------------------
(***************************************************************************)
(* The platform's reference limit order book, internal/matching/book.go:   *)
(* the oracle of the conformance probe, and line for line the book of      *)
(* examples/reference-engine.                                              *)
(*                                                                         *)
(*   levels[s]  Book.bids and Book.asks: price levels, best price first,   *)
(*              each with its FIFO queue;                                  *)
(*   byID       Book.byID; an entry keeps the side and the price, which    *)
(*              are all that Cancel reads of a *resting;                   *)
(*   seq        Book.seq;                                                  *)
(*   call       the Submit in progress: the locals `remaining` and         *)
(*              `ack.Fills` of its matching loop;                          *)
(*   ack        the Ack last returned.                                     *)
(*                                                                         *)
(* Submit is a loop, so it takes several steps: SubmitAccepted enters it,  *)
(* FillBest is one iteration and SubmitReturns is the code after it.       *)
(* Nothing runs in between: the probe owns its book, and the engine holds  *)
(* its mutex for the whole call.  Every step is forced by `call`.          *)
(***************************************************************************)
EXTENDS Integers, Sequences, SequencesExt

CONSTANTS Ids,      \* order identifiers
          Prices,   \* ticks an order may carry, invalid ones (<= 0) included
          Qtys,     \* quantities an order may carry, invalid ones included
          NoEntry,  \* byID[i] = NoEntry: i is not a key of the map
          NoCall,   \* call = NoCall: no Submit is in its loop
          MaxSeq    \* bound: calls per behaviour

ASSUME BookAssumption ==
    /\ Prices \subseteq Int
    /\ Qtys \subseteq Int
    /\ MaxSeq \in Nat

VARIABLES levels, byID, seq, call, ack

vars == <<levels, byID, seq, call, ack>>

Side == {"buy", "sell"}
Opp(s) == IF s = "buy" THEN "sell" ELSE "buy"

(* protocol.Order: what may arrive, well-formed or not. *)
Order == [id : Ids, side : Side \cup {"none"}, type : {"limit", "market", "none"},
          price : Prices, qty : Qtys]

(* Price p has strict priority over price q on side s. *)
Better(s, p, q) == IF s = "buy" THEN p > q ELSE p < q

(* Mutant of Invalid: limit orders without a valid price get in. *)
InvalidAnyPrice(o) ==
    o.qty <= 0 \/ o.side \notin Side \/ o.type \notin {"limit", "market"}

Invalid(o) ==
    \/ o.qty <= 0
    \/ o.side \notin Side
    \/ o.type \notin {"limit", "market"}
    \/ o.type = "limit" /\ o.price <= 0

(* Mutant of BeyondLimit: the loop also breaks at the limit price itself. *)
BeyondOrAtLimit(o, p) ==
    o.type = "limit" /\ (p = o.price \/ Better(Opp(o.side), o.price, p))

(* The two `break`s of the matching loop: o does not trade at price p. *)
BeyondLimit(o, p) ==
    o.type = "limit" /\ Better(Opp(o.side), o.price, p)

-----------------------------------------------------------------------------
Init ==
    /\ levels = [s \in Side |-> <<>>]
    /\ byID = [i \in Ids |-> NoEntry]
    /\ seq = 0
    /\ call = NoCall
    /\ ack = [order_id |-> "none", seq |-> 0, status |-> "none", fills |-> <<>>]

(* Every call takes the next sequence number before it does anything else. *)
NextSeq ==
    /\ call = NoCall
    /\ seq < MaxSeq
    /\ seq' = seq + 1

Reply(id, n, status, fills) ==
    ack' = [order_id |-> id, seq |-> n, status |-> status, fills |-> fills]

(* Submit: malformed, or the id is still resting. *)
SubmitRejected(o) ==
    /\ NextSeq
    /\ Invalid(o) \/ byID[o.id] # NoEntry
    /\ Reply(o.id, seq + 1, "rejected", <<>>)
    /\ UNCHANGED <<levels, byID, call>>

(* Submit enters its matching loop.  entry is a history of the levels the  *)
(* loop starts from; no action reads it.                                   *)
SubmitAccepted(o) ==
    /\ NextSeq
    /\ ~Invalid(o)
    /\ byID[o.id] = NoEntry
    /\ call' = [o |-> o, remaining |-> o.qty, fills |-> <<>>, entry |-> levels]
    /\ UNCHANGED <<levels, byID, ack>>

(* The conditions under which the loop goes round once more. *)
LoopContinues ==
    /\ call.remaining > 0
    /\ levels[Opp(call.o.side)] # <<>>
    /\ ~BeyondLimit(call.o, levels[Opp(call.o.side)][1].price)

(* The first maker of the best level gives up q: it leaves the queue when  *)
(* it is exhausted, and its level leaves the book with its last order.     *)
AfterFill(lvs, q) ==
    LET best == lvs[1] IN
    IF best.queue[1].qty # q
    THEN [lvs EXCEPT ![1].queue[1].qty = @ - q]
    ELSE IF Len(best.queue) = 1
         THEN Tail(lvs)
         ELSE [lvs EXCEPT ![1].queue = Tail(@)]

FillBest ==
    /\ call # NoCall
    /\ LoopContinues
    /\ LET opp   == Opp(call.o.side)
           best  == levels[opp][1]
           maker == best.queue[1]
           q     == IF call.remaining <= maker.qty THEN call.remaining ELSE maker.qty
       IN  /\ call' = [call EXCEPT
                  !.remaining = @ - q,
                  !.fills = Append(@, [price |-> best.price, qty |-> q,
                                       maker_id |-> maker.id])]
           /\ levels' = [levels EXCEPT ![opp] = AfterFill(@, q)]
           /\ byID' = IF q = maker.qty THEN [byID EXCEPT ![maker.id] = NoEntry]
                                       ELSE byID
    /\ UNCHANGED <<seq, ack>>

(* Where rest()'s scan stops: at the level of this price, or else at the   *)
(* first level that the new price beats.                                   *)
ScanStops(lvs, s, p, i) ==
    /\ i \in 1 .. Len(lvs) + 1
    /\ \A j \in 1 .. i - 1 : Better(s, lvs[j].price, p)
    /\ i <= Len(lvs) => ~Better(s, lvs[i].price, p)

(* Mutant of RestAt: the newcomer goes to the head of the queue. *)
RestInFront(lvs, i, p, r) ==
    IF i <= Len(lvs) /\ lvs[i].price = p
    THEN [lvs EXCEPT ![i].queue = <<r>> \o @]
    ELSE InsertAt(lvs, i, [price |-> p, queue |-> <<r>>])

RestAt(lvs, i, p, r) ==
    IF i <= Len(lvs) /\ lvs[i].price = p
    THEN [lvs EXCEPT ![i].queue = Append(@, r)]
    ELSE InsertAt(lvs, i, [price |-> p, queue |-> <<r>>])

Rest(o, qty) ==
    /\ byID' = [byID EXCEPT ![o.id] = [side |-> o.side, price |-> o.price]]
    /\ \E i \in 1 .. Len(levels[o.side]) + 1 :
          /\ ScanStops(levels[o.side], o.side, o.price, i)
          /\ levels' = [levels EXCEPT
                ![o.side] = RestAt(@, i, o.price, [id |-> o.id, qty |-> qty])]

(* The switch after the loop. *)
FinalStatus(o, remaining) ==
    CASE remaining = 0                            -> "filled"
      [] remaining > 0 /\ remaining < o.qty       -> "partial"
      [] remaining = o.qty /\ o.type = "market"   -> "canceled"
      [] remaining = o.qty /\ o.type = "limit"    -> "resting"

SubmitReturns ==
    /\ call # NoCall
    /\ ~LoopContinues
    /\ Reply(call.o.id, seq, FinalStatus(call.o, call.remaining), call.fills)
    /\ IF call.remaining > 0 /\ call.o.type = "limit"
       THEN Rest(call.o, call.remaining)
       ELSE UNCHANGED <<levels, byID>>
    /\ call' = NoCall
    /\ UNCHANGED seq

CancelUnknown(id) ==
    /\ NextSeq
    /\ byID[id] = NoEntry
    /\ Reply(id, seq + 1, "unknown", <<>>)
    /\ UNCHANGED <<levels, byID, call>>

(* Mutant of WithoutOrder: an emptied level stays in the book. *)
WithoutOrderOnly(lvs, i, k) == [lvs EXCEPT ![i].queue = RemoveAt(@, k)]

(* The order at place k of level i leaves; an emptied level leaves too. *)
WithoutOrder(lvs, i, k) ==
    IF Len(lvs[i].queue) = 1
    THEN RemoveAt(lvs, i)
    ELSE [lvs EXCEPT ![i].queue = RemoveAt(@, k)]

(* Mutant of StandsAt: Cancel takes the first order of the price. *)
StandsFirst(lvs, p, id, i, k) == i \in DOMAIN lvs /\ lvs[i].price = p /\ k = 1

(* Order id stands at place k of level i, the level of price p. *)
StandsAt(lvs, p, id, i, k) ==
    /\ i \in DOMAIN lvs
    /\ lvs[i].price = p
    /\ k \in DOMAIN lvs[i].queue
    /\ lvs[i].queue[k].id = id

(* Cancel: the key leaves the map whether or not the scan of the levels    *)
(* finds the order.                                                        *)
CancelResting(id) ==
    /\ NextSeq
    /\ byID[id] # NoEntry
    /\ byID' = [byID EXCEPT ![id] = NoEntry]
    /\ LET s  == byID[id].side
           At(i, k) == StandsAt(levels[s], byID[id].price, id, i, k)
       IN  IF \E i \in DOMAIN levels[s] : \E k \in DOMAIN levels[s][i].queue : At(i, k)
           THEN \E i \in DOMAIN levels[s] : \E k \in DOMAIN levels[s][i].queue :
                   /\ At(i, k)
                   /\ levels' = [levels EXCEPT ![s] = WithoutOrder(@, i, k)]
           ELSE UNCHANGED levels
    /\ Reply(id, seq + 1, "canceled", <<>>)
    /\ UNCHANGED call

Next ==
    \/ \E o \in Order : SubmitRejected(o) \/ SubmitAccepted(o)
    \/ FillBest
    \/ SubmitReturns
    \/ \E id \in Ids : CancelUnknown(id) \/ CancelResting(id)

Spec == Init /\ [][Next]_vars

-----------------------------------------------------------------------------
Tick      == {p \in Prices : p > 0}
Entry     == [side : Side, price : Tick]
Resting   == [id : Ids, qty : Nat \ {0}]
Level     == [price : Tick, queue : Seq(Resting)]
Levels    == [Side -> Seq(Level)]
Fill      == [price : Tick, qty : Nat \ {0}, maker_id : Ids]
Call      == [o : Order, remaining : Nat, fills : Seq(Fill), entry : Levels]
Status    == {"none", "resting", "partial", "filled", "rejected", "canceled", "unknown"}

(* No entry is taken for a missing key, and no call for none. *)
ASSUME NothingAssumption == NoEntry \notin Entry /\ NoCall \notin Call

(* The shape of the state of Book and of the locals of Submit. *)
TypeOK ==
    /\ levels \in Levels
    /\ byID \in [Ids -> Entry \cup {NoEntry}]
    /\ seq \in Nat
    /\ call \in Call \cup {NoCall}
    /\ ack \in [order_id : Ids \cup {"none"}, seq : Nat, status : Status,
                fills : Seq(Fill)]

(* Both sides stay sorted, best price first and without two levels of one  *)
(* price, through every insertion of rest() and every removal: Submit      *)
(* takes levels[s][1] to be the best price without looking further.        *)
LevelsSorted ==
    \A s \in Side : \A i, j \in DOMAIN levels[s] :
        i < j => Better(s, levels[s][i].price, levels[s][j].price)

(* No level outlives its last order: Submit's inner loop and the top of    *)
(* the book both read queue[0] of the first level.                         *)
NoEmptyLevel ==
    \A s \in Side : \A i \in DOMAIN levels[s] : levels[s][i].queue # <<>>

(* The book is never crossed, not even in the middle of a Submit: every    *)
(* resting bid is strictly below every resting ask.                        *)
Uncrossed ==
    \A i \in DOMAIN levels["buy"], j \in DOMAIN levels["sell"] :
        levels["buy"][i].price < levels["sell"][j].price

(* The map and the queues tell one story: an id is a key of byID exactly   *)
(* when it rests at one place, on the side and at the price of its entry.  *)
(* Cancel finds an order through the map, Submit through the queues.       *)
IndexExact ==
    /\ \A s \in Side : \A i \in DOMAIN levels[s] :
          \A k \in DOMAIN levels[s][i].queue :
             byID[levels[s][i].queue[k].id] = [side |-> s, price |-> levels[s][i].price]
    /\ \A s \in Side : \A i \in DOMAIN levels[s] :
          \A k, l \in DOMAIN levels[s][i].queue :
             levels[s][i].queue[k].id = levels[s][i].queue[l].id => k = l
    /\ \A id \in Ids : byID[id] # NoEntry =>
          \E i \in DOMAIN levels[byID[id].side] :
             \E k \in DOMAIN levels[byID[id].side][i].queue :
                levels[byID[id].side][i].queue[k].id = id

-----------------------------------------------------------------------------
(* The book as a caller sees it: until the Submit in progress returns, the *)
(* book it started from.                                                   *)
QueueAt(lvs, p) ==
    IF \E i \in DOMAIN lvs : lvs[i].price = p
    THEN lvs[CHOOSE i \in DOMAIN lvs : lvs[i].price = p].queue
    ELSE <<>>

VisibleLevels == IF call = NoCall THEN levels ELSE call.entry

Promise == INSTANCE PriceTimeBook WITH
    queue <- [s \in Side |-> [p \in Tick |-> QueueAt(VisibleLevels[s], p)]],
    seq   <- IF call = NoCall THEN seq ELSE seq - 1

(* The loops, levels and index of book.go implement price-time priority:   *)
(* every ack carries the fills, in the order and with the quantities, that *)
(* PriceTimeBook prescribes, and the book left behind is the one it        *)
(* prescribes.                                                             *)
ImplementsPriceTime == Promise!Spec
=============================================================================
