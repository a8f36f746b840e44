--------------------------- MODULE PriceTimeBook ---------------------------
(***************************************************************************)
(* What a limit order book promises its callers: price-time priority,      *)
(* integer ticks, immediate-or-cancel market orders.  There are no levels, *)
(* no index and no loop here.  The book is one FIFO queue per side and     *)
(* tick, and an accepted order trades, in one step, with the orders that   *)
(* are ahead of everybody else: a better price first, then an earlier      *)
(* place in the queue of that price.                                       *)
(*                                                                         *)
(* MatchingBook, the translation of internal/matching/book.go, is shown to *)
(* implement this module.                                                  *)
(***************************************************************************)
EXTENDS Integers, Sequences, FiniteSets, SequencesExt

CONSTANTS Ids,      \* order identifiers
          Prices,   \* ticks an order may carry, invalid ones included
          Qtys,     \* quantities an order may carry, invalid ones included
          MaxSeq    \* bound: calls per behaviour

VARIABLES queue,    \* queue[side][tick]: the FIFO of resting orders
          seq,      \* calls answered so far
          ack       \* the answer to the last call

abstractVars == <<queue, seq, ack>>

Side  == {"buy", "sell"}
Ticks == {p \in Prices : p > 0}
Opposite(s) == IF s = "buy" THEN "sell" ELSE "buy"

(* Price p is served before price q when both rest on side s. *)
Ahead(s, p, q) == IF s = "buy" THEN p > q ELSE p < q

(* Order o may trade at tick p. *)
Acceptable(o, p) ==
    \/ o.type = "market"
    \/ p = o.price
    \/ Ahead(Opposite(o.side), p, o.price)

Order == [id : Ids, side : Side \cup {"none"}, type : {"limit", "market", "none"},
          price : Prices, qty : Qtys]

Live == {i \in Ids : \E s \in Side, p \in Ticks :
                        \E k \in DOMAIN queue[s][p] : queue[s][p][k].id = i}

Admissible(o) ==
    /\ o.qty > 0
    /\ o.side \in Side
    /\ o.type \in {"limit", "market"}
    /\ o.type = "limit" => o.price > 0
    /\ o.id \notin Live

-----------------------------------------------------------------------------
(* Sorting and filtering, by places: an element's place is the number of   *)
(* those up to it.  The proofs reason about places; sorting and SelectSeq  *)
(* are opaque to them.                                                     *)

(* The elements of DOMAIN place in the order of their places.              *)
InOrder(place) == Inverse(place, DOMAIN place, 1 .. Cardinality(DOMAIN place))

(* Sequence s without the places outside D.                                *)
Kept(s, D) ==
    LET at == InOrder([k \in D |-> Cardinality({j \in D : j <= k})])
    IN  [i \in DOMAIN at |-> s[at[i]]]

-----------------------------------------------------------------------------
(* What order o does to the queues of the other side, q.  A maker is named *)
(* by its tick and its place in the queue of that tick.                    *)
Makers(q, o) == UNION {{p} \X DOMAIN q[p] : p \in {t \in Ticks : Acceptable(o, t)}}

Resting(q, m) == q[m[1]][m[2]]

Before(o, m, n) ==
    \/ Ahead(Opposite(o.side), m[1], n[1])
    \/ m[1] = n[1] /\ m[2] < n[2]

(* The quantity that rests with a set of makers. *)
Volume(q, M) == MapThenSumSet(LAMBDA m : Resting(q, m).qty, M)

(* What is left for maker m once those before it have traded, if they do. *)
Traded(q, o, m) ==
    LET ahead == Volume(q, {n \in Makers(q, o) : Before(o, n, m)})
    IN  Max({0, Min({Resting(q, m).qty, o.qty - ahead})})

Hit(q, o) == {m \in Makers(q, o) : Traded(q, o, m) > 0}

Total(q, o) == Min({o.qty, Volume(q, Makers(q, o))})

Fills(q, o) ==
    LET hit == InOrder([m \in Hit(q, o) |->
                  Cardinality({n \in Hit(q, o) : n = m \/ Before(o, n, m)})])
    IN  [k \in DOMAIN hit |-> [price |-> hit[k][1], qty |-> Traded(q, o, hit[k]),
                               maker_id |-> Resting(q, hit[k]).id]]

(* What is left of the queue at tick p once o has traded. *)
Reduced(q, o, p) ==
    LET left == [k \in DOMAIN q[p] |->
                    IF <<p, k>> \in Hit(q, o)
                    THEN [q[p][k] EXCEPT !.qty = @ - Traded(q, o, <<p, k>>)]
                    ELSE q[p][k]]
    IN  Kept(left, {k \in DOMAIN left : left[k].qty > 0})

StatusOf(q, o) ==
    CASE Total(q, o) = o.qty                     -> "filled"
      [] Total(q, o) \in 1 .. o.qty - 1          -> "partial"
      [] Total(q, o) = 0 /\ o.type = "market"    -> "canceled"
      [] Total(q, o) = 0 /\ o.type = "limit"     -> "resting"

-----------------------------------------------------------------------------
Init ==
    /\ queue = [s \in Side |-> [p \in Ticks |-> <<>>]]
    /\ seq = 0
    /\ ack = [order_id |-> "none", seq |-> 0, status |-> "none", fills |-> <<>>]

(* Every call is answered under its own id and the next sequence number. *)
Answer(id, status, fills) ==
    /\ ack'.status = status
    /\ ack' = [order_id |-> id, seq |-> seq + 1, status |-> status, fills |-> fills]

Reject(id) ==
    /\ Answer(id, "rejected", <<>>)
    /\ \E o \in Order : o.id = id /\ ~Admissible(o)
    /\ UNCHANGED queue

Accept(o) ==
    LET q    == queue[Opposite(o.side)]
        rest == IF o.type = "limit" /\ Total(q, o) < o.qty
                THEN <<[id |-> o.id, qty |-> o.qty - Total(q, o)]>>
                ELSE <<>>
    IN  /\ Admissible(o)
        /\ Answer(o.id, StatusOf(q, o), Fills(q, o))
        /\ queue' = [queue EXCEPT
                        ![Opposite(o.side)] = [p \in Ticks |-> Reduced(q, o, p)],
                        ![o.side] = [p \in Ticks |->
                            IF p = o.price THEN @[p] \o rest ELSE @[p]]]

Cancel(id) ==
    /\ Answer(id, IF id \in Live THEN "canceled" ELSE "unknown", <<>>)
    /\ queue' = [s \in Side |-> [p \in Ticks |->
                    Kept(queue[s][p], {k \in DOMAIN queue[s][p] : queue[s][p][k].id # id})]]

Next ==
    /\ seq < MaxSeq
    /\ seq' = seq + 1
    /\ \E id \in Ids :
          /\ ack'.order_id = id
          /\ \/ Reject(id)
             \/ Cancel(id)
             \/ \E o \in Order : o.id = id /\ Accept(o)

Spec == Init /\ [][Next]_abstractVars
=============================================================================
