----------------------------- MODULE PythonBook -----------------------------
(***************************************************************************)
(* The example engine in Python, examples/python-orderbook/engine.py.  Its *)
(* submit() is that of MatchingBook up to the place where an order comes   *)
(* to rest: _rest() appends a new level and sorts the side, and cancel()   *)
(* rebuilds the queue without the order.  Both run under the book's lock.  *)
(***************************************************************************)
EXTENDS MatchingBook

(* list.sort(key): smallest key first, and equal keys as they stood.  An   *)
(* element's place is the number of those up to it.                        *)
SortedBy(lvs, key) ==
    LET at == Promise!InOrder([i \in DOMAIN lvs |-> Promise!Cardinality(
                 {j \in DOMAIN lvs : key[j] < key[i] \/ (key[j] = key[i] /\ j <= i)})])
    IN  [k \in DOMAIN at |-> lvs[at[k]]]

(* Mutant of SortedSide: both sides in ascending order. *)
SortedAscending(lvs, s) == SortedBy(lvs, [i \in DOMAIN lvs |-> lvs[i].price])

(* book.sort(key=price, reverse=(side == "buy")) *)
SortedSide(lvs, s) ==
    SortedBy(lvs, [i \in DOMAIN lvs |-> IF s = "buy" THEN -lvs[i].price ELSE lvs[i].price])

(* _rest() *)
RestSorted(o, qty) ==
    LET lvs == levels[o.side]
        r == [id |-> o.id, qty |-> qty]
    IN  /\ byID' = [byID EXCEPT ![o.id] = [side |-> o.side, price |-> o.price]]
        /\ levels' = [levels EXCEPT ![o.side] =
              IF \E i \in DOMAIN lvs : lvs[i].price = o.price
              THEN [i \in DOMAIN lvs |->
                      IF lvs[i].price = o.price THEN [lvs[i] EXCEPT !.queue = Append(@, r)]
                      ELSE lvs[i]]
              ELSE SortedSide(Append(lvs, [price |-> o.price, queue |-> <<r>>]), o.side)]

(* The end of submit(). *)
PySubmitReturns ==
    /\ call # NoCall
    /\ ~LoopContinues
    /\ Reply(call.o.id, seq, FinalStatus(call.o, call.remaining), call.fills)
    /\ IF call.remaining > 0 /\ call.o.type = "limit"
       THEN RestSorted(call.o, call.remaining)
       ELSE UNCHANGED <<levels, byID>>
    /\ call' = NoCall
    /\ UNCHANGED seq

(* The queue of price p without the order, and the side without that level *)
(* if nothing is left of it.                                               *)
Rebuilt(lvs, p, id) ==
    LET rebuilt == [i \in DOMAIN lvs |->
                      IF lvs[i].price = p
                      THEN [lvs[i] EXCEPT !.queue =
                              Promise!Kept(@, {k \in DOMAIN lvs[i].queue : lvs[i].queue[k].id # id})]
                      ELSE lvs[i]]
    IN  Promise!Kept(rebuilt, {i \in DOMAIN lvs : lvs[i].price = p => rebuilt[i].queue # <<>>})

(* cancel() of a known id *)
PyCancel(id) ==
    /\ NextSeq
    /\ byID[id] # NoEntry
    /\ byID' = [byID EXCEPT ![id] = NoEntry]
    /\ levels' = [levels EXCEPT ![byID[id].side] = Rebuilt(@, byID[id].price, id)]
    /\ Reply(id, seq + 1, "canceled", <<>>)
    /\ UNCHANGED call

PyNext ==
    \/ \E o \in Order : SubmitRejected(o) \/ SubmitAccepted(o)
    \/ FillBest
    \/ PySubmitReturns
    \/ \E id \in Ids : CancelUnknown(id) \/ PyCancel(id)

PySpec == Init /\ [][PyNext]_vars
=============================================================================
