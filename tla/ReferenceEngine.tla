--------------------------- MODULE ReferenceEngine ---------------------------
(***************************************************************************)
(* The example engine in Go, examples/reference-engine/main.go: the book   *)
(* of MatchingBook behind HTTP handlers.  Handlers run concurrently and    *)
(* take the book's mutex for a whole call, which is what `call` and        *)
(* NextSeq of MatchingBook express; a reply leaves after the mutex is      *)
(* released, and CHAOS mangles some of the replies.                        *)
(*                                                                         *)
(*   inflight  the requests that were sent, each with its place: "sent",   *)
(*             "called" (inside submit) or "replied", and its answer.      *)
(***************************************************************************)
EXTENDS MatchingBook

CONSTANTS Chaos,       \* CHAOS = 1
          NoTop        \* a side of the book without orders

VARIABLE inflight

engineVars == <<levels, byID, seq, call, ack, inflight>>

NoAck == [order_id |-> "none", seq |-> 0, status |-> "none", fills |-> <<>>]

EngineInit == Init /\ inflight = {}

(* A request of a bot, on its way.  A DELETE carries only the id of o. *)
Request(b, turn, method, o) ==
    [bot |-> b, turn |-> turn, method |-> method, o |-> o,
     at |-> "sent", ack |-> NoAck, mangled |-> FALSE]

(* mangle(): the price of the first fill and the number may be off. *)
Mangled(a) ==
    LET prices == IF a.fills = <<>> THEN {a}
                  ELSE {a, [a EXCEPT !.fills[1].price = @ + 3]}
    IN  IF Chaos THEN prices \cup {[p EXCEPT !.seq = @ - 5] : p \in prices} ELSE {a}

(* reply(), after the mutex is free again. *)
Answer(r, a) ==
    \E m \in Mangled(a) :
        inflight' = (inflight \ {r}) \cup
                    {[r EXCEPT !.at = "replied", !.ack = m, !.mangled = m # a]}

(* submit() up to its loop. *)
PostOrder(r) ==
    /\ r.at = "sent" /\ r.method = "post"
    /\ \/ SubmitRejected(r.o) /\ Answer(r, ack')
       \/ SubmitAccepted(r.o) /\ inflight' = (inflight \ {r}) \cup {[r EXCEPT !.at = "called"]}

(* One iteration of the loop. *)
Match == FillBest /\ UNCHANGED inflight

(* The code after the loop, rest() included. *)
OrderReturns(r) ==
    /\ r.at = "called"
    /\ SubmitReturns
    /\ Answer(r, ack')

DeleteOrder(r) ==
    /\ r.at = "sent" /\ r.method = "delete"
    /\ CancelUnknown(r.o.id) \/ CancelResting(r.o.id)
    /\ Answer(r, ack')

(* Mutant of TopOf: the quantity of the first order only. *)
FirstOf(lvs) ==
    IF lvs = <<>> THEN NoTop ELSE [price |-> lvs[1].price, qty |-> lvs[1].queue[1].qty]

(* The best level and the sum of its queue. *)
TopOf(lvs) ==
    IF lvs = <<>> THEN NoTop
    ELSE [price |-> lvs[1].price,
          qty |-> FoldSeq(LAMBDA r, sum : sum + r.qty, 0, lvs[1].queue)]

(* GET /book changes nothing; like everybody else it waits for the mutex,  *)
(* so it answers when no call is in progress.                              *)
Top == [s \in Side |-> TopOf(levels[s])]

EngineNext == (\E r \in inflight : PostOrder(r) \/ OrderReturns(r) \/ DeleteOrder(r)) \/ Match
=============================================================================
