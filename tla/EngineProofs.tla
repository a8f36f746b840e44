---------------------------- MODULE EngineProofs ----------------------------
(***************************************************************************)
(* Theorems about the order book and the traffic that goes to it, for any  *)
(* identifiers, prices, quantities and bots, any number of calls, requests *)
(* and timeouts, with and without CHAOS.  In this order:                   *)
(*                                                                         *)
(*   MatchingBook   its levels stay in order (BookInv), its map agrees     *)
(*                  with its queues (IndexInv), and it implements          *)
(*                  PriceTimeBook: LoopInv says which makers the loop of   *)
(*                  Submit has traded with, and that they are those that   *)
(*                  PriceTimeBook puts first;                              *)
(*   PythonBook     its steps are steps of MatchingBook;                   *)
(*   BotTraffic     TrafficInv is the inductive invariant.  A request      *)
(*                  keeps its id and its turn to itself (Numbered, Fresh), *)
(*                  the one inside submit() is the one the book works on,  *)
(*                  and the fills and the remainder of its call make up    *)
(*                  the order (Served), and what the engine answered       *)
(*                  truthfully passes validate() and is above every number *)
(*                  that the bot has seen (Truthful).                      *)
(***************************************************************************)
EXTENDS BotTraffic, PythonBook, SumProofs, SequenceTheorems, TLAPS

-----------------------------------------------------------------------------
(* Sequences with an element more or less. *)

LEMMA InsertAtIs ==
    ASSUME NEW T, NEW q \in Seq(T), NEW i \in 1 .. Len(q) + 1, NEW e \in T
    PROVE  /\ InsertAt(q, i, e) \in Seq(T)
           /\ Len(InsertAt(q, i, e)) = Len(q) + 1
           /\ \A j \in 1 .. i - 1 : InsertAt(q, i, e)[j] = q[j]
           /\ InsertAt(q, i, e)[i] = e
           /\ \A j \in i + 1 .. Len(q) + 1 : InsertAt(q, i, e)[j] = q[j - 1]
<1> DEFINE l == SubSeq(q, 1, i - 1)
           r == SubSeq(q, i, Len(q))
<1>1. l \in Seq(T) /\ Len(l) = i - 1 /\ \A j \in 1 .. i - 1 : l[j] = q[j]
    OBVIOUS
<1>2. /\ r \in Seq(T) /\ Len(r) = Len(q) + 1 - i
      /\ \A j \in 1 .. Len(q) + 1 - i : r[j] = q[j + i - 1]
    OBVIOUS
<1>3. <<e>> \in Seq(T) /\ Len(<<e>>) = 1 /\ <<e>>[1] = e
    OBVIOUS
<1>4. InsertAt(q, i, e) = (l \o <<e>>) \o r
    BY DEF InsertAt
<1> HIDE DEF l, r
<1>5. /\ l \o <<e>> \in Seq(T) /\ Len(l \o <<e>>) = i
      /\ \A j \in 1 .. i - 1 : (l \o <<e>>)[j] = q[j]
      /\ (l \o <<e>>)[i] = e
    BY <1>1, <1>3
<1> DEFINE le == l \o <<e>>
<1> HIDE DEF le
<1>6. /\ le \o r \in Seq(T) /\ Len(le \o r) = Len(q) + 1
      /\ \A j \in 1 .. i : (le \o r)[j] = le[j]
      /\ \A j \in i + 1 .. Len(q) + 1 : (le \o r)[j] = r[j - i]
    <2>1. le \in Seq(T) /\ Len(le) = i /\ r \in Seq(T) /\ Len(r) = Len(q) + 1 - i
        BY <1>2, <1>5 DEF le
    <2>2. le \o r \in Seq(T) /\ Len(le \o r) = Len(q) + 1
        BY <2>1
    <2>3. \A j \in 1 .. i : (le \o r)[j] = le[j]
        BY <2>1
    <2>4. \A j \in i + 1 .. Len(q) + 1 : (le \o r)[j] = r[j - i]
        BY <2>1
    <2> QED BY <2>2, <2>3, <2>4
<1>7. ASSUME NEW j \in i + 1 .. Len(q) + 1
      PROVE  r[j - i] = q[j - 1]
    <2>1. j - i \in 1 .. Len(q) + 1 - i /\ (j - i) + i - 1 = j - 1
        OBVIOUS
    <2> QED BY <1>2, <2>1
<1> QED BY <1>4, <1>5, <1>6, <1>7 DEF le

LEMMA RemoveAtIs ==
    ASSUME NEW T, NEW q \in Seq(T), NEW i \in 1 .. Len(q)
    PROVE  /\ RemoveAt(q, i) \in Seq(T)
           /\ Len(RemoveAt(q, i)) = Len(q) - 1
           /\ \A j \in 1 .. Len(q) - 1 :
                 RemoveAt(q, i)[j] = IF j < i THEN q[j] ELSE q[j + 1]
<1> DEFINE l == SubSeq(q, 1, i - 1)
           r == SubSeq(q, i + 1, Len(q))
<1>1. l \in Seq(T) /\ Len(l) = i - 1 /\ \A j \in 1 .. i - 1 : l[j] = q[j]
    OBVIOUS
<1>2. /\ r \in Seq(T) /\ Len(r) = Len(q) - i
      /\ \A j \in 1 .. Len(q) - i : r[j] = q[j + i]
    OBVIOUS
<1>3. RemoveAt(q, i) = l \o r
    BY DEF RemoveAt
<1> HIDE DEF l, r
<1>4. /\ l \o r \in Seq(T) /\ Len(l \o r) = Len(q) - 1
      /\ \A j \in 1 .. i - 1 : (l \o r)[j] = l[j]
      /\ \A j \in i .. Len(q) - 1 : (l \o r)[j] = r[j - (i - 1)]
    <2>1. /\ l \o r \in Seq(T) /\ Len(l \o r) = Len(l) + Len(r)
          /\ \A j \in 1 .. Len(l) + Len(r) :
                (l \o r)[j] = IF j <= Len(l) THEN l[j] ELSE r[j - Len(l)]
        BY <1>1, <1>2, ConcatProperties
    <2>2. Len(l) + Len(r) = Len(q) - 1
        BY <1>1, <1>2
    <2> QED BY <1>1, <2>1, <2>2
<1>5. ASSUME NEW j \in i .. Len(q) - 1
      PROVE  r[j - (i - 1)] = q[j + 1]
    <2>1. j - (i - 1) \in 1 .. Len(q) - i /\ (j - (i - 1)) + i = j + 1
        OBVIOUS
    <2> QED BY <1>2, <2>1
<1>6. \A j \in 1 .. Len(q) - 1 : j < i => (l \o r)[j] = q[j]
    BY <1>1, <1>4
<1>7. ASSUME NEW j \in 1 .. Len(q) - 1, ~(j < i)
      PROVE  (l \o r)[j] = q[j + 1]
    <2>1. j \in i .. Len(q) - 1
        BY <1>7
    <2> QED BY <1>4, <1>5, <2>1
<1> QED BY <1>3, <1>4, <1>6, <1>7

-----------------------------------------------------------------------------
(* What Submit and Cancel rely on for one side of the book. *)
Ordered(s, lvs) ==
    \A i, j \in 1 .. Len(lvs) : i < j => Better(s, lvs[i].price, lvs[j].price)

NoneEmpty(lvs) == \A i \in 1 .. Len(lvs) : lvs[i].queue # <<>>

SideOK(s, lvs) == lvs \in Seq(Level) /\ Ordered(s, lvs) /\ NoneEmpty(lvs)

(* Every price of lvs is a price of old, or p. *)
PricesFrom(lvs, old, p) ==
    \A i \in 1 .. Len(lvs) :
        lvs[i].price = p \/ \E j \in 1 .. Len(old) : lvs[i].price = old[j].price

LEMMA LevelIs ==
    ASSUME NEW s \in Side, NEW lvs, SideOK(s, lvs), NEW i \in 1 .. Len(lvs)
    PROVE  /\ lvs[i] \in Level
           /\ lvs[i].price \in Tick
           /\ lvs[i].queue \in Seq(Resting)
           /\ lvs[i].queue # <<>>
<1>1. lvs[i] \in Level
    BY DEF SideOK
<1>2. lvs[i].price \in Tick /\ lvs[i].queue \in Seq(Resting)
    BY <1>1 DEF Level
<1>3. lvs[i].queue # <<>>
    BY DEF SideOK, NoneEmpty
<1> QED BY <1>1, <1>2, <1>3

(* A level gets another queue. *)
Requeued(lvs, i, qu) == [lvs EXCEPT ![i].queue = qu]

LEMMA RequeueOK ==
    ASSUME NEW s \in Side, NEW lvs, SideOK(s, lvs), NEW i \in 1 .. Len(lvs),
           NEW qu \in Seq(Resting), qu # <<>>, NEW p
    PROVE  SideOK(s, Requeued(lvs, i, qu)) /\ PricesFrom(Requeued(lvs, i, qu), lvs, p)
<1> DEFINE new == Requeued(lvs, i, qu)
           lv  == [lvs[i] EXCEPT !.queue = qu]
<1>1. lvs \in Seq(Level) /\ lvs[i] \in Level
    BY LevelIs DEF SideOK
<1>2. lv \in Level /\ lv.price = lvs[i].price /\ lv.queue = qu
    BY <1>1 DEF Level
<1>3. new = [lvs EXCEPT ![i] = lv]
    BY DEF Requeued
<1> HIDE DEF new, lv
<1>4. /\ new \in Seq(Level) /\ Len(new) = Len(lvs)
      /\ \A j \in 1 .. Len(lvs) : new[j] = IF j = i THEN lv ELSE lvs[j]
    BY <1>1, <1>2, <1>3, ExceptSeq
<1>5. \A j \in 1 .. Len(lvs) : new[j].price = lvs[j].price
    BY <1>2, <1>4
<1>6. Ordered(s, new)
    BY <1>4, <1>5 DEF SideOK, Ordered
<1>7. NoneEmpty(new)
    BY <1>2, <1>4 DEF SideOK, NoneEmpty
<1>8. PricesFrom(new, lvs, p)
    BY <1>4, <1>5 DEF PricesFrom
<1> QED BY <1>4, <1>6, <1>7, <1>8 DEF SideOK, new

(* A level leaves. *)
LEMMA RemoveLevelOK ==
    ASSUME NEW s \in Side, NEW lvs, SideOK(s, lvs), NEW i \in 1 .. Len(lvs), NEW p
    PROVE  SideOK(s, RemoveAt(lvs, i)) /\ PricesFrom(RemoveAt(lvs, i), lvs, p)
<1> DEFINE new == RemoveAt(lvs, i)
<1>1. lvs \in Seq(Level) /\ Len(lvs) \in Nat
    BY DEF SideOK
<1>2. /\ new \in Seq(Level) /\ Len(new) = Len(lvs) - 1
      /\ \A j \in 1 .. Len(lvs) - 1 : new[j] = IF j < i THEN lvs[j] ELSE lvs[j + 1]
    BY <1>1, RemoveAtIs
<1> HIDE DEF new
<1>3. Ordered(s, new)
    <2> SUFFICES ASSUME NEW j \in 1 .. Len(new), NEW k \in 1 .. Len(new), j < k
                 PROVE  Better(s, new[j].price, new[k].price)
        BY DEF Ordered
    <2> DEFINE jj == IF j < i THEN j ELSE j + 1
               kk == IF k < i THEN k ELSE k + 1
    <2>1. jj \in 1 .. Len(lvs) /\ kk \in 1 .. Len(lvs) /\ jj < kk
        BY <1>1, <1>2
    <2>2. new[j] = lvs[jj] /\ new[k] = lvs[kk]
        BY <1>2
    <2> HIDE DEF jj, kk
    <2> QED BY <2>1, <2>2 DEF SideOK, Ordered
<1>4. \A j \in 1 .. Len(new) : \E k \in 1 .. Len(lvs) : new[j] = lvs[k]
    <2> TAKE j \in 1 .. Len(new)
    <2>1. j \in 1 .. Len(lvs) /\ j + 1 \in 1 .. Len(lvs)
        BY <1>1, <1>2
    <2> QED BY <1>2, <2>1
<1> QED BY <1>2, <1>3, <1>4 DEF SideOK, NoneEmpty, PricesFrom, new

(* One fill leaves the opposite side in order. *)
LEMMA AfterFillOK ==
    ASSUME NEW s \in Side, NEW lvs, SideOK(s, lvs), lvs # <<>>,
           NEW q \in 1 .. lvs[1].queue[1].qty, NEW p
    PROVE  SideOK(s, AfterFill(lvs, q)) /\ PricesFrom(AfterFill(lvs, q), lvs, p)
<1> DEFINE qu == lvs[1].queue
<1>1. lvs \in Seq(Level) /\ 1 \in 1 .. Len(lvs)
    BY DEF SideOK
<1>2. qu \in Seq(Resting) /\ qu # <<>>
    BY <1>1, LevelIs
<1>3. 1 \in 1 .. Len(qu) /\ qu[1] \in Resting /\ qu[1].qty \in Nat \ {0}
    <2> HIDE DEF qu
    <2>1. 1 \in 1 .. Len(qu) /\ qu[1] \in Resting
        BY <1>2
    <2> QED BY <2>1 DEF Resting
<1>4. CASE qu[1].qty # q
    <2> DEFINE nq == [qu EXCEPT ![1].qty = @ - q]
               nr == [qu[1] EXCEPT !.qty = qu[1].qty - q]
    <2>1. nr \in Resting
        BY <1>3, <1>4 DEF Resting
    <2>2. nq = [qu EXCEPT ![1] = nr]
        OBVIOUS
    <2>3. nq \in Seq(Resting) /\ Len(nq) = Len(qu)
        <3> HIDE DEF nq, nr, qu
        <3> QED BY <1>2, <1>3, <2>1, <2>2, ExceptSeq
    <2>4. nq # <<>>
        <3> HIDE DEF nq, qu
        <3> QED BY <1>2, <1>3, <2>3
    <2>5. AfterFill(lvs, q) = Requeued(lvs, 1, nq)
        BY <1>4 DEF AfterFill, Requeued
    <2> HIDE DEF nq
    <2> QED BY <1>1, <2>3, <2>4, <2>5, RequeueOK
<1>5. CASE qu[1].qty = q /\ Len(qu) = 1
    <2>1. AfterFill(lvs, q) = Tail(lvs)
        BY <1>5 DEF AfterFill
    <2>2. Tail(lvs) \in Seq(Level) /\ Len(Tail(lvs)) = Len(lvs) - 1
          /\ \A j \in 1 .. Len(lvs) - 1 : Tail(lvs)[j] = lvs[j + 1]
        BY <1>1
    <2>3. Ordered(s, Tail(lvs)) /\ NoneEmpty(Tail(lvs)) /\ PricesFrom(Tail(lvs), lvs, p)
        BY <1>1, <2>2 DEF SideOK, Ordered, NoneEmpty, PricesFrom
    <2> QED BY <2>1, <2>2, <2>3 DEF SideOK
<1>6. CASE qu[1].qty = q /\ Len(qu) # 1
    <2>1. AfterFill(lvs, q) = Requeued(lvs, 1, Tail(qu))
        BY <1>6 DEF AfterFill, Requeued
    <2>2. Tail(qu) \in Seq(Resting) /\ Tail(qu) # <<>>
        <3> HIDE DEF qu
        <3>1. Tail(qu) \in Seq(Resting) /\ Len(Tail(qu)) = Len(qu) - 1
            BY <1>2, HeadTailProperties
        <3> QED BY <1>2, <1>3, <1>6, <3>1
    <2> HIDE DEF qu
    <2> QED BY <1>1, <2>1, <2>2, RequeueOK
<1> QED BY <1>4, <1>5, <1>6

(* Cancel leaves its side in order. *)
LEMMA WithoutOrderOK ==
    ASSUME NEW s \in Side, NEW lvs, SideOK(s, lvs), NEW i \in 1 .. Len(lvs),
           NEW k \in 1 .. Len(lvs[i].queue), NEW p
    PROVE  SideOK(s, WithoutOrder(lvs, i, k)) /\ PricesFrom(WithoutOrder(lvs, i, k), lvs, p)
<1> DEFINE qu == lvs[i].queue
<1>1. qu \in Seq(Resting) /\ qu # <<>> /\ k \in 1 .. Len(qu)
    BY LevelIs
<1>2. CASE Len(qu) = 1
    BY <1>2, RemoveLevelOK DEF WithoutOrder
<1>3. CASE Len(qu) # 1
    <2>1. WithoutOrder(lvs, i, k) = Requeued(lvs, i, RemoveAt(qu, k))
        BY <1>3 DEF WithoutOrder, Requeued
    <2> HIDE DEF qu
    <2>2. RemoveAt(qu, k) \in Seq(Resting) /\ Len(RemoveAt(qu, k)) = Len(qu) - 1
        BY <1>1, RemoveAtIs
    <2>3. RemoveAt(qu, k) # <<>>
        BY <1>1, <1>3, <2>2
    <2> QED BY <2>1, <2>2, <2>3, RequeueOK
<1> QED BY <1>2, <1>3

(* rest() puts a new order where its side stays in order. *)
LEMMA RestAtOK ==
    ASSUME NEW s \in Side, NEW lvs, SideOK(s, lvs), NEW p \in Tick, NEW r \in Resting,
           NEW i \in 1 .. Len(lvs) + 1, ScanStops(lvs, s, p, i)
    PROVE  SideOK(s, RestAt(lvs, i, p, r)) /\ PricesFrom(RestAt(lvs, i, p, r), lvs, p)
<1>1. lvs \in Seq(Level) /\ Len(lvs) \in Nat
    BY DEF SideOK
<1>2. CASE i <= Len(lvs) /\ lvs[i].price = p
    <2> DEFINE qu == lvs[i].queue
    <2>1. i \in 1 .. Len(lvs)
        BY <1>1, <1>2
    <2>2. qu \in Seq(Resting)
        BY <2>1, LevelIs
    <2>3. RestAt(lvs, i, p, r) = Requeued(lvs, i, Append(qu, r))
        BY <1>2 DEF RestAt, Requeued
    <2> HIDE DEF qu
    <2>4. Append(qu, r) \in Seq(Resting) /\ Append(qu, r) # <<>>
        BY <2>2, AppendProperties
    <2> QED BY <2>1, <2>3, <2>4, RequeueOK
<1>3. CASE ~(i <= Len(lvs) /\ lvs[i].price = p)
    <2> DEFINE lv  == [price |-> p, queue |-> <<r>>]
               new == InsertAt(lvs, i, lv)
    <2>0. <<r>> \in Seq(Resting) /\ <<r>> # <<>>
        OBVIOUS
    <2>1. lv \in Level /\ lv.price = p /\ lv.queue # <<>>
        BY <2>0 DEF Level
    <2>2. RestAt(lvs, i, p, r) = new
        BY <1>3 DEF RestAt
    <2> HIDE DEF lv
    <2>3. /\ new \in Seq(Level) /\ Len(new) = Len(lvs) + 1
          /\ \A j \in 1 .. i - 1 : new[j] = lvs[j]
          /\ new[i] = lv
          /\ \A j \in i + 1 .. Len(lvs) + 1 : new[j] = lvs[j - 1]
        <3>1. lvs \in Seq(Level) /\ lv \in Level /\ i \in 1 .. Len(lvs) + 1
            BY <1>1, <2>1
        <3> QED BY <3>1, InsertAtIs
    <2> HIDE DEF new
    <2>4. \A j \in 1 .. Len(lvs) : lvs[j].price \in Int
        BY LevelIs, BookAssumption DEF Tick
    <2>5. \A j \in 1 .. i - 1 : Better(s, lvs[j].price, p)
        BY DEF ScanStops
    <2>6. ASSUME NEW j \in i .. Len(lvs)
          PROVE  Better(s, p, lvs[j].price)
        <3>1. i \in 1 .. Len(lvs) /\ j \in 1 .. Len(lvs)
            BY <1>1
        <3>2. lvs[i].price \in Int /\ lvs[j].price \in Int /\ p \in Int
            BY <2>4, <3>1, BookAssumption DEF Tick
        <3>3. ~Better(s, lvs[i].price, p) /\ lvs[i].price # p
            BY <1>3, <3>1 DEF ScanStops
        <3>4. Better(s, p, lvs[i].price)
            BY <3>2, <3>3 DEF Better
        <3>5. i = j \/ Better(s, lvs[i].price, lvs[j].price)
            BY <3>1 DEF SideOK, Ordered
        <3> QED BY <3>2, <3>4, <3>5 DEF Better
    <2>7. Ordered(s, new)
        <3> SUFFICES ASSUME NEW j \in 1 .. Len(new), NEW k \in 1 .. Len(new), j < k
                     PROVE  Better(s, new[j].price, new[k].price)
            BY DEF Ordered
        <3>1. CASE j < i /\ k < i
            <4>1. new[j] = lvs[j] /\ new[k] = lvs[k] /\ j \in 1 .. Len(lvs) /\ k \in 1 .. Len(lvs)
                BY <1>1, <2>3, <3>1
            <4> QED BY <4>1 DEF SideOK, Ordered
        <3>2. CASE j < i /\ k = i
            <4>1. new[j] = lvs[j] /\ new[k] = lv /\ j \in 1 .. i - 1
                BY <1>1, <2>3, <3>2
            <4> QED BY <2>1, <2>5, <4>1
        <3>3. CASE j < i /\ k > i
            <4>1. /\ new[j] = lvs[j] /\ new[k] = lvs[k - 1]
                  /\ j \in 1 .. Len(lvs) /\ k - 1 \in 1 .. Len(lvs) /\ j < k - 1
                BY <1>1, <2>3, <3>3
            <4> QED BY <4>1 DEF SideOK, Ordered
        <3>4. CASE j = i
            <4>1. k \in i + 1 .. Len(lvs) + 1 /\ k - 1 \in i .. Len(lvs)
                BY <1>1, <2>3, <3>4
            <4>2. new[j] = lv /\ new[k] = lvs[k - 1]
                BY <2>3, <3>4, <4>1
            <4> QED BY <2>1, <2>6, <4>1, <4>2
        <3>5. CASE j > i
            <4>1. /\ j \in i + 1 .. Len(lvs) + 1 /\ k \in i + 1 .. Len(lvs) + 1
                  /\ j - 1 \in 1 .. Len(lvs) /\ k - 1 \in 1 .. Len(lvs) /\ j - 1 < k - 1
                BY <1>1, <2>3, <3>5
            <4>2. new[j] = lvs[j - 1] /\ new[k] = lvs[k - 1]
                BY <2>3, <4>1
            <4> QED BY <4>1, <4>2 DEF SideOK, Ordered
        <3> QED BY <1>1, <2>3, <3>1, <3>2, <3>3, <3>4, <3>5
    <2>8. \A j \in 1 .. Len(new) : new[j] = lv \/ \E k \in 1 .. Len(lvs) : new[j] = lvs[k]
        <3> TAKE j \in 1 .. Len(new)
        <3>1. CASE j < i
            <4>1. new[j] = lvs[j] /\ j \in 1 .. Len(lvs)
                BY <1>1, <2>3, <3>1
            <4> QED BY <4>1
        <3>2. CASE j > i
            <4>1. new[j] = lvs[j - 1] /\ j - 1 \in 1 .. Len(lvs)
                BY <1>1, <2>3, <3>2
            <4> QED BY <4>1
        <3>3. CASE j = i
            BY <2>3, <3>3
        <3> QED BY <1>1, <2>3, <3>1, <3>2, <3>3
    <2>9. NoneEmpty(new) /\ PricesFrom(new, lvs, p)
        BY <2>1, <2>8 DEF SideOK, NoneEmpty, PricesFrom
    <2> QED BY <2>2, <2>3, <2>7, <2>9 DEF SideOK
<1> QED BY <1>2, <1>3

-----------------------------------------------------------------------------
(* What Submit knows in its loop: the order passed the checks, and no more *)
(* than its quantity is left.                                              *)
CallAccepted == call # NoCall => ~Invalid(call.o) /\ call.remaining <= call.o.qty

(* The inductive invariant. *)
BookInv == TypeOK /\ CallAccepted /\ LevelsSorted /\ NoEmptyLevel /\ Uncrossed

LEMMA SidesAreOK ==
    ASSUME BookInv
    PROVE  /\ \A s \in Side : SideOK(s, levels[s])
           /\ \A s \in Side : \A i \in 1 .. Len(levels[s]), j \in 1 .. Len(levels[Opp(s)]) :
                 Better(Opp(s), levels[s][i].price, levels[Opp(s)][j].price)
<1>1. \A s \in Side : levels[s] \in Seq(Level) /\ DOMAIN levels[s] = 1 .. Len(levels[s])
    BY DEF BookInv, TypeOK, Levels
<1>2. \A s \in Side : SideOK(s, levels[s])
    BY <1>1 DEF BookInv, SideOK, Ordered, NoneEmpty, LevelsSorted, NoEmptyLevel
<1>3. \A s \in Side : \A i \in 1 .. Len(levels[s]), j \in 1 .. Len(levels[Opp(s)]) :
          Better(Opp(s), levels[s][i].price, levels[Opp(s)][j].price)
    BY <1>1 DEF BookInv, Uncrossed, Better, Opp, Side
<1> QED BY <1>2, <1>3

(* One side changes to one that is in order and apart from the other side. *)
LEMMA SideChanges ==
    ASSUME BookInv, NEW s \in Side, NEW new, SideOK(s, new),
           \A i \in 1 .. Len(new), j \in 1 .. Len(levels[Opp(s)]) :
               Better(Opp(s), new[i].price, levels[Opp(s)][j].price),
           levels' = [levels EXCEPT ![s] = new]
    PROVE  levels' \in Levels /\ LevelsSorted' /\ NoEmptyLevel' /\ Uncrossed'
<1>1. levels \in [Side -> Seq(Level)] /\ new \in Seq(Level)
    BY DEF BookInv, TypeOK, Levels, SideOK
<1>2. Opp(s) \in Side /\ Opp(s) # s /\ Side = {s, Opp(s)}
    BY DEF Opp, Side
<1>3. levels'[s] = new /\ levels'[Opp(s)] = levels[Opp(s)] /\ levels' \in Levels
    BY <1>1, <1>2 DEF Levels
<1>4. \A u \in Side : SideOK(u, levels'[u])
    BY <1>2, <1>3, SidesAreOK
<1>5. \A u \in Side : DOMAIN levels'[u] = 1 .. Len(levels'[u])
    BY <1>3 DEF Levels
<1>6. LevelsSorted' /\ NoEmptyLevel'
    BY <1>4, <1>5 DEF SideOK, Ordered, NoneEmpty, LevelsSorted, NoEmptyLevel
<1>7. Uncrossed'
    <2>1. CASE s = "buy"
        BY <1>3, <1>5, <2>1 DEF Uncrossed, Better, Opp, Side
    <2>2. CASE s = "sell"
        BY <1>3, <1>5, <2>2 DEF Uncrossed, Better, Opp, Side
    <2> QED BY <2>1, <2>2 DEF Side
<1> QED BY <1>3, <1>6, <1>7

(* Removing orders brings no new price, so the sides stay apart. *)
LEMMA SideShrinks ==
    ASSUME BookInv, NEW s \in Side, NEW new, SideOK(s, new),
           NEW i \in 1 .. Len(levels[s]), PricesFrom(new, levels[s], levels[s][i].price),
           levels' = [levels EXCEPT ![s] = new]
    PROVE  levels' \in Levels /\ LevelsSorted' /\ NoEmptyLevel' /\ Uncrossed'
<1>1. \A j \in 1 .. Len(new) : \E k \in 1 .. Len(levels[s]) : new[j].price = levels[s][k].price
    BY DEF PricesFrom
<1>2. \A j \in 1 .. Len(new), k \in 1 .. Len(levels[Opp(s)]) :
          Better(Opp(s), new[j].price, levels[Opp(s)][k].price)
    BY <1>1, SidesAreOK
<1> QED BY <1>2, SideChanges

(* What the checks at the top of Submit establish. *)
LEMMA CheckedOrder ==
    ASSUME NEW o \in Order, ~Invalid(o)
    PROVE  /\ o.id \in Ids /\ o.qty \in Nat \ {0} /\ o.side \in Side
           /\ o.type \in {"limit", "market"}
           /\ o.type = "limit" => o.price \in Tick
<1>1. o.id \in Ids /\ o.qty \in Qtys /\ o.price \in Prices
    BY DEF Order
<1>2. o.qty \in Int /\ o.price \in Int
    BY <1>1, BookAssumption
<1>3. ~(o.qty <= 0) /\ ~(o.type = "limit" /\ o.price <= 0)
    BY DEF Invalid
<1>4. o.side \in Side /\ o.type \in {"limit", "market"}
    BY DEF Invalid
<1> QED BY <1>1, <1>2, <1>3, <1>4 DEF Tick

LEMMA SubmitRejectedStep ==
    ASSUME BookInv, NEW o \in Order, SubmitRejected(o)
    PROVE  BookInv'
<1>1. <<>> \in Seq(Fill) /\ o.id \in Ids /\ seq + 1 \in Nat
    BY DEF BookInv, TypeOK, Order
<1>2. TypeOK'
    BY <1>1 DEF BookInv, TypeOK, SubmitRejected, NextSeq, Reply, Status
<1> QED BY <1>2 DEF BookInv, SubmitRejected, CallAccepted, LevelsSorted, NoEmptyLevel, Uncrossed

LEMMA SubmitAcceptedStep ==
    ASSUME BookInv, NEW o \in Order, SubmitAccepted(o)
    PROVE  BookInv'
<1>1. o.qty \in Nat
    BY CheckedOrder DEF SubmitAccepted
<1>2. call' = [o |-> o, remaining |-> o.qty, fills |-> <<>>, entry |-> levels]
    BY DEF SubmitAccepted
<1>3. call' \in Call
    BY <1>1, <1>2 DEF BookInv, TypeOK, Call
<1>4. TypeOK'
    BY <1>3 DEF BookInv, TypeOK, SubmitAccepted, NextSeq
<1>5. CallAccepted'
    BY <1>1, <1>2 DEF CallAccepted, SubmitAccepted, Invalid
<1> QED BY <1>4, <1>5 DEF BookInv, SubmitAccepted, LevelsSorted, NoEmptyLevel, Uncrossed

LEMMA FillBestStep ==
    ASSUME BookInv, FillBest
    PROVE  BookInv' /\ call' \in Call
<1> DEFINE opp   == Opp(call.o.side)
           best  == levels[opp][1]
           maker == best.queue[1]
           q     == IF call.remaining <= maker.qty THEN call.remaining ELSE maker.qty
<1>1. /\ call \in Call /\ ~Invalid(call.o) /\ call.remaining <= call.o.qty
      /\ call.remaining \in Nat \ {0} /\ call.o.qty \in Int
    <2>1. call \in Call /\ ~Invalid(call.o) /\ call.remaining <= call.o.qty
        BY DEF BookInv, TypeOK, CallAccepted, FillBest
    <2>2. call.remaining \in Nat /\ call.o \in Order /\ call.remaining > 0
        BY <2>1 DEF Call, FillBest, LoopContinues
    <2> QED BY <2>1, <2>2, CheckedOrder
<1>2. opp \in Side /\ levels[opp] # <<>>
    BY DEF Opp, Side, FillBest, LoopContinues
<1>3. SideOK(opp, levels[opp]) /\ levels[opp] \in Seq(Level)
    BY <1>2, SidesAreOK DEF SideOK
<1>4. 1 \in 1 .. Len(levels[opp])
    BY <1>2, <1>3
<1>5. best.price \in Tick /\ best.queue \in Seq(Resting) /\ best.queue # <<>>
    BY <1>2, <1>3, <1>4, LevelIs
<1>6. maker \in Resting
    BY <1>5
<1>7. maker.qty \in Nat \ {0} /\ maker.id \in Ids
    BY <1>6 DEF Resting
<1>8. q \in 1 .. maker.qty /\ q \in 1 .. call.remaining /\ q \in Nat \ {0}
    <2>1. \A a, c \in Nat \ {0} :
             LET d == IF a <= c THEN a ELSE c IN d \in 1 .. c /\ d \in 1 .. a /\ d \in Nat \ {0}
        OBVIOUS
    <2>2. call.remaining \in Nat \ {0} /\ maker.qty \in Nat \ {0}
        BY <1>1, <1>7, Zenon
    <2> HIDE DEF maker
    <2> QED BY <2>1, <2>2, Zenon
<1>9. /\ call' = [call EXCEPT !.remaining = call.remaining - q,
                              !.fills = Append(call.fills, [price |-> best.price, qty |-> q,
                                                            maker_id |-> maker.id])]
      /\ levels' = [levels EXCEPT ![opp] = AfterFill(levels[opp], q)]
      /\ byID' = IF q = maker.qty THEN [byID EXCEPT ![maker.id] = NoEntry] ELSE byID
      /\ UNCHANGED <<seq, ack>>
    BY DEF FillBest
<1>10. [price |-> best.price, qty |-> q, maker_id |-> maker.id] \in Fill
    BY <1>5, <1>7, <1>8 DEF Fill
<1> HIDE DEF q, maker, best, opp
<1>11. call.remaining - q \in Nat /\ call.remaining - q <= call.o.qty
    BY <1>1, <1>8
<1>12. Append(call.fills, [price |-> best.price, qty |-> q, maker_id |-> maker.id]) \in Seq(Fill)
    BY <1>1, <1>10 DEF Call
<1>13. call' \in Call /\ call'.o = call.o /\ call'.remaining = call.remaining - q
    BY <1>1, <1>9, <1>11, <1>12 DEF Call
<1>14. CallAccepted'
    BY <1>1, <1>11, <1>13 DEF CallAccepted, Invalid
<1>15. byID' \in [Ids -> Entry \cup {NoEntry}]
    BY <1>9 DEF BookInv, TypeOK
<1>16. /\ SideOK(opp, AfterFill(levels[opp], q))
       /\ PricesFrom(AfterFill(levels[opp], q), levels[opp], levels[opp][1].price)
    <2>1. q \in 1 .. levels[opp][1].queue[1].qty
        BY <1>8 DEF maker, best
    <2> QED BY <1>2, <1>3, <2>1, AfterFillOK
<1>17. levels' \in Levels /\ LevelsSorted' /\ NoEmptyLevel' /\ Uncrossed'
    BY <1>2, <1>4, <1>9, <1>16, SideShrinks
<1> QED BY <1>9, <1>13, <1>14, <1>15, <1>17 DEF BookInv, TypeOK

LEMMA SubmitReturnsStep ==
    ASSUME BookInv, SubmitReturns
    PROVE  BookInv'
<1> DEFINE o == call.o
           rem == call.remaining
<1>1. /\ call \in Call /\ o \in Order /\ ~Invalid(o) /\ rem <= o.qty
      /\ rem \in Nat /\ o.qty \in Int /\ o.id \in Ids /\ call.fills \in Seq(Fill)
    BY BookAssumption DEF BookInv, TypeOK, CallAccepted, SubmitReturns, Call, Order
<1>2. o.side \in Side /\ o.type \in {"limit", "market"} /\ o.qty > 0
      /\ (o.type = "limit" => o.price \in Tick)
    <2> HIDE DEF o
    <2> QED BY <1>1, CheckedOrder
<1>3. FinalStatus(o, rem) \in Status
    BY <1>1, <1>2 DEF FinalStatus, Status
<1>4. call' = NoCall /\ seq' = seq
      /\ ack' = [order_id |-> o.id, seq |-> seq, status |-> FinalStatus(o, rem),
                 fills |-> call.fills]
    BY DEF SubmitReturns, Reply
<1>5. ack' \in [order_id : Ids \cup {"none"}, seq : Nat, status : Status, fills : Seq(Fill)]
    BY <1>1, <1>3, <1>4 DEF BookInv, TypeOK
<1>6. CASE UNCHANGED <<levels, byID>>
    BY <1>4, <1>5, <1>6 DEF BookInv, TypeOK, CallAccepted, LevelsSorted, NoEmptyLevel, Uncrossed
<1>7. CASE rem > 0 /\ o.type = "limit" /\ Rest(o, rem)
    <2> DEFINE lvs == levels[o.side]
    <2>1. byID' \in [Ids -> Entry \cup {NoEntry}]
        <3>1. [side |-> o.side, price |-> o.price] \in Entry
            BY <1>2, <1>7 DEF Entry
        <3> QED BY <1>1, <1>7, <3>1 DEF Rest, BookInv, TypeOK
    <2>2. PICK i \in 1 .. Len(lvs) + 1 :
              /\ ScanStops(lvs, o.side, o.price, i)
              /\ levels' = [levels EXCEPT
                    ![o.side] = RestAt(lvs, i, o.price, [id |-> o.id, qty |-> rem])]
        BY <1>7 DEF Rest
    <2>3. [id |-> o.id, qty |-> rem] \in Resting
        BY <1>1, <1>7 DEF Resting
    <2> DEFINE new == RestAt(lvs, i, o.price, [id |-> o.id, qty |-> rem])
    <2>4. SideOK(o.side, new) /\ PricesFrom(new, lvs, o.price)
        <3>1. SideOK(o.side, lvs) /\ o.price \in Tick
            BY <1>2, <1>7, SidesAreOK
        <3> HIDE DEF lvs
        <3> QED BY <1>2, <2>2, <2>3, <3>1, RestAtOK
    <2>5. ASSUME NEW j \in 1 .. Len(levels[Opp(o.side)])
          PROVE  Better(Opp(o.side), o.price, levels[Opp(o.side)][j].price)
        <3> DEFINE op == Opp(o.side)
        <3>1. op \in Side /\ SideOK(op, levels[op])
            BY SidesAreOK DEF Opp, Side
        <3>2. levels[op] \in Seq(Level) /\ 1 \in 1 .. Len(levels[op])
            BY <3>1 DEF SideOK
        <3>3. Better(op, o.price, levels[op][1].price)
            <4>1. levels[op] # <<>>
                BY <3>2
            <4>2. ~LoopContinues /\ call.remaining > 0
                BY <1>7 DEF SubmitReturns
            <4> QED BY <4>1, <4>2 DEF LoopContinues, BeyondLimit
        <3>4. j = 1 \/ Better(op, levels[op][1].price, levels[op][j].price)
            BY <3>1, <3>2 DEF SideOK, Ordered
        <3>5. levels[op][1].price \in Int /\ levels[op][j].price \in Int /\ o.price \in Int
            <4>1. levels[op][1].price \in Tick /\ levels[op][j].price \in Tick
                BY <3>1, <3>2, LevelIs
            <4> QED BY <1>2, <1>7, <4>1, BookAssumption DEF Tick
        <3> QED BY <3>3, <3>4, <3>5 DEF Better
    <2>6. \A k \in 1 .. Len(new), j \in 1 .. Len(levels[Opp(o.side)]) :
              Better(Opp(o.side), new[k].price, levels[Opp(o.side)][j].price)
        <3> HIDE DEF new
        <3>1. \A k \in 1 .. Len(new) : new[k].price = o.price
                  \/ \E j \in 1 .. Len(levels[o.side]) : new[k].price = levels[o.side][j].price
            BY <2>4 DEF PricesFrom
        <3> QED BY <1>2, <2>5, <3>1, SidesAreOK
    <2>7. levels' = [levels EXCEPT ![o.side] = new]
        BY <2>2
    <2> HIDE DEF new
    <2>8. levels' \in Levels /\ LevelsSorted' /\ NoEmptyLevel' /\ Uncrossed'
        BY <1>2, <2>4, <2>6, <2>7, SideChanges
    <2> QED BY <1>4, <1>5, <2>1, <2>8 DEF BookInv, TypeOK, CallAccepted
<1> QED BY <1>6, <1>7 DEF SubmitReturns

LEMMA CancelStep ==
    ASSUME BookInv, NEW id \in Ids, CancelUnknown(id) \/ CancelResting(id)
    PROVE  BookInv'
<1>1. <<>> \in Seq(Fill) /\ seq + 1 \in Nat
    BY DEF BookInv, TypeOK
<1>2. CASE CancelUnknown(id)
    <2>1. TypeOK'
        BY <1>1, <1>2 DEF BookInv, TypeOK, CancelUnknown, NextSeq, Reply, Status
    <2> QED BY <1>2, <2>1 DEF BookInv, CancelUnknown, CallAccepted, LevelsSorted, NoEmptyLevel,
               Uncrossed
<1>3. CASE CancelResting(id)
    <2> DEFINE s == byID[id].side
    <2>1. /\ seq' = seq + 1 /\ call' = call /\ byID' \in [Ids -> Entry \cup {NoEntry}]
          /\ ack' \in [order_id : Ids \cup {"none"}, seq : Nat, status : Status,
                       fills : Seq(Fill)]
        BY <1>1, <1>3 DEF BookInv, TypeOK, CancelResting, NextSeq, Reply, Status
    <2>2. s \in Side
        BY <1>3 DEF BookInv, TypeOK, CancelResting, Entry
    <2>3. levels' \in Levels /\ LevelsSorted' /\ NoEmptyLevel' /\ Uncrossed'
        <3>1. CASE UNCHANGED levels
            BY <3>1 DEF BookInv, TypeOK, LevelsSorted, NoEmptyLevel, Uncrossed
        <3>2. CASE \E i \in DOMAIN levels[s] : \E k \in DOMAIN levels[s][i].queue :
                      levels' = [levels EXCEPT ![s] = WithoutOrder(levels[s], i, k)]
            <4>1. PICK i \in DOMAIN levels[s] : \E k \in DOMAIN levels[s][i].queue :
                      levels' = [levels EXCEPT ![s] = WithoutOrder(levels[s], i, k)]
                BY <3>2
            <4>2. PICK k \in DOMAIN levels[s][i].queue :
                      levels' = [levels EXCEPT ![s] = WithoutOrder(levels[s], i, k)]
                BY <4>1
            <4>3. SideOK(s, levels[s]) /\ levels[s] \in Seq(Level)
                BY <2>2, SidesAreOK DEF SideOK
            <4>4. i \in 1 .. Len(levels[s])
                BY <4>3
            <4>5. levels[s][i].queue \in Seq(Resting)
                BY <2>2, <4>3, <4>4, LevelIs
            <4>6. k \in 1 .. Len(levels[s][i].queue)
                BY <4>5
            <4> DEFINE new == WithoutOrder(levels[s], i, k)
            <4> HIDE DEF s
            <4>7. SideOK(s, new) /\ PricesFrom(new, levels[s], levels[s][i].price)
                BY <2>2, <4>3, <4>4, <4>6, WithoutOrderOK
            <4>8. levels' = [levels EXCEPT ![s] = new]
                BY <4>2
            <4> HIDE DEF new
            <4> QED BY <2>2, <4>4, <4>7, <4>8, SideShrinks
        <3> QED BY <1>3, <3>1, <3>2 DEF CancelResting
    <2> QED BY <2>1, <2>3 DEF BookInv, TypeOK, CallAccepted
<1> QED BY <1>2, <1>3

LEMMA BookKept ==
    ASSUME BookInv, [Next]_vars
    PROVE  BookInv'
<1>1. CASE UNCHANGED vars
    BY <1>1 DEF vars, BookInv, TypeOK, CallAccepted, LevelsSorted, NoEmptyLevel, Uncrossed
<1> QED BY <1>1, SubmitRejectedStep, SubmitAcceptedStep, FillBestStep, SubmitReturnsStep,
           CancelStep DEF Next

LEMMA BookStarts == Init => BookInv
<1> SUFFICES ASSUME Init PROVE BookInv
    OBVIOUS
<1>1. levels = [s \in Side |-> <<>>] /\ levels \in Levels
    BY DEF Init, Levels
<1>2. TypeOK
    BY <1>1 DEF Init, TypeOK, Status
<1>3. \A s \in Side : DOMAIN levels[s] = {}
    BY <1>1
<1> QED BY <1>2, <1>3 DEF Init, BookInv, CallAccepted, LevelsSorted, NoEmptyLevel, Uncrossed,
           Side

LEMMA BookInvariant == Spec => []BookInv
<1> QED BY BookStarts, BookKept, PTL DEF Spec

(* Every state of the book and of a Submit in progress is well-typed: in   *)
(* particular no resting order ever has quantity 0 or an invalid price.    *)
THEOREM BookTypes == Spec => []TypeOK
<1>1. BookInv => TypeOK
    BY DEF BookInv
<1> QED BY <1>1, BookInvariant, PTL

(* Both sides of the book are sorted, best price first, one level a price, *)
(* after any calls of Submit and Cancel.                                   *)
THEOREM BookIsSorted == Spec => []LevelsSorted
<1>1. BookInv => LevelsSorted
    BY DEF BookInv
<1> QED BY <1>1, BookInvariant, PTL

(* Submit and Cancel never leave an empty level behind, so reading the     *)
(* first order of the first level is always safe.                          *)
THEOREM BookHasNoEmptyLevel == Spec => []NoEmptyLevel
<1>1. BookInv => NoEmptyLevel
    BY DEF BookInv
<1> QED BY <1>1, BookInvariant, PTL

(* No resting bid ever meets a resting ask: an order rests only when it    *)
(* has traded with everything its limit allows.                            *)
THEOREM BookIsNeverCrossed == Spec => []Uncrossed
<1>1. BookInv => Uncrossed
    BY DEF BookInv
<1> QED BY <1>1, BookInvariant, PTL

-----------------------------------------------------------------------------
(* The map against the queues.  Which orders stand where is a relation     *)
(* between ids and prices; each operation on a side changes it by one      *)
(* pair, as it changes the map by one key.                                 *)

HasId(qu, id) == \E k \in 1 .. Len(qu) : qu[k].id = id

Distinct(qu) == \A k, l \in 1 .. Len(qu) : qu[k].id = qu[l].id => k = l

Holds(lvs, id, p) == \E i \in 1 .. Len(lvs) : lvs[i].price = p /\ HasId(lvs[i].queue, id)

NoTwice(lvs) == \A i \in 1 .. Len(lvs) : Distinct(lvs[i].queue)

LEMMA AppendIds ==
    ASSUME NEW qu \in Seq(Resting), NEW r \in Resting, Distinct(qu), ~HasId(qu, r.id)
    PROVE  /\ Distinct(Append(qu, r))
           /\ \A id : HasId(Append(qu, r), id) <=> HasId(qu, id) \/ id = r.id
<1> DEFINE n == Append(qu, r)
<1>1. /\ Len(qu) \in Nat /\ Len(n) = Len(qu) + 1
      /\ \A k \in 1 .. Len(qu) : n[k] = qu[k]
      /\ n[Len(qu) + 1] = r
  OBVIOUS
<1> HIDE DEF n
<1>2. \A k \in 1 .. Len(n) : k \in 1 .. Len(qu) \/ k = Len(qu) + 1
  BY <1>1
<1>3. Distinct(n)
  BY <1>1, <1>2 DEF Distinct, HasId
<1>4. ASSUME NEW id PROVE HasId(n, id) <=> HasId(qu, id) \/ id = r.id
  <2>1. HasId(n, id) => HasId(qu, id) \/ id = r.id
    BY <1>1, <1>2 DEF HasId
  <2>2. HasId(qu, id) => HasId(n, id)
    <3>1. \A k \in 1 .. Len(qu) : k \in 1 .. Len(n)
      BY <1>1
    <3> QED BY <1>1, <3>1 DEF HasId
  <2>3. Len(qu) + 1 \in 1 .. Len(n)
    BY <1>1
  <2>4. id = r.id => HasId(n, id)
    BY <1>1, <2>3 DEF HasId
  <2> QED BY <2>1, <2>2, <2>4
<1> QED BY <1>3, <1>4 DEF n

(* A queue without its k-th order. *)
LEMMA ShorterIds ==
    ASSUME NEW qu \in Seq(Resting), NEW k \in 1 .. Len(qu), Distinct(qu),
           NEW n \in Seq(Resting), Len(n) = Len(qu) - 1,
           \A j \in 1 .. Len(qu) - 1 : n[j] = IF j < k THEN qu[j] ELSE qu[j + 1]
    PROVE  /\ Distinct(n)
           /\ \A id : HasId(n, id) <=> HasId(qu, id) /\ id # qu[k].id
<1>0. Len(qu) \in Nat /\ k \in Nat
  OBVIOUS
<1> DEFINE From(j) == IF j < k THEN j ELSE j + 1
<1>1. \A j \in 1 .. Len(n) : From(j) \in 1 .. Len(qu) /\ From(j) # k /\ n[j] = qu[From(j)]
  BY <1>0
<1>2. \A j, l \in 1 .. Len(n) : From(j) = From(l) => j = l
  BY <1>0
<1>3. \A m \in 1 .. Len(qu) : m # k => \E j \in 1 .. Len(n) : From(j) = m
  <2> TAKE m \in 1 .. Len(qu)
  <2>1. CASE m < k
    <3>1. m \in 1 .. Len(n) /\ From(m) = m
      BY <1>0, <2>1
    <3> QED BY <3>1
  <2>2. CASE m > k
    <3>1. m - 1 \in 1 .. Len(n) /\ From(m - 1) = m
      BY <1>0, <2>2
    <3> QED BY <3>1
  <2> QED BY <1>0, <2>1, <2>2
<1> HIDE DEF From
<1>4. Distinct(n)
  <2> SUFFICES ASSUME NEW j \in 1 .. Len(n), NEW l \in 1 .. Len(n), n[j].id = n[l].id
               PROVE  j = l
    BY Zenon DEF Distinct
  <2>1. qu[From(j)].id = qu[From(l)].id
    BY <1>1, Zenon
  <2>2. From(j) = From(l)
    BY <1>1, <2>1, Zenon DEF Distinct
  <2> QED BY <1>2, <2>2, Zenon
<1>5. ASSUME NEW id PROVE HasId(n, id) <=> HasId(qu, id) /\ id # qu[k].id
  <2>1. HasId(n, id) => HasId(qu, id) /\ id # qu[k].id
    BY <1>1 DEF HasId, Distinct
  <2>2. HasId(qu, id) /\ id # qu[k].id => HasId(n, id)
    <3> SUFFICES ASSUME NEW m \in 1 .. Len(qu), qu[m].id = id, id # qu[k].id PROVE HasId(n, id)
      BY Zenon DEF HasId
    <3>1. PICK j \in 1 .. Len(n) : From(j) = m
      BY <1>3, Zenon
    <3>2. n[j].id = id
      BY <1>1, <3>1, Zenon
    <3> QED BY <3>2, Zenon DEF HasId
  <2> QED BY <2>1, <2>2
<1> QED BY <1>4, <1>5

(* A side has one level a price. *)
LEMMA PricesDiffer ==
    ASSUME NEW s \in Side, NEW lvs, SideOK(s, lvs),
           NEW i \in 1 .. Len(lvs), NEW j \in 1 .. Len(lvs), lvs[i].price = lvs[j].price
    PROVE  i = j
<1>0. lvs[i].price \in Tick /\ Len(lvs) \in Nat
    BY LevelIs DEF SideOK
<1>1. i \in Int /\ j \in Int
    BY <1>0
<1>2. lvs[i].price \in Int
    BY <1>0, BookAssumption DEF Tick
<1>3. i < j => Better(s, lvs[i].price, lvs[j].price)
    BY DEF SideOK, Ordered
<1>4. j < i => Better(s, lvs[j].price, lvs[i].price)
    BY DEF SideOK, Ordered
<1> QED BY <1>1, <1>2, <1>3, <1>4 DEF Better

(* A level gets another queue: only its own price is concerned. *)
LEMMA RequeueIds ==
    ASSUME NEW s \in Side, NEW lvs, SideOK(s, lvs), NEW i \in 1 .. Len(lvs),
           NEW qu \in Seq(Resting), NoTwice(lvs), Distinct(qu)
    PROVE  /\ NoTwice(Requeued(lvs, i, qu))
           /\ \A id, p : Holds(Requeued(lvs, i, qu), id, p) <=>
                 IF p = lvs[i].price THEN HasId(qu, id) ELSE Holds(lvs, id, p)
<1> DEFINE new == Requeued(lvs, i, qu)
           lv  == [lvs[i] EXCEPT !.queue = qu]
<1>1. lvs \in Seq(Level) /\ lvs[i] \in Level
    BY LevelIs DEF SideOK
<1>2. lv \in Level /\ lv.price = lvs[i].price /\ lv.queue = qu
    BY <1>1 DEF Level
<1>3. new = [lvs EXCEPT ![i] = lv]
    BY DEF Requeued
<1> HIDE DEF new, lv
<1>4. /\ new \in Seq(Level) /\ Len(new) = Len(lvs)
      /\ \A j \in 1 .. Len(lvs) : new[j] = IF j = i THEN lv ELSE lvs[j]
    BY <1>1, <1>2, <1>3, ExceptSeq
<1>5. NoTwice(new)
    BY <1>2, <1>4 DEF NoTwice
<1>6. \A j \in 1 .. Len(lvs) : lvs[j].price = lvs[i].price => j = i
    BY PricesDiffer
<1>7. ASSUME NEW id, NEW p
      PROVE  Holds(new, id, p) <=> IF p = lvs[i].price THEN HasId(qu, id) ELSE Holds(lvs, id, p)
    BY <1>2, <1>4, <1>6 DEF Holds
<1> QED BY <1>5, <1>7 DEF new

(* A level leaves, and with it the orders of its price. *)
LEMMA RemoveLevelIds ==
    ASSUME NEW s \in Side, NEW lvs, SideOK(s, lvs), NEW i \in 1 .. Len(lvs), NoTwice(lvs)
    PROVE  /\ NoTwice(RemoveAt(lvs, i))
           /\ \A id, p : Holds(RemoveAt(lvs, i), id, p) <=> p # lvs[i].price /\ Holds(lvs, id, p)
<1> DEFINE new == RemoveAt(lvs, i)
           From(j) == IF j < i THEN j ELSE j + 1
<1>1. lvs \in Seq(Level) /\ Len(lvs) \in Nat
    BY DEF SideOK
<1>2. /\ new \in Seq(Level) /\ Len(new) = Len(lvs) - 1
      /\ \A j \in 1 .. Len(lvs) - 1 : new[j] = IF j < i THEN lvs[j] ELSE lvs[j + 1]
    BY <1>1, RemoveAtIs
<1> HIDE DEF new
<1>3. \A j \in 1 .. Len(new) : From(j) \in 1 .. Len(lvs) /\ From(j) # i /\ new[j] = lvs[From(j)]
    BY <1>1, <1>2
<1>4. \A m \in 1 .. Len(lvs) : m # i => \E j \in 1 .. Len(new) : From(j) = m
    <2> TAKE m \in 1 .. Len(lvs)
    <2>1. CASE m < i
        <3>1. m \in 1 .. Len(new) /\ From(m) = m
            BY <1>1, <1>2, <2>1
        <3> QED BY <3>1
    <2>2. CASE m > i
        <3>1. m - 1 \in 1 .. Len(new) /\ From(m - 1) = m
            BY <1>1, <1>2, <2>2
        <3> QED BY <3>1
    <2> QED BY <1>1, <2>1, <2>2
<1> HIDE DEF From
<1>5. NoTwice(new)
    BY <1>3 DEF NoTwice
<1>6. \A j \in 1 .. Len(lvs) : lvs[j].price = lvs[i].price => j = i
    BY PricesDiffer
<1>7. ASSUME NEW id, NEW p
      PROVE  Holds(new, id, p) <=> p # lvs[i].price /\ Holds(lvs, id, p)
    <2>1. Holds(new, id, p) => p # lvs[i].price /\ Holds(lvs, id, p)
        BY <1>3, <1>6 DEF Holds
    <2>2. ASSUME p # lvs[i].price, Holds(lvs, id, p) PROVE Holds(new, id, p)
        <3>1. PICK m \in 1 .. Len(lvs) : lvs[m].price = p /\ HasId(lvs[m].queue, id)
            BY <2>2 DEF Holds
        <3>2. PICK j \in 1 .. Len(new) : From(j) = m
            BY <1>4, <2>2, <3>1
        <3>3. new[j] = lvs[m]
            BY <1>3, <3>2
        <3> QED BY <3>1, <3>2, <3>3 DEF Holds
    <2> QED BY <2>1, <2>2
<1> QED BY <1>5, <1>7 DEF new

(* The pair that one order contributes. *)
LEMMA StandsHolds ==
    ASSUME NEW lvs, NEW i \in 1 .. Len(lvs), NEW k \in 1 .. Len(lvs[i].queue)
    PROVE  Holds(lvs, lvs[i].queue[k].id, lvs[i].price)
  BY DEF Holds, HasId

(* What stands at the price of a level stands in it. *)
LEMMA HoldsAtLevel ==
    ASSUME NEW s \in Side, NEW lvs, SideOK(s, lvs), NEW i \in 1 .. Len(lvs), NEW id
    PROVE  Holds(lvs, id, lvs[i].price) <=> HasId(lvs[i].queue, id)
  BY PricesDiffer DEF Holds

(* An order leaves, and with it its pair. *)
LEMMA WithoutOrderIds ==
    ASSUME NEW s \in Side, NEW lvs, SideOK(s, lvs), NoTwice(lvs), NEW i \in 1 .. Len(lvs),
           NEW k \in 1 .. Len(lvs[i].queue)
    PROVE  /\ NoTwice(WithoutOrder(lvs, i, k))
           /\ \A id, p : Holds(WithoutOrder(lvs, i, k), id, p) <=>
                 Holds(lvs, id, p) /\ ~(id = lvs[i].queue[k].id /\ p = lvs[i].price)
<1> DEFINE qu == lvs[i].queue
<1>1. qu \in Seq(Resting) /\ qu # <<>> /\ k \in 1 .. Len(qu)
    BY LevelIs
<1>2. Distinct(qu)
    BY DEF NoTwice
<1>3. \A id : Holds(lvs, id, lvs[i].price) <=> HasId(qu, id)
    BY HoldsAtLevel
<1>4. CASE Len(qu) = 1
    <2>1. \A id : HasId(qu, id) <=> id = qu[k].id
        <3> HIDE DEF qu
        <3> QED BY <1>1, <1>4 DEF HasId
    <2>2. WithoutOrder(lvs, i, k) = RemoveAt(lvs, i)
        BY <1>4 DEF WithoutOrder
    <2> HIDE DEF qu
    <2>3. /\ NoTwice(RemoveAt(lvs, i))
          /\ \A id, p : Holds(RemoveAt(lvs, i), id, p) <=> p # lvs[i].price /\ Holds(lvs, id, p)
        BY RemoveLevelIds
    <2> QED BY <1>3, <2>1, <2>2, <2>3 DEF qu
<1>5. CASE Len(qu) # 1
    <2> DEFINE n == RemoveAt(qu, k)
    <2>1. WithoutOrder(lvs, i, k) = Requeued(lvs, i, n)
        BY <1>5 DEF WithoutOrder, Requeued
    <2> HIDE DEF qu
    <2>2. /\ n \in Seq(Resting) /\ Len(n) = Len(qu) - 1
          /\ \A j \in 1 .. Len(qu) - 1 : n[j] = IF j < k THEN qu[j] ELSE qu[j + 1]
        BY <1>1, RemoveAtIs
    <2> HIDE DEF n
    <2>3. Distinct(n) /\ \A id : HasId(n, id) <=> HasId(qu, id) /\ id # qu[k].id
        BY <1>1, <1>2, <2>2, ShorterIds
    <2>4. /\ NoTwice(Requeued(lvs, i, n))
          /\ \A id, p : Holds(Requeued(lvs, i, n), id, p) <=>
                IF p = lvs[i].price THEN HasId(n, id) ELSE Holds(lvs, id, p)
        BY <2>2, <2>3, RequeueIds
    <2> QED BY <1>3, <2>1, <2>3, <2>4 DEF qu
<1> QED BY <1>4, <1>5

(* A fill takes the pair of the first maker when it exhausts it, and no    *)
(* pair otherwise.                                                         *)
LEMMA AfterFillIds ==
    ASSUME NEW s \in Side, NEW lvs, SideOK(s, lvs), NoTwice(lvs), lvs # <<>>,
           NEW q \in 1 .. lvs[1].queue[1].qty
    PROVE  /\ NoTwice(AfterFill(lvs, q))
           /\ \A id, p : Holds(AfterFill(lvs, q), id, p) <=>
                 /\ Holds(lvs, id, p)
                 /\ ~(q = lvs[1].queue[1].qty /\ id = lvs[1].queue[1].id /\ p = lvs[1].price)
<1> DEFINE qu == lvs[1].queue
<1>1. lvs \in Seq(Level) /\ 1 \in 1 .. Len(lvs)
    BY DEF SideOK
<1>2. qu \in Seq(Resting) /\ qu # <<>>
    BY <1>1, LevelIs
<1>3. 1 \in 1 .. Len(qu) /\ qu[1] \in Resting /\ qu[1].qty \in Nat \ {0}
    <2> HIDE DEF qu
    <2>1. 1 \in 1 .. Len(qu) /\ qu[1] \in Resting
        BY <1>2
    <2> QED BY <2>1 DEF Resting
<1>4. Distinct(qu) /\ \A id : Holds(lvs, id, lvs[1].price) <=> HasId(qu, id)
    BY <1>1, HoldsAtLevel DEF NoTwice
<1>5. CASE qu[1].qty # q
    <2> DEFINE nq == [qu EXCEPT ![1].qty = @ - q]
               nr == [qu[1] EXCEPT !.qty = qu[1].qty - q]
    <2>1. nr \in Resting /\ nr.id = qu[1].id
        BY <1>3, <1>5 DEF Resting
    <2>2. nq = [qu EXCEPT ![1] = nr]
        OBVIOUS
    <2>3. /\ nq \in Seq(Resting) /\ Len(nq) = Len(qu)
          /\ \A j \in 1 .. Len(qu) : nq[j] = IF j = 1 THEN nr ELSE qu[j]
        <3> HIDE DEF nq, nr, qu
        <3> QED BY <1>2, <1>3, <2>1, <2>2, ExceptSeq
    <2>4. \A j \in 1 .. Len(qu) : nq[j].id = qu[j].id
        <3> HIDE DEF nq, nr, qu
        <3> QED BY <2>1, <2>3
    <2>5. AfterFill(lvs, q) = Requeued(lvs, 1, nq)
        BY <1>5 DEF AfterFill, Requeued
    <2> HIDE DEF nq, qu
    <2>6. Distinct(nq) /\ \A id : HasId(nq, id) <=> HasId(qu, id)
        BY <1>4, <2>3, <2>4 DEF Distinct, HasId
    <2>7. /\ NoTwice(Requeued(lvs, 1, nq))
          /\ \A id, p : Holds(Requeued(lvs, 1, nq), id, p) <=>
                IF p = lvs[1].price THEN HasId(nq, id) ELSE Holds(lvs, id, p)
        BY <1>1, <2>3, <2>6, RequeueIds
    <2> QED BY <1>4, <1>5, <2>5, <2>6, <2>7 DEF qu
<1>6. CASE qu[1].qty = q /\ Len(qu) = 1
    <2>1. AfterFill(lvs, q) = Tail(lvs)
        BY <1>6 DEF AfterFill
    <2>2. /\ RemoveAt(lvs, 1) \in Seq(Level) /\ Len(RemoveAt(lvs, 1)) = Len(lvs) - 1
          /\ \A j \in 1 .. Len(lvs) - 1 : RemoveAt(lvs, 1)[j] = IF j < 1 THEN lvs[j] ELSE lvs[j + 1]
        BY <1>1, RemoveAtIs
    <2>3. Tail(lvs) = RemoveAt(lvs, 1)
        <3> DEFINE t == Tail(lvs)
                   w == RemoveAt(lvs, 1)
        <3>1. t \in Seq(Level) /\ Len(t) = Len(lvs) - 1 /\ \A j \in 1 .. Len(lvs) - 1 : t[j] = lvs[j + 1]
            BY <1>1
        <3>2. w \in Seq(Level) /\ Len(w) = Len(lvs) - 1 /\ \A j \in 1 .. Len(lvs) - 1 : w[j] = lvs[j + 1]
            BY <1>1, <2>2
        <3> HIDE DEF t, w
        <3>3. t = w
            BY <3>1, <3>2
        <3> QED BY <3>3 DEF t, w
    <2>4. \A id : HasId(qu, id) <=> id = qu[1].id
        <3> HIDE DEF qu
        <3> QED BY <1>2, <1>3, <1>6 DEF HasId
    <2>5. /\ NoTwice(RemoveAt(lvs, 1))
          /\ \A id, p : Holds(RemoveAt(lvs, 1), id, p) <=> p # lvs[1].price /\ Holds(lvs, id, p)
        BY <1>1, RemoveLevelIds
    <2> HIDE DEF qu
    <2> QED BY <1>4, <1>6, <2>1, <2>3, <2>4, <2>5 DEF qu
<1>7. CASE qu[1].qty = q /\ Len(qu) # 1
    <2> DEFINE n == Tail(qu)
    <2>1. AfterFill(lvs, q) = Requeued(lvs, 1, n)
        BY <1>7 DEF AfterFill, Requeued
    <2> HIDE DEF qu
    <2>2. /\ n \in Seq(Resting) /\ Len(n) = Len(qu) - 1
          /\ \A j \in 1 .. Len(qu) - 1 : n[j] = IF j < 1 THEN qu[j] ELSE qu[j + 1]
        BY <1>2, <1>3
    <2> HIDE DEF n
    <2>3. Distinct(n) /\ \A id : HasId(n, id) <=> HasId(qu, id) /\ id # qu[1].id
        BY <1>2, <1>3, <1>4, <2>2, ShorterIds
    <2>4. /\ NoTwice(Requeued(lvs, 1, n))
          /\ \A id, p : Holds(Requeued(lvs, 1, n), id, p) <=>
                IF p = lvs[1].price THEN HasId(n, id) ELSE Holds(lvs, id, p)
        BY <1>1, <2>2, <2>3, RequeueIds
    <2> QED BY <1>4, <1>7, <2>1, <2>3, <2>4 DEF qu
<1> QED BY <1>5, <1>6, <1>7

(* rest() adds one pair. *)
LEMMA RestAtIds ==
    ASSUME NEW s \in Side, NEW lvs, SideOK(s, lvs), NoTwice(lvs), NEW p \in Tick, NEW r \in Resting,
           NEW i \in 1 .. Len(lvs) + 1, ~Holds(lvs, r.id, p)
    PROVE  /\ NoTwice(RestAt(lvs, i, p, r))
           /\ \A id, v : Holds(RestAt(lvs, i, p, r), id, v) <=> Holds(lvs, id, v) \/ (id = r.id /\ v = p)
<1>1. lvs \in Seq(Level) /\ Len(lvs) \in Nat
    BY DEF SideOK
<1>2. CASE i <= Len(lvs) /\ lvs[i].price = p
    <2> DEFINE qu == lvs[i].queue
               n == Append(qu, r)
    <2>1. i \in 1 .. Len(lvs)
        BY <1>1, <1>2
    <2>2. qu \in Seq(Resting) /\ Distinct(qu)
        BY <2>1, LevelIs DEF NoTwice
    <2>3. \A id : Holds(lvs, id, p) <=> HasId(qu, id)
        BY <1>2, <2>1, HoldsAtLevel
    <2>4. RestAt(lvs, i, p, r) = Requeued(lvs, i, n)
        BY <1>2 DEF RestAt, Requeued
    <2> HIDE DEF qu
    <2>5. n \in Seq(Resting)
        BY <2>2, AppendProperties
    <2>6. Distinct(n) /\ \A id : HasId(n, id) <=> HasId(qu, id) \/ id = r.id
        BY <2>2, <2>3, AppendIds
    <2> HIDE DEF n
    <2>7. /\ NoTwice(Requeued(lvs, i, n))
          /\ \A id, v : Holds(Requeued(lvs, i, n), id, v) <=>
                IF v = lvs[i].price THEN HasId(n, id) ELSE Holds(lvs, id, v)
        BY <2>1, <2>5, <2>6, RequeueIds
    <2> QED BY <1>2, <2>3, <2>4, <2>6, <2>7
<1>3. CASE ~(i <= Len(lvs) /\ lvs[i].price = p)
    <2> DEFINE lv  == [price |-> p, queue |-> <<r>>]
               new == InsertAt(lvs, i, lv)
    <2>1. lv \in Level /\ lv.price = p /\ lv.queue = <<r>>
        BY DEF Level
    <2>2. Distinct(<<r>>) /\ \A id : HasId(<<r>>, id) <=> id = r.id
        BY DEF Distinct, HasId
    <2>3. RestAt(lvs, i, p, r) = new
        BY <1>3 DEF RestAt
    <2> HIDE DEF lv
    <2>4. /\ new \in Seq(Level) /\ Len(new) = Len(lvs) + 1
          /\ \A j \in 1 .. i - 1 : new[j] = lvs[j]
          /\ new[i] = lv
          /\ \A j \in i + 1 .. Len(lvs) + 1 : new[j] = lvs[j - 1]
        <3>1. lvs \in Seq(Level) /\ lv \in Level /\ i \in 1 .. Len(lvs) + 1
            BY <1>1, <2>1
        <3> QED BY <3>1, InsertAtIs
    <2> HIDE DEF new
    <2>5. \A j \in 1 .. Len(new) : new[j] = lv \/ \E m \in 1 .. Len(lvs) : new[j] = lvs[m]
        <3> TAKE j \in 1 .. Len(new)
        <3>1. CASE j < i
            <4>1. new[j] = lvs[j] /\ j \in 1 .. Len(lvs)
                BY <1>1, <2>4, <3>1
            <4> QED BY <4>1
        <3>2. CASE j > i
            <4>1. new[j] = lvs[j - 1] /\ j - 1 \in 1 .. Len(lvs)
                BY <1>1, <2>4, <3>2
            <4> QED BY <4>1
        <3>3. CASE j = i
            BY <2>4, <3>3
        <3> QED BY <1>1, <2>4, <3>1, <3>2, <3>3
    <2>6. \A m \in 1 .. Len(lvs) : \E j \in 1 .. Len(new) : new[j] = lvs[m]
        <3> TAKE m \in 1 .. Len(lvs)
        <3>1. CASE m < i
            <4>1. m \in 1 .. Len(new) /\ new[m] = lvs[m]
                BY <1>1, <2>4, <3>1
            <4> QED BY <4>1
        <3>2. CASE m >= i
            <4>1. m + 1 \in i + 1 .. Len(lvs) + 1 /\ m + 1 \in 1 .. Len(new) /\ (m + 1) - 1 = m
                BY <1>1, <2>4, <3>2
            <4>2. new[m + 1] = lvs[m]
                BY <2>4, <4>1
            <4> QED BY <4>1, <4>2
        <3> QED BY <1>1, <3>1, <3>2
    <2>7. i \in 1 .. Len(new) /\ new[i] = lv
        BY <1>1, <2>4
    <2>8. NoTwice(new)
        BY <2>1, <2>2, <2>5 DEF NoTwice
    <2>9. ASSUME NEW id, NEW v
          PROVE  Holds(new, id, v) <=> Holds(lvs, id, v) \/ (id = r.id /\ v = p)
        <3>1. Holds(new, id, v) => Holds(lvs, id, v) \/ (id = r.id /\ v = p)
            BY <2>1, <2>2, <2>5 DEF Holds
        <3>2. Holds(lvs, id, v) => Holds(new, id, v)
            BY <2>6 DEF Holds
        <3>3. id = r.id /\ v = p => Holds(new, id, v)
            BY <2>1, <2>2, <2>7 DEF Holds
        <3> QED BY <3>1, <3>2, <3>3
    <2> QED BY <2>3, <2>8, <2>9
<1> QED BY <1>2, <1>3

-----------------------------------------------------------------------------
(* An id stands at a price of a side exactly when the map says so. *)
MapsQueues ==
    /\ \A s \in Side : \A id \in Ids, p \in Tick :
          Holds(levels[s], id, p) <=> byID[id] = [side |-> s, price |-> p]
    /\ \A s \in Side : NoTwice(levels[s])

(* The order of the Submit in progress is not in the book. *)
CallFresh == call # NoCall => byID[call.o.id] = NoEntry

IndexInv == MapsQueues /\ CallFresh

LEMMA EntriesDiffer ==
    ASSUME NEW s, NEW t, NEW p, NEW v, [side |-> s, price |-> p] = [side |-> t, price |-> v]
    PROVE  s = t /\ p = v
<1>1. [side |-> s, price |-> p].side = s /\ [side |-> s, price |-> p].price = p
    OBVIOUS
<1>2. [side |-> t, price |-> v].side = t /\ [side |-> t, price |-> v].price = v
    OBVIOUS
<1> QED BY <1>1, <1>2

LEMMA EntryIsKey ==
    ASSUME NEW s \in Side, NEW p \in Tick
    PROVE  [side |-> s, price |-> p] # NoEntry
<1>1. [side |-> s, price |-> p] \in Entry
    BY DEF Entry
<1> QED BY <1>1, NothingAssumption

(* A pair leaves the queues and its key the map. *)
LEMMA IndexDrops ==
    ASSUME BookInv, MapsQueues, NEW s \in Side, NEW id0 \in Ids, NEW p0 \in Tick,
           byID[id0] = [side |-> s, price |-> p0],
           NEW new, NoTwice(new),
           \A id, p : Holds(new, id, p) <=> Holds(levels[s], id, p) /\ ~(id = id0 /\ p = p0),
           levels' = [levels EXCEPT ![s] = new],
           byID' = [byID EXCEPT ![id0] = NoEntry]
    PROVE  MapsQueues'
<1>1. levels \in [Side -> Seq(Level)] /\ byID \in [Ids -> Entry \cup {NoEntry}]
    BY DEF BookInv, TypeOK, Levels
<1>2. /\ levels'[s] = new /\ \A t \in Side : t # s => levels'[t] = levels[t]
      /\ byID'[id0] = NoEntry /\ \A id \in Ids : id # id0 => byID'[id] = byID[id]
    BY <1>1
<1>3. ASSUME NEW t \in Side, NEW id \in Ids, NEW p \in Tick
      PROVE  Holds(levels'[t], id, p) <=> byID'[id] = [side |-> t, price |-> p]
    <2>1. Holds(levels[t], id, p) <=> byID[id] = [side |-> t, price |-> p]
        BY DEF MapsQueues
    <2>2. byID[id0] = [side |-> t, price |-> p] => t = s /\ p = p0
        BY EntriesDiffer
    <2>3. [side |-> t, price |-> p] # NoEntry
        BY EntryIsKey
    <2> DEFINE e == [side |-> t, price |-> p]
    <2> HIDE DEF e
    <2>4. CASE id = id0
        <3>1. byID'[id] # e
            BY <1>2, <2>3, <2>4 DEF e
        <3>2. Holds(levels[t], id, p) => t = s /\ p = p0
            BY <2>1, <2>2, <2>4
        <3>3. ~Holds(levels'[t], id, p)
            BY <1>2, <2>4, <3>2
        <3> QED BY <3>1, <3>3 DEF e
    <2>5. CASE id # id0
        <3>1. byID'[id] = byID[id]
            BY <1>2, <2>5
        <3>2. Holds(levels'[t], id, p) <=> Holds(levels[t], id, p)
            BY <1>2, <2>5
        <3> QED BY <2>1, <3>1, <3>2
    <2> QED BY <2>4, <2>5
<1>4. \A t \in Side : NoTwice(levels'[t])
    BY <1>2 DEF MapsQueues
<1> QED BY <1>3, <1>4 DEF MapsQueues

(* A pair joins the queues and its key the map. *)
LEMMA IndexAdds ==
    ASSUME BookInv, MapsQueues, NEW s \in Side, NEW id0 \in Ids, NEW p0 \in Tick,
           byID[id0] = NoEntry,
           NEW new, NoTwice(new),
           \A id, p : Holds(new, id, p) <=> Holds(levels[s], id, p) \/ (id = id0 /\ p = p0),
           levels' = [levels EXCEPT ![s] = new],
           byID' = [byID EXCEPT ![id0] = [side |-> s, price |-> p0]]
    PROVE  MapsQueues'
<1>1. levels \in [Side -> Seq(Level)] /\ byID \in [Ids -> Entry \cup {NoEntry}]
    BY DEF BookInv, TypeOK, Levels
<1>2. /\ levels'[s] = new /\ \A t \in Side : t # s => levels'[t] = levels[t]
      /\ byID'[id0] = [side |-> s, price |-> p0]
      /\ \A id \in Ids : id # id0 => byID'[id] = byID[id]
    BY <1>1
<1>3. ASSUME NEW t \in Side, NEW id \in Ids, NEW p \in Tick
      PROVE  Holds(levels'[t], id, p) <=> byID'[id] = [side |-> t, price |-> p]
    <2>1. Holds(levels[t], id, p) <=> byID[id] = [side |-> t, price |-> p]
        BY DEF MapsQueues
    <2>2. [side |-> s, price |-> p0] = [side |-> t, price |-> p] <=> t = s /\ p = p0
        BY EntriesDiffer
    <2>3. [side |-> t, price |-> p] # NoEntry
        BY EntryIsKey
    <2>4. CASE id = id0
        <3>1. ~Holds(levels[t], id, p)
            BY <2>1, <2>3, <2>4
        <3>2. Holds(levels'[t], id, p) <=> t = s /\ p = p0
            BY <1>2, <2>4, <3>1
        <3> QED BY <1>2, <2>2, <2>4, <3>2
    <2>5. CASE id # id0
        <3>1. byID'[id] = byID[id]
            BY <1>2, <2>5
        <3>2. Holds(levels'[t], id, p) <=> Holds(levels[t], id, p)
            BY <1>2, <2>5
        <3> QED BY <2>1, <3>1, <3>2
    <2> QED BY <2>4, <2>5
<1>4. \A t \in Side : NoTwice(levels'[t])
    BY <1>2 DEF MapsQueues
<1> QED BY <1>3, <1>4 DEF MapsQueues

LEMMA IndexFill ==
    ASSUME BookInv, IndexInv, FillBest
    PROVE  IndexInv'
<1> DEFINE opp   == Opp(call.o.side)
           lvs   == levels[opp]
           best  == lvs[1]
           maker == best.queue[1]
           q     == IF call.remaining <= maker.qty THEN call.remaining ELSE maker.qty
<1>1. call \in Call /\ call.remaining \in Nat \ {0} /\ call.o.id \in Ids
    <2>1. call \in Call
        BY DEF BookInv, TypeOK, FillBest
    <2>2. call.remaining \in Nat /\ call.remaining > 0 /\ call.o \in Order
        BY <2>1 DEF Call, FillBest, LoopContinues
    <2> QED BY <2>1, <2>2 DEF Order
<1>2. opp \in Side /\ lvs # <<>>
    BY DEF Opp, Side, FillBest, LoopContinues
<1>3. SideOK(opp, lvs) /\ lvs \in Seq(Level) /\ NoTwice(lvs)
    BY <1>2, SidesAreOK DEF SideOK, IndexInv, MapsQueues
<1>4. 1 \in 1 .. Len(lvs)
    BY <1>2, <1>3
<1>5. best.price \in Tick /\ best.queue \in Seq(Resting) /\ best.queue # <<>>
    BY <1>2, <1>3, <1>4, LevelIs
<1>6. maker \in Resting /\ 1 \in 1 .. Len(best.queue)
    BY <1>5
<1>7. maker.qty \in Nat \ {0} /\ maker.id \in Ids
    BY <1>6 DEF Resting
<1>8. q \in 1 .. maker.qty
    BY <1>1, <1>7
<1>9. /\ call'.o = call.o
      /\ levels' = [levels EXCEPT ![opp] = AfterFill(levels[opp], q)]
      /\ byID' = IF q = maker.qty THEN [byID EXCEPT ![maker.id] = NoEntry] ELSE byID
    <2>1. /\ call' = [call EXCEPT !.remaining = call.remaining - q,
                                  !.fills = Append(call.fills, [price |-> best.price, qty |-> q,
                                                                maker_id |-> maker.id])]
          /\ levels' = [levels EXCEPT ![opp] = AfterFill(levels[opp], q)]
          /\ byID' = IF q = maker.qty THEN [byID EXCEPT ![maker.id] = NoEntry] ELSE byID
        BY DEF FillBest
    <2> HIDE DEF q, maker, best, lvs, opp
    <2>2. call'.o = call.o
        BY <1>1, <2>1 DEF Call
    <2> QED BY <2>1, <2>2
<1>10. byID[maker.id] = [side |-> opp, price |-> best.price]
    <2>1. Holds(lvs, maker.id, best.price)
        BY <1>4, <1>6, StandsHolds
    <2> HIDE DEF opp, best, maker
    <2> QED BY <1>2, <1>5, <1>7, <2>1 DEF IndexInv, MapsQueues
<1> DEFINE new == AfterFill(lvs, q)
<1>11. /\ NoTwice(new)
       /\ \A id, p : Holds(new, id, p) <=>
             Holds(lvs, id, p) /\ ~(q = maker.qty /\ id = maker.id /\ p = best.price)
    <2>1. q \in 1 .. lvs[1].queue[1].qty
        BY <1>8
    <2> HIDE DEF q, lvs
    <2> QED BY <1>2, <1>3, <2>1, AfterFillIds
<1>12. byID \in [Ids -> Entry \cup {NoEntry}] /\ levels \in [Side -> Seq(Level)]
    BY DEF BookInv, TypeOK, Levels
<1>13. CallFresh'
    <2>1. byID[call.o.id] = NoEntry
        BY DEF IndexInv, CallFresh, FillBest
    <2> HIDE DEF q, maker
    <2>2. byID'[call.o.id] = NoEntry
        BY <1>1, <1>9, <1>12, <2>1
    <2> QED BY <1>9, <2>2 DEF CallFresh
<1>14. levels' = [levels EXCEPT ![opp] = new]
    BY <1>9
<1>15. CASE q = maker.qty
    <2>1. /\ byID' = [byID EXCEPT ![maker.id] = NoEntry]
          /\ \A id, p : Holds(new, id, p) <=> Holds(levels[opp], id, p) /\ ~(id = maker.id /\ p = best.price)
        BY <1>9, <1>11, <1>15
    <2> HIDE DEF new, q, maker, best, opp
    <2>2. MapsQueues'
        BY <1>2, <1>5, <1>7, <1>10, <1>11, <1>14, <2>1, IndexDrops DEF IndexInv
    <2> QED BY <1>13, <2>2 DEF IndexInv
<1>16. CASE q # maker.qty
    <2>1. byID' = byID /\ \A id, p : Holds(new, id, p) <=> Holds(levels[opp], id, p)
        BY <1>9, <1>11, <1>16
    <2> HIDE DEF new, q, maker, best, opp
    <2>2. levels'[opp] = new /\ \A t \in Side : t # opp => levels'[t] = levels[t]
        BY <1>2, <1>12, <1>14
    <2>3. MapsQueues'
        BY <1>11, <2>1, <2>2 DEF IndexInv, MapsQueues
    <2> QED BY <1>13, <2>3 DEF IndexInv
<1> QED BY <1>15, <1>16

LEMMA IndexReturn ==
    ASSUME BookInv, IndexInv, SubmitReturns
    PROVE  IndexInv'
<1> DEFINE o == call.o
           rem == call.remaining
<1>1. call \in Call /\ o \in Order /\ ~Invalid(o) /\ rem \in Nat
    BY DEF BookInv, TypeOK, CallAccepted, SubmitReturns, Call
<1>2. o.id \in Ids /\ o.side \in Side /\ (o.type = "limit" => o.price \in Tick)
    <2> HIDE DEF o
    <2> QED BY <1>1, CheckedOrder
<1>3. call' = NoCall
    BY DEF SubmitReturns
<1>4. CASE UNCHANGED <<levels, byID>>
    BY <1>3, <1>4 DEF IndexInv, MapsQueues, CallFresh
<1>5. CASE rem > 0 /\ o.type = "limit" /\ Rest(o, rem)
    <2> DEFINE lvs == levels[o.side]
               r == [id |-> o.id, qty |-> rem]
    <2>1. byID' = [byID EXCEPT ![o.id] = [side |-> o.side, price |-> o.price]]
        BY <1>5 DEF Rest
    <2>2. PICK i \in 1 .. Len(lvs) + 1 : levels' = [levels EXCEPT ![o.side] = RestAt(lvs, i, o.price, r)]
        BY <1>5 DEF Rest
    <2>3. r \in Resting /\ r.id = o.id
        BY <1>1, <1>2, <1>5 DEF Resting
    <2>4. byID[o.id] = NoEntry /\ o.price \in Tick
        BY <1>2, <1>5 DEF IndexInv, CallFresh, SubmitReturns
    <2>5. SideOK(o.side, lvs) /\ NoTwice(lvs)
        BY <1>2, SidesAreOK DEF IndexInv, MapsQueues
    <2>6. ~Holds(lvs, o.id, o.price)
        <3>1. [side |-> o.side, price |-> o.price] # NoEntry
            BY <1>2, <2>4, EntryIsKey
        <3> HIDE DEF o
        <3> QED BY <1>2, <2>4, <3>1 DEF IndexInv, MapsQueues
    <2> DEFINE new == RestAt(lvs, i, o.price, r)
    <2>7. /\ NoTwice(new)
          /\ \A id, p : Holds(new, id, p) <=> Holds(lvs, id, p) \/ (id = o.id /\ p = o.price)
        <3> HIDE DEF lvs, r, o
        <3> QED BY <1>2, <2>2, <2>3, <2>4, <2>5, <2>6, RestAtIds
    <2>8. levels' = [levels EXCEPT ![o.side] = new]
        BY <2>2
    <2> HIDE DEF new, o
    <2>9. MapsQueues'
        BY <1>2, <2>1, <2>4, <2>7, <2>8, IndexAdds DEF IndexInv
    <2> QED BY <1>3, <2>9 DEF IndexInv, CallFresh
<1> QED BY <1>4, <1>5 DEF SubmitReturns

(* Order id, whose entry has side s and price v, leaves place k of level i. *)
Leaves(id, s, v, i, k) ==
    /\ byID[id] = [side |-> s, price |-> v]
    /\ levels[s][i].price = v
    /\ levels[s][i].queue[k].id = id
    /\ levels' = [levels EXCEPT ![s] = WithoutOrder(levels[s], i, k)]

(* The map leads Cancel to the one place where the order stands. *)
LEMMA CancelFinds ==
    ASSUME BookInv, IndexInv, NEW id \in Ids, CancelResting(id)
    PROVE  \E s \in Side, v \in Tick : \E i \in 1 .. Len(levels[s]) :
              \E k \in 1 .. Len(levels[s][i].queue) : Leaves(id, s, v, i, k)
<1> DEFINE s == byID[id].side
           v == byID[id].price
           lvs == levels[s]
<1>1. byID[id] # NoEntry
  BY DEF CancelResting
<1>2. byID[id] \in Entry
  BY <1>1 DEF BookInv, TypeOK
<1>3. s \in Side /\ v \in Tick /\ byID[id] = [side |-> s, price |-> v]
  BY <1>2 DEF Entry
<1>4. SideOK(s, lvs) /\ lvs \in Seq(Level)
  BY <1>3, SidesAreOK DEF SideOK
<1>5. /\ DOMAIN lvs = 1 .. Len(lvs)
      /\ \A i \in 1 .. Len(lvs) : DOMAIN lvs[i].queue = 1 .. Len(lvs[i].queue)
  <2> HIDE DEF lvs, s
  <2>1. DOMAIN lvs = 1 .. Len(lvs)
    BY <1>4
  <2>2. \A i \in 1 .. Len(lvs) : lvs[i].queue \in Seq(Resting)
    BY <1>3, <1>4, LevelIs
  <2> QED BY <2>1, <2>2
<1>6. Holds(lvs, id, v)
  <2> HIDE DEF s, v
  <2> QED BY <1>3 DEF IndexInv, MapsQueues
<1>7. \E i \in DOMAIN lvs : \E k \in DOMAIN lvs[i].queue : StandsAt(lvs, v, id, i, k)
  <2> HIDE DEF lvs, v
  <2> QED BY <1>5, <1>6 DEF Holds, HasId, StandsAt
<1>8. \E i \in DOMAIN lvs : \E k \in DOMAIN lvs[i].queue :
          StandsAt(lvs, v, id, i, k) /\ levels' = [levels EXCEPT ![s] = WithoutOrder(lvs, i, k)]
  BY <1>7 DEF CancelResting
<1>9. PICK i \in DOMAIN lvs : \E k \in DOMAIN lvs[i].queue :
          StandsAt(lvs, v, id, i, k) /\ levels' = [levels EXCEPT ![s] = WithoutOrder(lvs, i, k)]
  BY <1>8
<1>10. PICK k \in DOMAIN lvs[i].queue :
          StandsAt(lvs, v, id, i, k) /\ levels' = [levels EXCEPT ![s] = WithoutOrder(lvs, i, k)]
  BY <1>9
<1>11. /\ i \in 1 .. Len(lvs) /\ k \in 1 .. Len(lvs[i].queue)
       /\ lvs[i].price = v /\ lvs[i].queue[k].id = id
  BY <1>5, <1>10 DEF StandsAt
<1>12. levels' = [levels EXCEPT ![s] = WithoutOrder(lvs, i, k)]
  BY <1>10
<1> HIDE DEF s, v
<1> QED BY <1>3, <1>11, <1>12 DEF Leaves

LEMMA IndexCancel ==
    ASSUME BookInv, IndexInv, NEW id \in Ids, CancelResting(id)
    PROVE  IndexInv'
<1>1. /\ byID[id] # NoEntry /\ byID' = [byID EXCEPT ![id] = NoEntry] /\ call = NoCall /\ call' = call
    BY DEF CancelResting, NextSeq
<1>2. PICK s \in Side, v \in Tick : \E i \in 1 .. Len(levels[s]) :
          \E k \in 1 .. Len(levels[s][i].queue) : Leaves(id, s, v, i, k)
    BY CancelFinds
<1>3. PICK i \in 1 .. Len(levels[s]) : \E k \in 1 .. Len(levels[s][i].queue) : Leaves(id, s, v, i, k)
    BY <1>2
<1>4. PICK k \in 1 .. Len(levels[s][i].queue) : Leaves(id, s, v, i, k)
    BY <1>3
<1> DEFINE lvs == levels[s]
           new == WithoutOrder(lvs, i, k)
<1>5. /\ byID[id] = [side |-> s, price |-> v] /\ lvs[i].price = v /\ lvs[i].queue[k].id = id
      /\ levels' = [levels EXCEPT ![s] = new]
    BY <1>4 DEF Leaves
<1>6. SideOK(s, lvs) /\ NoTwice(lvs)
    BY SidesAreOK DEF IndexInv, MapsQueues
<1>7. /\ NoTwice(new)
      /\ \A j, p : Holds(new, j, p) <=> Holds(lvs, j, p) /\ ~(j = id /\ p = v)
    <2> HIDE DEF lvs
    <2>1. i \in 1 .. Len(lvs) /\ k \in 1 .. Len(lvs[i].queue)
        BY DEF lvs
    <2> QED BY <1>5, <1>6, <2>1, WithoutOrderIds
<1> HIDE DEF new
<1>8. MapsQueues'
    BY <1>1, <1>5, <1>7, IndexDrops DEF IndexInv
<1> QED BY <1>1, <1>8 DEF IndexInv, CallFresh

LEMMA IndexStarts == Init => IndexInv
<1> SUFFICES ASSUME Init PROVE IndexInv
    OBVIOUS
<1>1. \A s \in Side : levels[s] = <<>>
    BY DEF Init
<1>2. \A s \in Side : NoTwice(levels[s]) /\ \A id, p : ~Holds(levels[s], id, p)
    BY <1>1 DEF NoTwice, Holds
<1>3. \A id \in Ids : byID[id] = NoEntry
    BY DEF Init
<1> QED BY <1>2, <1>3, EntryIsKey DEF Init, IndexInv, MapsQueues, CallFresh

LEMMA IndexKept ==
    ASSUME BookInv, IndexInv, [Next]_vars
    PROVE  IndexInv'
<1>1. CASE UNCHANGED <<levels, byID, call>>
    BY <1>1 DEF IndexInv, MapsQueues, CallFresh
<1>2. UNCHANGED vars => UNCHANGED <<levels, byID, call>>
    BY DEF vars
<1>3. ASSUME NEW o \in Order, SubmitRejected(o) PROVE UNCHANGED <<levels, byID, call>>
    BY <1>3 DEF SubmitRejected
<1>4. ASSUME NEW o \in Order, SubmitAccepted(o) PROVE IndexInv'
    BY <1>4 DEF SubmitAccepted, IndexInv, MapsQueues, CallFresh
<1>5. ASSUME NEW id \in Ids, CancelUnknown(id) PROVE UNCHANGED <<levels, byID, call>>
    BY <1>5 DEF CancelUnknown
<1> QED BY <1>1, <1>2, <1>3, <1>4, <1>5, IndexFill, IndexReturn, IndexCancel DEF Next

LEMMA IndexInvariant == Spec => []IndexInv
<1> QED BY IndexStarts, IndexKept, BookInvariant, PTL DEF Spec

(* The map and the queues never disagree, after any calls and in the       *)
(* middle of a Submit: Cancel finds every order that rests, at once and    *)
(* only there, and Submit refuses exactly the ids that do.                 *)
THEOREM BookIndexIsExact == Spec => []IndexExact
<1>1. BookInv /\ IndexInv => IndexExact
    <2> SUFFICES ASSUME BookInv, IndexInv PROVE IndexExact
        OBVIOUS
    <2>1. \A s \in Side : DOMAIN levels[s] = 1 .. Len(levels[s])
        BY DEF BookInv, TypeOK, Levels
    <2>2. ASSUME NEW s \in Side, NEW i \in 1 .. Len(levels[s])
          PROVE  /\ levels[s][i].price \in Tick /\ levels[s][i].queue \in Seq(Resting)
                 /\ DOMAIN levels[s][i].queue = 1 .. Len(levels[s][i].queue)
        <3>1. levels[s][i].price \in Tick /\ levels[s][i].queue \in Seq(Resting)
            BY SidesAreOK, LevelIs
        <3> QED BY <3>1
    <2>3. ASSUME NEW s \in Side, NEW i \in 1 .. Len(levels[s]), NEW k \in 1 .. Len(levels[s][i].queue)
          PROVE  byID[levels[s][i].queue[k].id] = [side |-> s, price |-> levels[s][i].price]
        <3>1. levels[s][i].queue[k] \in Resting
            <4>1. levels[s][i].queue \in Seq(Resting)
                BY <2>2, Zenon
            <4> QED BY <4>1
        <3>2. levels[s][i].queue[k].id \in Ids
            BY <3>1 DEF Resting
        <3>3. Holds(levels[s], levels[s][i].queue[k].id, levels[s][i].price)
            BY StandsHolds
        <3> DEFINE id == levels[s][i].queue[k].id
                   p == levels[s][i].price
        <3>4. id \in Ids /\ p \in Tick /\ Holds(levels[s], id, p)
            BY <2>2, <3>2, <3>3
        <3> HIDE DEF id, p
        <3>5. byID[id] = [side |-> s, price |-> p]
            BY <3>4 DEF IndexInv, MapsQueues
        <3> QED BY <3>5 DEF id, p
    <2>4. ASSUME NEW id \in Ids, byID[id] # NoEntry
          PROVE  \E i \in DOMAIN levels[byID[id].side] :
                    \E k \in DOMAIN levels[byID[id].side][i].queue :
                       levels[byID[id].side][i].queue[k].id = id
        <3> DEFINE s == byID[id].side
                   p == byID[id].price
        <3>1. byID[id] \in Entry
            BY <2>4 DEF BookInv, TypeOK
        <3>2. s \in Side /\ p \in Tick /\ byID[id] = [side |-> s, price |-> p]
            BY <3>1 DEF Entry
        <3> HIDE DEF s, p
        <3>3. Holds(levels[s], id, p)
            BY <3>2 DEF IndexInv, MapsQueues
        <3>4. \E i \in DOMAIN levels[s] : \E k \in DOMAIN levels[s][i].queue :
                  levels[s][i].queue[k].id = id
            BY <2>1, <2>2, <3>2, <3>3 DEF Holds, HasId
        <3> QED BY <3>4 DEF s
    <2>5. ASSUME NEW s \in Side, NEW i \in 1 .. Len(levels[s]),
                 NEW k \in 1 .. Len(levels[s][i].queue), NEW l \in 1 .. Len(levels[s][i].queue),
                 levels[s][i].queue[k].id = levels[s][i].queue[l].id
          PROVE  k = l
        <3>1. Distinct(levels[s][i].queue)
            BY DEF IndexInv, MapsQueues, NoTwice
        <3> QED BY <2>5, <3>1 DEF Distinct
    <2>6. \A s \in Side : \A i \in DOMAIN levels[s] : \A k \in DOMAIN levels[s][i].queue :
              byID[levels[s][i].queue[k].id] = [side |-> s, price |-> levels[s][i].price]
        <3> TAKE s \in Side
        <3> TAKE i \in DOMAIN levels[s]
        <3> TAKE k \in DOMAIN levels[s][i].queue
        <3>1. i \in 1 .. Len(levels[s])
            BY <2>1
        <3>2. k \in 1 .. Len(levels[s][i].queue)
            BY <2>2, <3>1
        <3> QED BY <2>3, <3>1, <3>2
    <2>7. \A s \in Side : \A i \in DOMAIN levels[s] : \A k, l \in DOMAIN levels[s][i].queue :
              levels[s][i].queue[k].id = levels[s][i].queue[l].id => k = l
        <3> TAKE s \in Side
        <3> TAKE i \in DOMAIN levels[s]
        <3> TAKE k, l \in DOMAIN levels[s][i].queue
        <3>1. i \in 1 .. Len(levels[s])
            BY <2>1
        <3>2. k \in 1 .. Len(levels[s][i].queue) /\ l \in 1 .. Len(levels[s][i].queue)
            BY <2>2, <3>1
        <3> QED BY <2>5, <3>1, <3>2
    <2> QED BY <2>4, <2>6, <2>7 DEF IndexExact
<1> QED BY <1>1, BookInvariant, IndexInvariant, PTL

-----------------------------------------------------------------------------
(* What the operators of the abstract specification come to.               *)

LEMMA MakersAre ==
    ASSUME NEW q, NEW o
    PROVE  /\ \A p \in Tick : \A k \in DOMAIN q[p] :
                 Promise!Acceptable(o, p) => <<p, k>> \in Promise!Makers(q, o)
           /\ \A m \in Promise!Makers(q, o) :
                 /\ m = <<m[1], m[2]>> /\ m[1] \in Tick /\ Promise!Acceptable(o, m[1])
                 /\ m[2] \in DOMAIN q[m[1]]
  BY DEF Promise!Makers, Promise!Ticks, Tick

(* The quantities of the makers. *)
QtyOf(q, M) == [m \in M |-> q[m[1]][m[2]].qty]

LEMMA VolumeIs ==
    ASSUME NEW q, NEW M, IsFiniteSet(M), Whole(M, QtyOf(q, M))
    PROVE  Promise!Volume(q, M) = SumOf(M, QtyOf(q, M))
<1> DEFINE w == QtyOf(q, M)
           At(s) == q[(CHOOSE x \in s : TRUE)[1]][(CHOOSE x \in s : TRUE)[2]].qty
           Solves(h) == h = [s \in SUBSET M |-> IF s = {} THEN 0
                               ELSE At(s) + h[s \ {CHOOSE x \in s : TRUE}]]
           iter == CHOOSE h : Solves(h)
<1>1. Promise!Volume(q, M) = iter[M]
  BY DEF Promise!Volume, Promise!MapThenSumSet, Promise!MapThenFoldSet, Promise!Resting
<1>2. \A x \in M : w[x] \in Int /\ w[x] = q[x[1]][x[2]].qty
  BY DEF QtyOf, Whole
<1>3. PICK g : Sums(g, M, w)
  BY <1>2, SumsExist
<1>4. Solves(g)
  <2>1. ASSUME NEW s \in SUBSET M
        PROVE  g[s] = IF s = {} THEN 0 ELSE At(s) + g[s \ {CHOOSE x \in s : TRUE}]
    <3>1. s # {} => Chosen(s) \in M
      BY ChosenIn
    <3>2. g[s] = IF s = {} THEN 0 ELSE w[Chosen(s)] + g[s \ {Chosen(s)}]
      BY <1>3 DEF Sums
    <3> HIDE DEF w
    <3>3. g[s] = IF s = {} THEN 0 ELSE q[Chosen(s)[1]][Chosen(s)[2]].qty + g[s \ {Chosen(s)}]
      BY <1>2, <3>1, <3>2
    <3> QED BY <3>3 DEF Chosen
  <2>2. g \in [SUBSET M -> Int]
    BY <1>3 DEF Sums
  <2> HIDE DEF At
  <2> QED BY <2>1, <2>2
<1>5. Solves(iter)
  <2> HIDE DEF Solves
  <2> QED BY <1>4
<1> HIDE DEF iter, w
<1>6. iter[M] = SumOf(M, w)
  <2>1. ASSUME NEW s \in SUBSET M
        PROVE  /\ s = {} => iter[s] = 0
               /\ s # {} => iter[s] = w[Chosen(s)] + iter[s \ {Chosen(s)}]
    <3>1. iter[s] = IF s = {} THEN 0 ELSE q[Chosen(s)[1]][Chosen(s)[2]].qty + iter[s \ {Chosen(s)}]
      BY <1>5 DEF Chosen
    <3>2. s # {} => Chosen(s) \in M
      BY ChosenIn
    <3> QED BY <1>2, <3>1, <3>2
  <2> QED BY <1>2, <2>1, RecursionIsSum
<1> QED BY <1>1, <1>6 DEF w

(* The queues of a side that order o meets. *)
Queues(q, o) ==
    /\ q \in [Tick -> Seq(Resting)]
    /\ IsFiniteSet(Promise!Makers(q, o))
    /\ o.qty \in Nat

LEMMA MakerIs ==
    ASSUME NEW q, NEW o, Queues(q, o), NEW m \in Promise!Makers(q, o)
    PROVE  /\ m = <<m[1], m[2]>> /\ m[1] \in Tick /\ m[1] \in Int /\ Promise!Acceptable(o, m[1])
           /\ m[2] \in 1 .. Len(q[m[1]]) /\ m[2] \in Int
           /\ q[m[1]][m[2]] \in Resting
           /\ q[m[1]][m[2]].qty \in Nat \ {0}
<1>1. /\ m = <<m[1], m[2]>> /\ m[1] \in Tick /\ Promise!Acceptable(o, m[1])
      /\ m[2] \in DOMAIN q[m[1]]
  BY MakersAre
<1>2. m[1] \in Int
  BY <1>1, BookAssumption DEF Tick
<1>3. q[m[1]] \in Seq(Resting)
  BY <1>1 DEF Queues
<1>4. m[2] \in 1 .. Len(q[m[1]]) /\ m[2] \in Int /\ q[m[1]][m[2]] \in Resting
  BY <1>1, <1>3
<1>5. q[m[1]][m[2]].qty \in Nat \ {0}
  BY <1>4 DEF Resting
<1> QED BY <1>1, <1>2, <1>4, <1>5

AllQty(q, o) == QtyOf(q, Promise!Makers(q, o))

LEMMA VolumeWithin ==
    ASSUME NEW q, NEW o, Queues(q, o), NEW M \in SUBSET Promise!Makers(q, o)
    PROVE  /\ IsFiniteSet(M) /\ Natural(M, AllQty(q, o)) /\ Whole(M, AllQty(q, o))
           /\ Promise!Volume(q, M) = SumOf(M, AllQty(q, o))
           /\ SumOf(M, AllQty(q, o)) \in Nat
<1> DEFINE w == QtyOf(q, M)
           v == AllQty(q, o)
<1>1. IsFiniteSet(M)
  BY FS_Subset DEF Queues
<1>2. \A m \in M : w[m] \in Nat /\ v[m] = w[m] /\ w[m] \in Int
  <2> TAKE m \in M
  <2>1. q[m[1]][m[2]].qty \in Nat
    BY MakerIs
  <2> QED BY <2>1 DEF AllQty, QtyOf
<1> HIDE DEF w, v
<1>3. Natural(M, v) /\ Whole(M, v) /\ Whole(M, w)
  BY <1>2 DEF Natural, Whole
<1>4. Promise!Volume(q, M) = SumOf(M, w)
  BY <1>1, <1>3, VolumeIs DEF w
<1>5. SumOf(M, w) = SumOf(M, v)
  BY <1>1, <1>2, SumOfSame
<1>6. SumOf(M, v) \in Nat
  BY <1>1, <1>3, SumOfNat
<1> QED BY <1>1, <1>3, <1>4, <1>5, <1>6 DEF v

LEMMA LesserOf ==
    ASSUME NEW a \in Int, NEW b \in Int
    PROVE  /\ Promise!Min({a, b}) = IF a <= b THEN a ELSE b
           /\ Promise!Max({a, b}) = IF a <= b THEN b ELSE a
  BY DEF Promise!Min, Promise!Max

(* The makers that come before m. *)
AheadOf(q, o, m) == {n \in Promise!Makers(q, o) : Promise!Before(o, n, m)}

LEMMA TradedIs ==
    ASSUME NEW q, NEW o, Queues(q, o), NEW m \in Promise!Makers(q, o), NEW a,
           a = SumOf(AheadOf(q, o, m), AllQty(q, o))
    PROVE  /\ a \in Nat
           /\ Promise!Traded(q, o, m) = IF o.qty <= a THEN 0
                                        ELSE IF q[m[1]][m[2]].qty <= o.qty - a THEN q[m[1]][m[2]].qty
                                        ELSE o.qty - a
<1> DEFINE b == q[m[1]][m[2]].qty
           c == o.qty - a
<1>1. b \in Nat \ {0} /\ o.qty \in Nat
  BY MakerIs DEF Queues
<1>2. a \in Nat /\ Promise!Volume(q, AheadOf(q, o, m)) = a
  BY VolumeWithin DEF AheadOf
<1>3. Promise!Traded(q, o, m) = Promise!Max({0, Promise!Min({b, c})})
  BY <1>2 DEF Promise!Traded, AheadOf, Promise!Resting
<1>4. b \in Int /\ c \in Int
  BY <1>1, <1>2
<1> HIDE DEF b, c
<1> DEFINE d == Promise!Min({b, c})
<1>5. d = IF b <= c THEN b ELSE c
  BY <1>4, LesserOf
<1>6. d \in Int
  BY <1>4, <1>5
<1> HIDE DEF d
<1>7. Promise!Max({0, d}) = IF 0 <= d THEN d ELSE 0
  BY <1>6, LesserOf
<1>8. Promise!Traded(q, o, m) = IF 0 <= d THEN d ELSE 0
  BY <1>3, <1>7 DEF d
<1>9. b \in Nat \ {0} /\ c = o.qty - a
  BY <1>1 DEF b, c
<1>10. Promise!Traded(q, o, m) = IF o.qty <= a THEN 0 ELSE IF b <= o.qty - a THEN b ELSE o.qty - a
  BY <1>1, <1>2, <1>5, <1>8, <1>9
<1> QED BY <1>2, <1>10 DEF b

LEMMA TotalTraded ==
    ASSUME NEW q, NEW o, Queues(q, o), NEW v, v = SumOf(Promise!Makers(q, o), AllQty(q, o))
    PROVE  v \in Nat /\ Promise!Total(q, o) = IF o.qty <= v THEN o.qty ELSE v
<1>1. v \in Nat /\ Promise!Volume(q, Promise!Makers(q, o)) = v
  BY VolumeWithin
<1>2. o.qty \in Int /\ v \in Int
  BY <1>1 DEF Queues
<1> QED BY <1>1, <1>2, LesserOf DEF Promise!Total

-----------------------------------------------------------------------------
(* Elements in the order of their places.                                  *)

(* h lists the elements of S, without repetition. *)
Lists(h, n, S) ==
    /\ DOMAIN h = 1 .. n
    /\ \A i \in 1 .. n : h[i] \in S
    /\ \A x \in S : \E i \in 1 .. n : x = h[i]
    /\ \A i, j \in 1 .. n : h[i] = h[j] => i = j

(* h is a sequence of length n. *)
Tabled(h, n) == h = [i \in 1 .. n |-> h[i]]

(* The elements of h have the places at which h has them. *)
Places(place, h, n) == \A i \in 1 .. n : place[h[i]] = i

(* The instance has a Cardinality of its own. *)
LEMMA SameCardinality ==
    ASSUME NEW S
    PROVE  Promise!Cardinality(S) = Cardinality(S)
  BY DEF Promise!Cardinality, Cardinality

LEMMA ListCounts ==
    ASSUME NEW n \in Nat, NEW h, NEW S, Lists(h, n, S)
    PROVE  IsFiniteSet(S) /\ Cardinality(S) = n
<1> DEFINE f == [i \in 1 .. n |-> h[i]]
<1>1. f \in Bijection(1 .. n, S)
  BY DEF Lists, Bijection, Injection, Surjection, IsInjective
<1>2. ExistsBijection(1 .. n, S)
  BY <1>1 DEF ExistsBijection
<1>3. Cardinality(S) = n
  BY <1>2, FS_CountingElements
<1>4. IsFiniteSet(S)
  BY <1>2, FS_NatBijection
<1> QED BY <1>3, <1>4

LEMMA InOrderIs ==
    ASSUME NEW n \in Nat, NEW S, NEW h, Tabled(h, n), Lists(h, n, S),
           NEW place, DOMAIN place = S, Places(place, h, n)
    PROVE  Promise!InOrder(place) = h
<1>1. Promise!Cardinality(S) = n
  BY ListCounts, SameCardinality
<1>2. Promise!InOrder(place) =
        [i \in 1 .. n |-> CHOOSE x \in S : i \in Promise!Range(place) => place[x] = i]
  BY <1>1 DEF Promise!InOrder, Promise!Inverse
<1>3. ASSUME NEW i \in 1 .. n
      PROVE  (CHOOSE x \in S : i \in Promise!Range(place) => place[x] = i) = h[i]
  <2>1. h[i] \in S /\ place[h[i]] = i
    BY DEF Lists, Places
  <2>2. i \in Promise!Range(place)
    BY <2>1 DEF Promise!Range
  <2>3. \A x \in S : place[x] = i => x = h[i]
    BY DEF Lists, Places
  <2> QED BY <2>1, <2>2, <2>3
<1> QED BY <1>2, <1>3 DEF Tabled

Rising(at, n) == \A i, j \in 1 .. n : i < j => at[i] < at[j]

(* r has the elements of s at the places that at names. *)
Picks(r, s, at, n) == r = [i \in 1 .. n |-> s[at[i]]]

(* at names the places in D from the first to the last. *)
LEMMA KeptIs ==
    ASSUME NEW s, NEW n \in Nat, NEW D \in SUBSET Int, NEW at, Tabled(at, n), Lists(at, n, D),
           Rising(at, n)
    PROVE  Picks(Promise!Kept(s, D), s, at, n)
<1> DEFINE place == [k \in D |-> Promise!Cardinality({j \in D : j <= k})]
<1>1. ASSUME NEW i \in 1 .. n PROVE Cardinality({j \in D : j <= at[i]}) = i
  <2> DEFINE U == {j \in D : j <= at[i]}
             g == [j \in 1 .. i |-> at[j]]
  <2>0. D \subseteq Int /\ i \in Nat
    OBVIOUS
  <2>1. i \in Nat /\ \A j \in 1 .. n : at[j] \in Int
    <3>1. \A j \in 1 .. n : at[j] \in D
      BY DEF Lists
    <3> HIDE DEF U, g, place
    <3> QED BY <2>0, <3>1, Zenon
  <2>2. \A j \in 1 .. n : at[j] <= at[i] <=> j <= i
    <3> TAKE j \in 1 .. n
    <3>1. j < i \/ j = i \/ i < j
      OBVIOUS
    <3> QED BY <2>1, <3>1 DEF Rising
  <2>3. Lists(g, i, U)
    <3>1. \A j \in 1 .. i : j \in 1 .. n /\ g[j] = at[j] /\ at[j] \in U
      BY <2>2 DEF Lists
    <3>2. \A x \in U : \E j \in 1 .. i : x = g[j]
      <4> TAKE x \in U
      <4>1. PICK j \in 1 .. n : x = at[j]
        BY DEF Lists
      <4>2. j \in 1 .. i
        BY <2>2, <4>1
      <4> QED BY <4>1, <4>2
    <3> HIDE DEF U
    <3> QED BY <3>1, <3>2 DEF Lists
  <2> HIDE DEF U, g
  <2>4. Cardinality(U) = i
    BY <2>1, <2>3, ListCounts
  <2> QED BY <2>4 DEF U
<1>2. DOMAIN place = D /\ Places(place, at, n)
  BY <1>1, SameCardinality DEF Lists, Places
<1>3. Promise!Kept(s, D) = [i \in DOMAIN Promise!InOrder(place) |-> s[Promise!InOrder(place)[i]]]
  BY DEF Promise!Kept
<1> HIDE DEF place
<1>4. Promise!InOrder(place) = at
  BY <1>2, InOrderIs
<1> QED BY <1>3, <1>4 DEF Lists, Picks

(* r is what follows the first c of the n elements of s. *)
Follows(r, s, c, n) == \A k \in c + 1 .. n : s[k] = r[k - c]

LEMMA KeptSuffix ==
    ASSUME NEW T, NEW s, NEW n \in Nat, NEW r \in Seq(T), NEW c \in 0 .. n, Len(r) = n - c,
           Follows(r, s, c, n)
    PROVE  Promise!Kept(s, c + 1 .. n) = r
<1> DEFINE D == c + 1 .. n
           l == n - c
           at == [i \in 1 .. l |-> i + c]
<1>1. l \in Nat /\ D \in SUBSET Int /\ Len(r) = l
  OBVIOUS
<1>2. Lists(at, l, D)
  <2>1. \A x \in D : x - c \in 1 .. l /\ x = at[x - c]
    OBVIOUS
  <2>2. \A x \in D : \E i \in 1 .. l : x = at[i]
    BY <2>1
  <2>3. \A i \in 1 .. l : at[i] \in D
    OBVIOUS
  <2> QED BY <2>2, <2>3 DEF Lists
<1>3. Rising(at, l)
  BY DEF Rising
<1>4. Tabled(at, l)
  BY DEF Tabled
<1>5. \A i \in 1 .. l : s[at[i]] = r[i]
  <2> TAKE i \in 1 .. l
  <2>1. i + c \in c + 1 .. n /\ (i + c) - c = i /\ at[i] = i + c
    OBVIOUS
  <2> QED BY <2>1 DEF Follows
<1> HIDE DEF at, l, D
<1>6. Picks(Promise!Kept(s, D), s, at, l)
  BY <1>1, <1>2, <1>3, <1>4, KeptIs
<1>7. r = [i \in 1 .. l |-> r[i]]
  BY <1>1
<1>8. Promise!Kept(s, D) = r
  BY <1>5, <1>6, <1>7 DEF Picks
<1> QED BY <1>8 DEF D

(* A sequence without its element at place k. *)
LEMMA KeptWithout ==
    ASSUME NEW T, NEW s \in Seq(T), NEW k \in 1 .. Len(s)
    PROVE  Promise!Kept(s, (1 .. Len(s)) \ {k}) = RemoveAt(s, k)
<1> DEFINE D == (1 .. Len(s)) \ {k}
           l == Len(s) - 1
           at == [i \in 1 .. l |-> IF i < k THEN i ELSE i + 1]
<1>1. l \in Nat /\ D \in SUBSET Int
  OBVIOUS
<1>2. Lists(at, l, D)
  <2>1. \A x \in D : x < k => x \in 1 .. l /\ x = at[x]
    OBVIOUS
  <2>2. \A x \in D : ~(x < k) => x - 1 \in 1 .. l /\ x = at[x - 1]
    OBVIOUS
  <2>3. \A i \in 1 .. l : at[i] \in D
    OBVIOUS
  <2>4. \A i, j \in 1 .. l : at[i] = at[j] => i = j
    OBVIOUS
  <2>5. DOMAIN at = 1 .. l
    OBVIOUS
  <2> HIDE DEF at
  <2> QED BY <2>1, <2>2, <2>3, <2>4, <2>5 DEF Lists
<1>3. Rising(at, l)
  BY DEF Rising
<1>4. Tabled(at, l)
  BY DEF Tabled
<1>5. /\ RemoveAt(s, k) \in Seq(T) /\ Len(RemoveAt(s, k)) = l
      /\ \A i \in 1 .. l : RemoveAt(s, k)[i] = s[at[i]]
  <2>1. /\ RemoveAt(s, k) \in Seq(T) /\ Len(RemoveAt(s, k)) = l
        /\ \A i \in 1 .. l : RemoveAt(s, k)[i] = IF i < k THEN s[i] ELSE s[i + 1]
    BY RemoveAtIs
  <2> QED BY <2>1
<1> DEFINE r == RemoveAt(s, k)
<1> HIDE DEF at, l, D, r
<1>6. Picks(Promise!Kept(s, D), s, at, l)
  BY <1>1, <1>2, <1>3, <1>4, KeptIs
<1>7. r = [i \in 1 .. l |-> r[i]]
  BY <1>1, <1>5 DEF r
<1>8. Promise!Kept(s, D) = r
  BY <1>5, <1>6, <1>7 DEF r, Picks
<1> QED BY <1>8 DEF D, r

-----------------------------------------------------------------------------
(* The queue that a caller sees at a price, through the operations of the  *)
(* book on its levels.                                                     *)

LEMMA QueueFound ==
    ASSUME NEW s \in Side, NEW lvs, SideOK(s, lvs), NEW i \in 1 .. Len(lvs), NEW p, lvs[i].price = p
    PROVE  QueueAt(lvs, p) = lvs[i].queue
<1>1. DOMAIN lvs = 1 .. Len(lvs)
  BY DEF SideOK
<1>2. \A j \in 1 .. Len(lvs) : lvs[j].price = p => j = i
  BY PricesDiffer
<1> QED BY <1>1, <1>2 DEF QueueAt

LEMMA QueueMissing ==
    ASSUME NEW s \in Side, NEW lvs, SideOK(s, lvs), NEW p, \A i \in 1 .. Len(lvs) : lvs[i].price # p
    PROVE  QueueAt(lvs, p) = <<>>
<1>1. DOMAIN lvs = 1 .. Len(lvs)
  BY DEF SideOK
<1> QED BY <1>1 DEF QueueAt

LEMMA QueueIs ==
    ASSUME NEW s \in Side, NEW lvs, SideOK(s, lvs), NEW p
    PROVE  /\ QueueAt(lvs, p) \in Seq(Resting)
           /\ QueueAt(lvs, p) # <<>> <=> \E i \in 1 .. Len(lvs) : lvs[i].price = p
<1>1. CASE \E i \in 1 .. Len(lvs) : lvs[i].price = p
  <2>1. PICK i \in 1 .. Len(lvs) : lvs[i].price = p
    BY <1>1
  <2>2. QueueAt(lvs, p) = lvs[i].queue
    BY <2>1, QueueFound
  <2>3. lvs[i].queue \in Seq(Resting) /\ lvs[i].queue # <<>>
    BY LevelIs
  <2> QED BY <1>1, <2>2, <2>3
<1>2. CASE ~\E i \in 1 .. Len(lvs) : lvs[i].price = p
  <2>1. QueueAt(lvs, p) = <<>>
    BY <1>2, QueueMissing
  <2> QED BY <1>2, <2>1
<1> QED BY <1>1, <1>2

(* The levels of price p are the same. *)
SameLevel(new, lvs, p) ==
    /\ \A i \in 1 .. Len(lvs) : lvs[i].price = p => \E j \in 1 .. Len(new) : new[j] = lvs[i]
    /\ \A j \in 1 .. Len(new) : new[j].price = p => \E i \in 1 .. Len(lvs) : new[j] = lvs[i]

LEMMA QueueUnmoved ==
    ASSUME NEW s \in Side, NEW lvs, NEW new, SideOK(s, lvs), SideOK(s, new), NEW p,
           SameLevel(new, lvs, p)
    PROVE  QueueAt(new, p) = QueueAt(lvs, p)
<1>1. CASE \E i \in 1 .. Len(lvs) : lvs[i].price = p
  <2>1. PICK i \in 1 .. Len(lvs) : lvs[i].price = p
    BY <1>1
  <2>2. PICK j \in 1 .. Len(new) : new[j] = lvs[i]
    BY <2>1 DEF SameLevel
  <2>3. QueueAt(lvs, p) = lvs[i].queue
    BY <2>1, QueueFound
  <2>4. QueueAt(new, p) = new[j].queue
    BY <2>1, <2>2, QueueFound
  <2> QED BY <2>2, <2>3, <2>4
<1>2. CASE ~\E i \in 1 .. Len(lvs) : lvs[i].price = p
  <2>1. QueueAt(lvs, p) = <<>>
    BY <1>2, QueueMissing
  <2>2. \A j \in 1 .. Len(new) : new[j].price # p
    BY <1>2 DEF SameLevel
  <2>3. QueueAt(new, p) = <<>>
    BY <2>2, QueueMissing
  <2> QED BY <2>1, <2>3
<1> QED BY <1>1, <1>2

LEMMA RequeueQueues ==
    ASSUME NEW s \in Side, NEW lvs, SideOK(s, lvs), NEW i \in 1 .. Len(lvs),
           NEW qu \in Seq(Resting), qu # <<>>, NEW p
    PROVE  QueueAt(Requeued(lvs, i, qu), p) = IF p = lvs[i].price THEN qu ELSE QueueAt(lvs, p)
<1> DEFINE new == Requeued(lvs, i, qu)
           lv  == [lvs[i] EXCEPT !.queue = qu]
<1>0. SideOK(s, new)
  BY RequeueOK
<1>1. lvs \in Seq(Level) /\ lvs[i] \in Level
  BY LevelIs DEF SideOK
<1>2. lv \in Level /\ lv.price = lvs[i].price /\ lv.queue = qu
  BY <1>1 DEF Level
<1>3. new = [lvs EXCEPT ![i] = lv]
  BY DEF Requeued
<1> HIDE DEF new, lv
<1>4. /\ new \in Seq(Level) /\ Len(new) = Len(lvs)
      /\ \A j \in 1 .. Len(lvs) : new[j] = IF j = i THEN lv ELSE lvs[j]
  BY <1>1, <1>2, <1>3, ExceptSeq
<1>5. CASE p = lvs[i].price
  <2>1. i \in 1 .. Len(new) /\ new[i].price = p /\ new[i].queue = qu
    BY <1>2, <1>4, <1>5
  <2> QED BY <1>0, <1>5, <2>1, QueueFound DEF new
<1>6. CASE p # lvs[i].price
  <2>1. SameLevel(new, lvs, p)
    BY <1>2, <1>4, <1>6 DEF SameLevel
  <2> QED BY <1>0, <1>6, <2>1, QueueUnmoved DEF new
<1> QED BY <1>5, <1>6

LEMMA RemoveLevelQueues ==
    ASSUME NEW s \in Side, NEW lvs, SideOK(s, lvs), NEW i \in 1 .. Len(lvs), NEW p
    PROVE  QueueAt(RemoveAt(lvs, i), p) = IF p = lvs[i].price THEN <<>> ELSE QueueAt(lvs, p)
<1> DEFINE new == RemoveAt(lvs, i)
           From(j) == IF j < i THEN j ELSE j + 1
<1>0. SideOK(s, new)
  BY RemoveLevelOK
<1>1. lvs \in Seq(Level) /\ Len(lvs) \in Nat
  BY DEF SideOK
<1>2. /\ new \in Seq(Level) /\ Len(new) = Len(lvs) - 1
      /\ \A j \in 1 .. Len(lvs) - 1 : new[j] = IF j < i THEN lvs[j] ELSE lvs[j + 1]
  BY <1>1, RemoveAtIs
<1> HIDE DEF new
<1>3. \A j \in 1 .. Len(new) : From(j) \in 1 .. Len(lvs) /\ From(j) # i /\ new[j] = lvs[From(j)]
  BY <1>1, <1>2
<1>4. \A m \in 1 .. Len(lvs) : m # i => \E j \in 1 .. Len(new) : From(j) = m
  <2> TAKE m \in 1 .. Len(lvs)
  <2>1. CASE m < i
    <3>1. m \in 1 .. Len(new) /\ From(m) = m
      BY <1>1, <1>2, <2>1
    <3> QED BY <3>1
  <2>2. CASE m > i
    <3>1. m - 1 \in 1 .. Len(new) /\ From(m - 1) = m
      BY <1>1, <1>2, <2>2
    <3> QED BY <3>1
  <2> QED BY <1>1, <2>1, <2>2
<1> HIDE DEF From
<1>5. \A j \in 1 .. Len(lvs) : lvs[j].price = lvs[i].price => j = i
  BY PricesDiffer
<1>6. CASE p = lvs[i].price
  <2>1. \A j \in 1 .. Len(new) : new[j].price # p
    BY <1>3, <1>5, <1>6
  <2> QED BY <1>0, <1>6, <2>1, QueueMissing DEF new
<1>7. CASE p # lvs[i].price
  <2>1. SameLevel(new, lvs, p)
    <3>1. ASSUME NEW m \in 1 .. Len(lvs), lvs[m].price = p PROVE \E j \in 1 .. Len(new) : new[j] = lvs[m]
      <4>1. PICK j \in 1 .. Len(new) : From(j) = m
        BY <1>4, <1>7, <3>1
      <4> QED BY <1>3, <4>1
    <3>2. \A j \in 1 .. Len(new) : \E m \in 1 .. Len(lvs) : new[j] = lvs[m]
      BY <1>3
    <3> QED BY <3>1, <3>2 DEF SameLevel
  <2> QED BY <1>0, <1>7, <2>1, QueueUnmoved DEF new
<1> QED BY <1>6, <1>7

LEMMA TailIsRemoval ==
    ASSUME NEW T, NEW q \in Seq(T), q # <<>>
    PROVE  RemoveAt(q, 1) = Tail(q)
<1>1. 1 \in 1 .. Len(q) /\ Len(q) \in Nat
  OBVIOUS
<1>2. /\ RemoveAt(q, 1) \in Seq(T) /\ Len(RemoveAt(q, 1)) = Len(q) - 1
      /\ \A j \in 1 .. Len(q) - 1 : RemoveAt(q, 1)[j] = IF j < 1 THEN q[j] ELSE q[j + 1]
  BY <1>1, RemoveAtIs
<1>3. /\ Tail(q) \in Seq(T) /\ Len(Tail(q)) = Len(q) - 1
      /\ \A j \in 1 .. Len(q) - 1 : Tail(q)[j] = q[j + 1]
  OBVIOUS
<1>4. \A j \in 1 .. Len(q) - 1 : RemoveAt(q, 1)[j] = Tail(q)[j]
  BY <1>1, <1>2, <1>3
<1> DEFINE a == RemoveAt(q, 1)
           b == Tail(q)
<1> HIDE DEF a, b
<1>5. a \in Seq(T) /\ b \in Seq(T) /\ Len(a) = Len(b) /\ \A j \in 1 .. Len(a) : a[j] = b[j]
  BY <1>2, <1>3, <1>4 DEF a, b
<1>6. a = b
  BY <1>5, SeqEqual
<1> QED BY <1>6 DEF a, b

(* What a fill of q leaves of the best queue. *)
Given(qu, q) == IF qu[1].qty # q THEN [qu EXCEPT ![1].qty = @ - q] ELSE Tail(qu)

LEMMA FillQueues ==
    ASSUME NEW s \in Side, NEW lvs, SideOK(s, lvs), lvs # <<>>,
           NEW q \in 1 .. lvs[1].queue[1].qty, NEW p
    PROVE  QueueAt(AfterFill(lvs, q), p) =
              IF p = lvs[1].price THEN Given(lvs[1].queue, q) ELSE QueueAt(lvs, p)
<1> DEFINE qu == lvs[1].queue
<1>1. lvs \in Seq(Level) /\ 1 \in 1 .. Len(lvs)
  BY DEF SideOK
<1>2. qu \in Seq(Resting) /\ qu # <<>>
  BY <1>1, LevelIs
<1>3. 1 \in 1 .. Len(qu) /\ qu[1] \in Resting /\ qu[1].qty \in Nat \ {0}
  <2> HIDE DEF qu
  <2>1. 1 \in 1 .. Len(qu) /\ qu[1] \in Resting
    BY <1>2
  <2> QED BY <2>1 DEF Resting
<1>4. CASE qu[1].qty # q
  <2> DEFINE nq == [qu EXCEPT ![1].qty = @ - q]
             nr == [qu[1] EXCEPT !.qty = qu[1].qty - q]
  <2>1. nr \in Resting
    BY <1>3, <1>4 DEF Resting
  <2>2. nq = [qu EXCEPT ![1] = nr]
    OBVIOUS
  <2>3. nq \in Seq(Resting) /\ Len(nq) = Len(qu)
    <3> HIDE DEF nq, nr, qu
    <3> QED BY <1>2, <1>3, <2>1, <2>2, ExceptSeq
  <2>4. nq # <<>>
    <3> HIDE DEF nq, qu
    <3> QED BY <1>2, <1>3, <2>3
  <2>5. AfterFill(lvs, q) = Requeued(lvs, 1, nq)
    BY <1>4 DEF AfterFill, Requeued
  <2>6. Given(qu, q) = nq
    BY <1>4 DEF Given
  <2> HIDE DEF nq
  <2> QED BY <1>1, <2>3, <2>4, <2>5, <2>6, RequeueQueues
<1>5. CASE qu[1].qty = q /\ Len(qu) = 1
  <2>1. AfterFill(lvs, q) = RemoveAt(lvs, 1)
    BY <1>1, <1>5, TailIsRemoval DEF AfterFill
  <2>2. Given(qu, q) = <<>>
    <3>1. Given(qu, q) = Tail(qu)
      BY <1>5 DEF Given
    <3> HIDE DEF qu
    <3>2. Tail(qu) \in Seq(Resting) /\ Len(Tail(qu)) = 0
      BY <1>2, <1>5
    <3> QED BY <3>1, <3>2, EmptySeq
  <2> QED BY <1>1, <2>1, <2>2, RemoveLevelQueues
<1>6. CASE qu[1].qty = q /\ Len(qu) # 1
  <2>1. AfterFill(lvs, q) = Requeued(lvs, 1, Tail(qu))
    BY <1>6 DEF AfterFill, Requeued
  <2>2. Tail(qu) \in Seq(Resting) /\ Tail(qu) # <<>>
    <3> HIDE DEF qu
    <3>1. Tail(qu) \in Seq(Resting) /\ Len(Tail(qu)) = Len(qu) - 1
      BY <1>2, HeadTailProperties
    <3> QED BY <1>2, <1>3, <1>6, <3>1
  <2>3. Given(qu, q) = Tail(qu)
    BY <1>6 DEF Given
  <2> DEFINE nq == Tail(qu)
  <2> HIDE DEF nq, qu
  <2>4. QueueAt(AfterFill(lvs, q), p) = IF p = lvs[1].price THEN Given(qu, q) ELSE QueueAt(lvs, p)
    <3>1. nq \in Seq(Resting) /\ nq # <<>> /\ AfterFill(lvs, q) = Requeued(lvs, 1, nq) /\ Given(qu, q) = nq
      BY <2>1, <2>2, <2>3 DEF nq
    <3> QED BY <1>1, <3>1, RequeueQueues
  <2> QED BY <2>4 DEF qu
<1> QED BY <1>4, <1>5, <1>6

LEMMA WithoutOrderQueues ==
    ASSUME NEW s \in Side, NEW lvs, SideOK(s, lvs), NEW i \in 1 .. Len(lvs),
           NEW k \in 1 .. Len(lvs[i].queue), NEW p
    PROVE  QueueAt(WithoutOrder(lvs, i, k), p) =
              IF p = lvs[i].price THEN RemoveAt(lvs[i].queue, k) ELSE QueueAt(lvs, p)
<1> DEFINE qu == lvs[i].queue
           rq == RemoveAt(qu, k)
<1>1. qu \in Seq(Resting) /\ qu # <<>> /\ k \in 1 .. Len(qu)
  BY LevelIs
<1>2. rq \in Seq(Resting) /\ Len(rq) = Len(qu) - 1 /\ Len(qu) \in Nat
  <2> HIDE DEF qu
  <2> QED BY <1>1, RemoveAtIs
<1>3. CASE Len(qu) = 1
  <2>1. WithoutOrder(lvs, i, k) = RemoveAt(lvs, i)
    BY <1>3 DEF WithoutOrder
  <2>2. rq = <<>>
    <3> HIDE DEF rq
    <3> QED BY <1>2, <1>3, EmptySeq
  <2>3. QueueAt(WithoutOrder(lvs, i, k), p) = IF p = lvs[i].price THEN rq ELSE QueueAt(lvs, p)
    <3> HIDE DEF rq, qu
    <3> QED BY <2>1, <2>2, RemoveLevelQueues
  <2> QED BY <2>3
<1>4. CASE Len(qu) # 1
  <2>1. WithoutOrder(lvs, i, k) = Requeued(lvs, i, rq)
    BY <1>4 DEF WithoutOrder, Requeued
  <2>2. rq # <<>>
    <3> HIDE DEF rq, qu
    <3> QED BY <1>1, <1>2, <1>4
  <2>3. QueueAt(WithoutOrder(lvs, i, k), p) = IF p = lvs[i].price THEN rq ELSE QueueAt(lvs, p)
    <3> HIDE DEF rq, qu
    <3> QED BY <1>2, <2>1, <2>2, RequeueQueues
  <2> QED BY <2>3
<1> QED BY <1>3, <1>4

(* new is q with e put in at place i. *)
Inserted(new, T, q, i, e) ==
    /\ new \in Seq(T) /\ Len(new) = Len(q) + 1
    /\ \A j \in 1 .. i - 1 : new[j] = q[j]
    /\ new[i] = e
    /\ \A j \in i + 1 .. Len(q) + 1 : new[j] = q[j - 1]

LEMMA InsertAtInserts ==
    ASSUME NEW T, NEW q \in Seq(T), NEW i \in 1 .. Len(q) + 1, NEW e \in T
    PROVE  Inserted(InsertAt(q, i, e), T, q, i, e)
  BY InsertAtIs DEF Inserted

LEMMA RestQueues ==
    ASSUME NEW s \in Side, NEW lvs, SideOK(s, lvs), NEW p \in Tick, NEW r \in Resting,
           NEW i \in 1 .. Len(lvs) + 1, ScanStops(lvs, s, p, i), NEW v
    PROVE  QueueAt(RestAt(lvs, i, p, r), v) =
              IF v = p THEN Append(QueueAt(lvs, p), r) ELSE QueueAt(lvs, v)
<1>1. lvs \in Seq(Level) /\ Len(lvs) \in Nat
  BY DEF SideOK
<1>2. CASE i <= Len(lvs) /\ lvs[i].price = p
  <2> DEFINE qu == lvs[i].queue
  <2>1. i \in 1 .. Len(lvs)
    BY <1>1, <1>2
  <2>2. qu \in Seq(Resting) /\ QueueAt(lvs, p) = qu
    BY <1>2, <2>1, LevelIs, QueueFound
  <2>3. RestAt(lvs, i, p, r) = Requeued(lvs, i, Append(qu, r))
    BY <1>2 DEF RestAt, Requeued
  <2> HIDE DEF qu
  <2>4. Append(qu, r) \in Seq(Resting) /\ Append(qu, r) # <<>>
    BY <2>2, AppendProperties
  <2> DEFINE nq == Append(qu, r)
  <2>5. nq \in Seq(Resting) /\ nq # <<>> /\ RestAt(lvs, i, p, r) = Requeued(lvs, i, nq)
        /\ Append(QueueAt(lvs, p), r) = nq
    BY <2>2, <2>3, <2>4
  <2> HIDE DEF nq
  <2> QED BY <1>2, <2>1, <2>5, RequeueQueues
<1>3. CASE ~(i <= Len(lvs) /\ lvs[i].price = p)
  <2> DEFINE lv  == [price |-> p, queue |-> <<r>>]
             new == InsertAt(lvs, i, lv)
  <2>1. lv \in Level /\ lv.price = p /\ lv.queue = <<r>>
    BY DEF Level
  <2>2. RestAt(lvs, i, p, r) = new
    BY <1>3 DEF RestAt
  <2> HIDE DEF lv
  <2>3. /\ new \in Seq(Level) /\ Len(new) = Len(lvs) + 1
        /\ \A j \in 1 .. i - 1 : new[j] = lvs[j]
        /\ new[i] = lv
        /\ \A j \in i + 1 .. Len(lvs) + 1 : new[j] = lvs[j - 1]
    <3>1. lvs \in Seq(Level) /\ lv \in Level /\ i \in 1 .. Len(lvs) + 1
      BY <1>1, <2>1
    <3>2. Inserted(new, Level, lvs, i, lv)
      BY <3>1, InsertAtInserts
    <3> HIDE DEF new
    <3> QED BY <3>2 DEF Inserted
  <2>4. SideOK(s, new)
    BY <2>2, RestAtOK
  <2> HIDE DEF new
  <2> DEFINE To(j) == IF j < i THEN j ELSE j + 1
  <2>5. \A j \in 1 .. Len(lvs) : To(j) \in 1 .. Len(new) /\ To(j) # i /\ new[To(j)] = lvs[j]
    <3> TAKE j \in 1 .. Len(lvs)
    <3>1. CASE j < i
      <4>1. j \in 1 .. i - 1 /\ j \in 1 .. Len(new)
        BY <1>1, <2>3, <3>1
      <4> QED BY <2>3, <3>1, <4>1
    <3>2. CASE ~(j < i)
      <4>1. j + 1 \in i + 1 .. Len(lvs) + 1 /\ j + 1 \in 1 .. Len(new) /\ (j + 1) - 1 = j /\ j + 1 # i
        BY <1>1, <2>3, <3>2
      <4>2. new[j + 1] = lvs[j]
        BY <2>3, <4>1
      <4> QED BY <3>2, <4>1, <4>2
    <3> QED BY <3>1, <3>2
  <2>6. \A j \in 1 .. Len(new) : j # i => \E m \in 1 .. Len(lvs) : new[j] = lvs[m]
    <3> TAKE j \in 1 .. Len(new)
    <3>1. CASE j < i
      <4>1. j \in 1 .. i - 1 /\ j \in 1 .. Len(lvs)
        BY <1>1, <2>3, <3>1
      <4> QED BY <2>3, <4>1
    <3>2. CASE j > i
      <4>1. j \in i + 1 .. Len(lvs) + 1 /\ j - 1 \in 1 .. Len(lvs)
        BY <1>1, <2>3, <3>2
      <4> QED BY <2>3, <4>1
    <3> QED BY <1>1, <3>1, <3>2
  <2> HIDE DEF To
  <2>7. i \in 1 .. Len(new) /\ new[i].price = p /\ new[i].queue = <<r>>
    BY <1>1, <2>1, <2>3
  <2>8. \A j \in 1 .. Len(lvs) : lvs[j].price # p
    <3> SUFFICES ASSUME NEW j \in 1 .. Len(lvs), lvs[j].price = p PROVE FALSE
      OBVIOUS
    <3>1. To(j) \in 1 .. Len(new) /\ To(j) # i /\ new[To(j)].price = new[i].price
      BY <2>5, <2>7
    <3> QED BY <2>4, <2>7, <3>1, PricesDiffer
  <2>9. CASE v = p
    <3>1. QueueAt(lvs, p) = <<>>
      BY <2>8, QueueMissing
    <3>2. QueueAt(new, p) = <<r>>
      BY <2>4, <2>7, QueueFound
    <3>3. Append(<<>>, r) = <<r>>
      OBVIOUS
    <3> QED BY <2>2, <2>9, <3>1, <3>2, <3>3
  <2>10. CASE v # p
    <3>1. SameLevel(new, lvs, v)
      <4>1. \A m \in 1 .. Len(lvs) : \E j \in 1 .. Len(new) : new[j] = lvs[m]
        BY <2>5
      <4>2. \A j \in 1 .. Len(new) : new[j].price = v => \E m \in 1 .. Len(lvs) : new[j] = lvs[m]
        BY <2>6, <2>7, <2>10
      <4> QED BY <4>1, <4>2 DEF SameLevel
    <3> QED BY <2>2, <2>4, <2>10, <3>1, QueueUnmoved
  <2> QED BY <2>9, <2>10
<1> QED BY <1>2, <1>3

-----------------------------------------------------------------------------
(* The queues of one side, as PriceTimeBook has them.                      *)
Seen(lvs) == [p \in Tick |-> QueueAt(lvs, p)]

LEMMA SeenIs ==
    ASSUME NEW s \in Side, NEW lvs, SideOK(s, lvs), NEW o, o.qty \in Nat
    PROVE  Queues(Seen(lvs), o)
<1> DEFINE M == Promise!Makers(Seen(lvs), o)
           I == 1 .. Len(lvs)
           f == [i \in I |-> {lvs[i].price} \X (1 .. Len(lvs[i].queue))]
           C == {f[i] : i \in I}
<1>1. Seen(lvs) \in [Tick -> Seq(Resting)]
  BY QueueIs DEF Seen
<1>2. IsFiniteSet(I)
  <2>1. Len(lvs) \in Int
    BY DEF SideOK
  <2> QED BY <2>1, FS_Interval
<1>3. \A c \in C : IsFiniteSet(c)
  <2> SUFFICES ASSUME NEW i \in I PROVE IsFiniteSet(f[i])
    OBVIOUS
  <2>1. Len(lvs[i].queue) \in Nat
    BY LevelIs
  <2>2. IsFiniteSet({lvs[i].price}) /\ IsFiniteSet(1 .. Len(lvs[i].queue))
    <3>1. IsFiniteSet({lvs[i].price})
      BY FS_Singleton, Zenon
    <3>2. 1 \in Int /\ Len(lvs[i].queue) \in Int
      BY <2>1
    <3> QED BY <3>1, <3>2, FS_Interval
  <2>3. IsFiniteSet({lvs[i].price} \X (1 .. Len(lvs[i].queue)))
    BY <2>2, FS_Product
  <2> QED BY <2>3
<1>4. IsFiniteSet(C)
  <2>1. f \in Surjection(I, C)
    <3>1. f \in [I -> C]
      OBVIOUS
    <3>2. \A c \in C : \E i \in I : f[i] = c
      OBVIOUS
    <3> HIDE DEF f, C, I
    <3> QED BY <3>1, <3>2 DEF Surjection
  <2> HIDE DEF f, C, I
  <2> QED BY <1>2, <2>1, FS_Surjection
<1>5. IsFiniteSet(UNION C)
  <2> HIDE DEF C
  <2> QED BY <1>3, <1>4, FS_UNION
<1>6. M \subseteq UNION C
  <2> SUFFICES ASSUME NEW m \in M PROVE m \in UNION C
    OBVIOUS
  <2>1. m = <<m[1], m[2]>> /\ m[1] \in Tick /\ m[2] \in DOMAIN Seen(lvs)[m[1]]
    BY MakersAre
  <2>2. Seen(lvs)[m[1]] = QueueAt(lvs, m[1]) /\ QueueAt(lvs, m[1]) \in Seq(Resting)
    BY <2>1, QueueIs DEF Seen
  <2>3. m[2] \in 1 .. Len(QueueAt(lvs, m[1]))
    BY <2>1, <2>2
  <2>4. QueueAt(lvs, m[1]) # <<>>
    BY <2>3
  <2>5. PICK i \in I : lvs[i].price = m[1]
    BY <2>4, QueueIs
  <2>6. QueueAt(lvs, m[1]) = lvs[i].queue
    BY <2>5, QueueFound
  <2>7. <<m[1], m[2]>> \in f[i]
    BY <2>3, <2>5, <2>6
  <2>8. m \in f[i] /\ f[i] \in C
    BY <2>1, <2>7
  <2> HIDE DEF f, C
  <2> QED BY <2>8
<1>7. IsFiniteSet(M)
  <2> HIDE DEF M, C
  <2> QED BY <1>5, <1>6, FS_Subset
<1> QED BY <1>1, <1>7 DEF Queues

(* Before puts any two makers in one order. *)
LEMMA BeforeOrders ==
    ASSUME NEW q, NEW o, Queues(q, o), NEW m \in Promise!Makers(q, o), NEW n \in Promise!Makers(q, o)
    PROVE  /\ ~Promise!Before(o, m, m)
           /\ Promise!Before(o, m, n) => ~Promise!Before(o, n, m)
<1>1. m[1] \in Int /\ m[2] \in Int /\ n[1] \in Int /\ n[2] \in Int
  BY MakerIs
<1> QED BY <1>1 DEF Promise!Before, Promise!Ahead

-----------------------------------------------------------------------------
(* The matching loop: hit are the makers of q that order o has traded with *)
(* so far, rem is what is left of it, now are the queues as they stand.    *)
HitSet(hit) == {hit[i] : i \in 1 .. Len(hit)}

(* They are the first ones, in their order. *)
Rises(o, hit) == \A i, j \in 1 .. Len(hit) : i < j => Promise!Before(o, hit[i], hit[j])

Behind(o, hit, m) == \A i \in 1 .. Len(hit) : Promise!Before(o, hit[i], m)

InFront(q, o, hit) ==
    /\ hit \in Seq(Promise!Makers(q, o))
    /\ Rises(o, hit)
    /\ \A m \in Promise!Makers(q, o) : m \notin HitSet(hit) => Behind(o, hit, m)

(* The fill that is due to maker m. *)
FillOf(q, o, m) == [price |-> m[1], qty |-> Promise!Traded(q, o, m), maker_id |-> q[m[1]][m[2]].id]

Reported(q, o, hit, fills) ==
    /\ Len(fills) = Len(hit)
    /\ \A i \in 1 .. Len(hit) : Promise!Traded(q, o, hit[i]) > 0 /\ fills[i] = FillOf(q, o, hit[i])

Exhausted(q, o, m) == Promise!Traded(q, o, m) = q[m[1]][m[2]].qty

(* Until the order is filled, the makers hit are exhausted. *)
Spent(q, o, hit, rem) ==
    /\ SumOf(HitSet(hit), AllQty(q, o)) >= o.qty - rem
    /\ rem > 0 => /\ SumOf(HitSet(hit), AllQty(q, o)) = o.qty - rem
                  /\ \A m \in HitSet(hit) : Exhausted(q, o, m)

(* What is left of the maker at place k of tick p. *)
LeftOf(q, o, hit, p, k) ==
    [id |-> q[p][k].id,
     qty |-> IF <<p, k>> \in HitSet(hit) THEN q[p][k].qty - Promise!Traded(q, o, <<p, k>>) ELSE q[p][k].qty]

(* The first c orders of tick p are gone, the others left. *)
Gone(q, o, hit, p, c) == \A k \in 1 .. c : <<p, k>> \in HitSet(hit) /\ Exhausted(q, o, <<p, k>>)
Stay(q, o, hit, p, c, qu) == \A k \in c + 1 .. Len(q[p]) : qu[k - c] = LeftOf(q, o, hit, p, k)

LeavesAt(q, o, hit, p, qu) ==
    /\ Len(qu) <= Len(q[p])
    /\ Gone(q, o, hit, p, Len(q[p]) - Len(qu))
    /\ Stay(q, o, hit, p, Len(q[p]) - Len(qu), qu)

Progress(q, o, hit, fills, rem, now) ==
    /\ InFront(q, o, hit)
    /\ Reported(q, o, hit, fills)
    /\ Spent(q, o, hit, rem)
    /\ \A p \in Tick : LeavesAt(q, o, hit, p, now[p])

(* No maker has been hit when the loop starts. *)
LEMMA ProgressStarts ==
    ASSUME NEW q, NEW o, Queues(q, o)
    PROVE  Progress(q, o, <<>>, <<>>, o.qty, q)
<1>1. HitSet(<<>>) = {} /\ Len(<<>>) = 0 /\ <<>> \in Seq(Promise!Makers(q, o))
  BY DEF HitSet
<1>2. InFront(q, o, <<>>)
  BY <1>1 DEF InFront, Rises, Behind
<1>3. Reported(q, o, <<>>, <<>>)
  BY <1>1 DEF Reported
<1>4. Spent(q, o, <<>>, o.qty)
  <2>1. SumOf({}, AllQty(q, o)) = 0
    BY SumOfEmpty
  <2>2. o.qty \in Nat
    BY DEF Queues
  <2>3. SumOf(HitSet(<<>>), AllQty(q, o)) = 0 /\ o.qty - o.qty = 0
    <3>1. SumOf(HitSet(<<>>), AllQty(q, o)) = 0
      BY <1>1, <2>1, Zenon
    <3>2. o.qty - o.qty = 0
      BY <2>2
    <3> QED BY <3>1, <3>2
  <2>4. \A m \in HitSet(<<>>) : Exhausted(q, o, m)
    BY <1>1
  <2> QED BY <2>3, <2>4 DEF Spent
<1>5. ASSUME NEW p \in Tick PROVE LeavesAt(q, o, <<>>, p, q[p])
  <2>1. q[p] \in Seq(Resting) /\ Len(q[p]) \in Nat
    BY DEF Queues
  <2>2. Len(q[p]) - Len(q[p]) = 0
    BY <2>1
  <2>3. Gone(q, o, <<>>, p, 0)
    BY DEF Gone
  <2>4. Stay(q, o, <<>>, p, 0, q[p])
    <3> SUFFICES ASSUME NEW k \in 1 .. Len(q[p]) PROVE q[p][k - 0] = LeftOf(q, o, <<>>, p, k)
      BY DEF Stay
    <3>1. q[p][k] \in Resting /\ k - 0 = k
      BY <2>1
    <3>2. q[p][k] = [id |-> q[p][k].id, qty |-> q[p][k].qty]
      BY <3>1 DEF Resting
    <3>3. LeftOf(q, o, <<>>, p, k) = [id |-> q[p][k].id, qty |-> q[p][k].qty]
      BY <1>1 DEF LeftOf
    <3> QED BY <3>1, <3>2, <3>3, Zenon
  <2> QED BY <2>1, <2>2, <2>3, <2>4 DEF LeavesAt
<1> QED BY <1>2, <1>3, <1>4, <1>5 DEF Progress

(* A maker that has not been hit is still in its queue, with all it had. *)
LEMMA UnhitStays ==
    ASSUME NEW q, NEW o, Queues(q, o), NEW hit, NEW p \in Tick, NEW qu \in Seq(Resting),
           LeavesAt(q, o, hit, p, qu), NEW k \in 1 .. Len(q[p]), <<p, k>> \notin HitSet(hit)
    PROVE  /\ Len(q[p]) - Len(qu) \in Nat
           /\ k > Len(q[p]) - Len(qu)
           /\ k - (Len(q[p]) - Len(qu)) \in 1 .. Len(qu)
           /\ qu[k - (Len(q[p]) - Len(qu))] = q[p][k]
<1> DEFINE c == Len(q[p]) - Len(qu)
<1>1. q[p] \in Seq(Resting) /\ Len(q[p]) \in Nat /\ Len(qu) \in Nat
  BY DEF Queues
<1>2. c \in Nat /\ Len(qu) = Len(q[p]) - c
  BY <1>1 DEF LeavesAt
<1>3. Gone(q, o, hit, p, c) /\ Stay(q, o, hit, p, c, qu)
  BY DEF LeavesAt
<1> HIDE DEF c
<1>4. k > c
  BY <1>2, <1>3 DEF Gone
<1>5. k \in c + 1 .. Len(q[p]) /\ k - c \in 1 .. Len(qu)
  BY <1>1, <1>2, <1>4
<1>6. qu[k - c] = LeftOf(q, o, hit, p, k)
  BY <1>3, <1>5 DEF Stay
<1>7. q[p][k] \in Resting
  BY <1>1
<1>8. q[p][k] = [id |-> q[p][k].id, qty |-> q[p][k].qty]
  BY <1>7 DEF Resting
<1>9. qu[k - c] = q[p][k]
  BY <1>6, <1>8 DEF LeftOf
<1> QED BY <1>2, <1>4, <1>5, <1>9 DEF c

(* An order in the loop, and the side it trades with. *)
Trading(q, o, s, lvs, hit, fills, rem) ==
    /\ Queues(q, o)
    /\ s \in Side /\ s = Promise!Opposite(o.side)
    /\ SideOK(s, lvs)
    /\ rem \in Nat
    /\ Progress(q, o, hit, fills, rem, Seen(lvs))

LEMMA SeenAt ==
    ASSUME NEW s \in Side, NEW lvs, SideOK(s, lvs), NEW p \in Tick
    PROVE  Seen(lvs)[p] = QueueAt(lvs, p) /\ Seen(lvs)[p] \in Seq(Resting)
  BY QueueIs DEF Seen

(* Of the makers that are not hit, m comes first. *)
ComesNext(q, o, hit, m) ==
    \A n \in Promise!Makers(q, o) : n \notin HitSet(hit) /\ n # m => Promise!Before(o, m, n)

(* Maker m names the best order of the side. *)
IsBest(m, q, lvs) == m = <<lvs[1].price, Len(q[lvs[1].price]) - Len(lvs[1].queue) + 1>>

(* The best order of the side is the first maker that is not hit yet. *)
LEMMA NextMaker ==
    ASSUME NEW q, NEW o, NEW s, NEW lvs, NEW hit, NEW fills, NEW rem,
           Trading(q, o, s, lvs, hit, fills, rem), rem > 0, lvs # <<>>,
           Promise!Acceptable(o, lvs[1].price), NEW m, IsBest(m, q, lvs)
    PROVE  /\ m \in Promise!Makers(q, o)
           /\ m \notin HitSet(hit)
           /\ q[m[1]][m[2]] = lvs[1].queue[1]
           /\ ComesNext(q, o, hit, m)
<1> DEFINE p == lvs[1].price
           qu == lvs[1].queue
           c == Len(q[p]) - Len(qu)
           now == Seen(lvs)
<1>1. /\ Queues(q, o) /\ s \in Side /\ s = Promise!Opposite(o.side) /\ SideOK(s, lvs)
      /\ Progress(q, o, hit, fills, rem, now)
  BY DEF Trading
<1>2. 1 \in 1 .. Len(lvs) /\ Len(lvs) \in Nat
  BY <1>1 DEF SideOK
<1>3. p \in Tick /\ qu \in Seq(Resting) /\ qu # <<>>
  BY <1>1, <1>2, LevelIs
<1>4. now[p] = qu
  <2>1. QueueAt(lvs, p) = qu
    BY <1>1, <1>2, QueueFound
  <2> QED BY <1>1, <1>3, <2>1, SeenAt
<1>5. q[p] \in Seq(Resting) /\ Len(q[p]) \in Nat /\ Len(qu) \in Nat \ {0}
  <2>1. q[p] \in Seq(Resting)
    BY <1>1, <1>3 DEF Queues
  <2> HIDE DEF p, qu
  <2> QED BY <1>3, <2>1, EmptySeq
<1>6. LeavesAt(q, o, hit, p, qu)
  BY <1>1, <1>3, <1>4 DEF Progress
<1> HIDE DEF p, qu
<1>7. c \in Nat /\ c + 1 \in 1 .. Len(q[p]) /\ c + 1 \in c + 1 .. Len(q[p]) /\ (c + 1) - c = 1
  BY <1>5, <1>6 DEF LeavesAt
<1>8. qu[1] = LeftOf(q, o, hit, p, c + 1)
  <2>1. Stay(q, o, hit, p, c, qu)
    BY <1>6 DEF LeavesAt
  <2> HIDE DEF c
  <2>2. qu[(c + 1) - c] = LeftOf(q, o, hit, p, c + 1)
    BY <1>7, <2>1 DEF Stay
  <2> QED BY <1>7, <2>2
<1> DEFINE k1 == c + 1
<1>9. m = <<p, k1>> /\ m[1] = p /\ m[2] = k1
  BY DEF p, qu, IsBest
<1>9a. /\ k1 \in 1 .. Len(q[p]) /\ k1 \in DOMAIN q[p] /\ q[p][k1] \in Resting
       /\ qu[1] = LeftOf(q, o, hit, p, k1) /\ k1 = c + 1
  BY <1>5, <1>7, <1>8
<1> HIDE DEF c, k1
<1>10. m \in Promise!Makers(q, o)
  <2>1. Promise!Acceptable(o, p)
    BY DEF p
  <2> QED BY <1>3, <1>9, <1>9a, <2>1, MakersAre
<1>11. m \notin HitSet(hit)
  <2> SUFFICES ASSUME m \in HitSet(hit) PROVE FALSE
    OBVIOUS
  <2>1. Exhausted(q, o, m)
    BY <1>1 DEF Progress, Spent
  <2>2. Promise!Traded(q, o, <<p, k1>>) = q[p][k1].qty /\ <<p, k1>> \in HitSet(hit)
    BY <1>9, <2>1 DEF Exhausted
  <2>3. qu[1].qty = q[p][k1].qty - Promise!Traded(q, o, <<p, k1>>)
    BY <1>9a, <2>2 DEF LeftOf
  <2>4. q[p][k1].qty \in Nat
    BY <1>9a DEF Resting
  <2>5. qu[1].qty = 0
    BY <2>2, <2>3, <2>4
  <2>6. qu[1] \in Resting
    BY <1>3, <1>5
  <2> QED BY <2>5, <2>6 DEF Resting
<1>12. q[m[1]][m[2]] = qu[1]
  <2>1. q[p][k1] = [id |-> q[p][k1].id, qty |-> q[p][k1].qty]
    BY <1>9a DEF Resting
  <2>2. <<p, k1>> \notin HitSet(hit)
    BY <1>9, <1>11
  <2>3. qu[1] = [id |-> q[p][k1].id, qty |-> q[p][k1].qty]
    BY <1>9a, <2>2 DEF LeftOf
  <2> QED BY <1>9, <2>1, <2>3
<1>13. ASSUME NEW n \in Promise!Makers(q, o), n \notin HitSet(hit), n # m
       PROVE  Promise!Before(o, m, n)
  <2> DEFINE v == n[1]
             k == n[2]
             nq == now[v]
  <2>1. n = <<v, k>> /\ v \in Tick /\ k \in 1 .. Len(q[v])
    BY <1>1, MakerIs
  <2>2. nq \in Seq(Resting) /\ nq = QueueAt(lvs, v) /\ LeavesAt(q, o, hit, v, nq)
    BY <1>1, <2>1, SeenAt DEF Progress
  <2> HIDE DEF nq, v, k
  <2>3. <<v, k>> \notin HitSet(hit)
    BY <1>13, <2>1
  <2>4. /\ Len(q[v]) - Len(nq) \in Nat /\ k > Len(q[v]) - Len(nq)
        /\ k - (Len(q[v]) - Len(nq)) \in 1 .. Len(nq)
    BY <1>1, <2>1, <2>2, <2>3, UnhitStays
  <2>5. nq # <<>>
    BY <2>2, <2>4
  <2>6. PICK i \in 1 .. Len(lvs) : lvs[i].price = v
    BY <1>1, <2>2, <2>5, QueueIs
  <2>7. CASE i = 1
    <3>1. v = p /\ nq = qu
      <4>1. v = p
        BY <2>6, <2>7 DEF p
      <4> QED BY <1>4, <4>1 DEF nq
    <3>2. k > c /\ k # k1
      <4>1. k > c
        BY <2>4, <3>1 DEF c
      <4>2. k # k1
        BY <1>9, <1>13, <2>1, <3>1
      <4> QED BY <4>1, <4>2
    <3>3. k \in Int /\ k1 < k
      BY <1>7, <1>9a, <2>1, <3>2
    <3>4. m[1] = n[1] /\ m[2] < n[2]
      BY <1>9, <3>1, <3>3 DEF v, k
    <3> QED BY <3>4 DEF Promise!Before
  <2>8. CASE i # 1
    <3>1. 1 < i
      BY <1>2, <2>6, <2>8
    <3>2. Better(s, lvs[1].price, lvs[i].price)
      BY <1>1, <1>2, <2>6, <3>1 DEF SideOK, Ordered
    <3>3. Better(s, m[1], n[1])
      BY <1>9, <2>6, <3>2 DEF p, v
    <3>4. Promise!Ahead(Promise!Opposite(o.side), m[1], n[1])
      BY <1>1, <3>3 DEF Better, Promise!Ahead
    <3> QED BY <3>4 DEF Promise!Before
  <2> QED BY <2>7, <2>8
<1> QED BY <1>10, <1>11, <1>12, <1>13 DEF qu, ComesNext

(* What trades with it. *)
LEMMA NextTraded ==
    ASSUME NEW q, NEW o, NEW hit, NEW rem \in Nat, rem > 0, Queues(q, o), InFront(q, o, hit), Spent(q, o, hit, rem),
           NEW m \in Promise!Makers(q, o), m \notin HitSet(hit),
           ComesNext(q, o, hit, m)
    PROVE  Promise!Traded(q, o, m) = IF rem <= q[m[1]][m[2]].qty THEN rem ELSE q[m[1]][m[2]].qty
<1> DEFINE H == HitSet(hit)
           M == Promise!Makers(q, o)
           b == q[m[1]][m[2]].qty
<1>1. H \subseteq M
  BY DEF HitSet, InFront
<1>2. \A n \in H : Promise!Before(o, n, m)
  <2>1. Behind(o, hit, m)
    BY DEF InFront
  <2> QED BY <2>1 DEF Behind, HitSet
<1>3. AheadOf(q, o, m) = H
  <2>1. ASSUME NEW n \in M, Promise!Before(o, n, m) PROVE n \in H
    <3>1. n # m
      BY <2>1, BeforeOrders
    <3>2. ~Promise!Before(o, m, n)
      BY <2>1, BeforeOrders
    <3> QED BY <3>1, <3>2 DEF ComesNext
  <2> QED BY <1>1, <1>2, <2>1 DEF AheadOf
<1>4. SumOf(H, AllQty(q, o)) = o.qty - rem
  BY DEF Spent
<1>5. o.qty \in Nat /\ b \in Nat \ {0}
  BY MakerIs DEF Queues
<1> DEFINE a == SumOf(H, AllQty(q, o))
<1>6. /\ a \in Nat
      /\ Promise!Traded(q, o, m) = IF o.qty <= a THEN 0 ELSE IF b <= o.qty - a THEN b ELSE o.qty - a
  <2>1. a = SumOf(AheadOf(q, o, m), AllQty(q, o))
    BY <1>3
  <2> HIDE DEF a
  <2> QED BY <2>1, TradedIs
<1>7. a = o.qty - rem
  BY <1>4
<1> HIDE DEF a, b
<1>8. Promise!Traded(q, o, m) = IF rem <= b THEN rem ELSE b
  BY <1>5, <1>6, <1>7
<1> QED BY <1>8 DEF b

(* h is hit and then m. *)
Longer(h, T, hit, m) ==
    /\ h \in Seq(T) /\ Len(h) = Len(hit) + 1 /\ Len(hit) \in Nat
    /\ \A i \in 1 .. Len(hit) : h[i] = hit[i]
    /\ h[Len(hit) + 1] = m
    /\ HitSet(h) = HitSet(hit) \cup {m}

LEMMA AppendHit ==
    ASSUME NEW T, NEW hit \in Seq(T), NEW m \in T, NEW h, h = Append(hit, m)
    PROVE  Longer(h, T, hit, m)
<1>1. /\ h \in Seq(T) /\ Len(h) = Len(hit) + 1 /\ Len(hit) \in Nat
      /\ \A i \in 1 .. Len(hit) : h[i] = hit[i]
      /\ h[Len(hit) + 1] = m
  BY AppendProperties
<1>2. HitSet(h) \subseteq HitSet(hit) \cup {m}
  <2> SUFFICES ASSUME NEW i \in 1 .. Len(h) PROVE h[i] \in HitSet(hit) \cup {m}
    BY DEF HitSet
  <2>1. i \in 1 .. Len(hit) \/ i = Len(hit) + 1
    BY <1>1
  <2> QED BY <1>1, <2>1 DEF HitSet
<1>3. HitSet(hit) \cup {m} \subseteq HitSet(h)
  <2>1. \A i \in 1 .. Len(hit) : i \in 1 .. Len(h) /\ h[i] = hit[i]
    BY <1>1
  <2>2. Len(hit) + 1 \in 1 .. Len(h)
    BY <1>1
  <2> QED BY <1>1, <2>1, <2>2 DEF HitSet
<1> QED BY <1>1, <1>2, <1>3 DEF Longer

(* The first three parts of Progress, after one more maker. *)
LEMMA OneMoreHit ==
    ASSUME NEW q, NEW o, NEW hit, NEW fills, NEW F, fills \in Seq(F), NEW rem \in Nat, rem > 0, Queues(q, o),
           InFront(q, o, hit), Reported(q, o, hit, fills), Spent(q, o, hit, rem),
           NEW m \in Promise!Makers(q, o), m \notin HitSet(hit),
           ComesNext(q, o, hit, m),
           NEW x, x = Promise!Traded(q, o, m), FillOf(q, o, m) \in F, NEW h, h = Append(hit, m)
    PROVE  /\ InFront(q, o, h)
           /\ Reported(q, o, h, Append(fills, FillOf(q, o, m)))
           /\ Spent(q, o, h, rem - x)
<1> DEFINE M == Promise!Makers(q, o)
           b == q[m[1]][m[2]].qty
           H == HitSet(hit)
<1>1. hit \in Seq(M)
  BY DEF InFront
<1>2. /\ h \in Seq(M) /\ Len(h) = Len(hit) + 1 /\ Len(hit) \in Nat
      /\ \A i \in 1 .. Len(hit) : h[i] = hit[i]
      /\ h[Len(hit) + 1] = m
      /\ HitSet(h) = H \cup {m}
  <2>1. Longer(h, M, hit, m)
    BY <1>1, AppendHit
  <2> QED BY <2>1 DEF Longer
<1>3. x = IF rem <= b THEN rem ELSE b
  BY NextTraded
<1>4. b \in Nat \ {0} /\ o.qty \in Nat
  BY MakerIs DEF Queues
<1>5. InFront(q, o, h)
  <2>1. Behind(o, hit, m) /\ Rises(o, hit)
    BY DEF InFront
  <2>2. Rises(o, h)
    <3> SUFFICES ASSUME NEW i \in 1 .. Len(h), NEW j \in 1 .. Len(h), i < j
                 PROVE  Promise!Before(o, h[i], h[j])
      BY DEF Rises
    <3>1. i \in 1 .. Len(hit) /\ h[i] = hit[i]
      BY <1>2
    <3>2. CASE j \in 1 .. Len(hit)
      <4>1. h[j] = hit[j]
        BY <1>2, <3>2
      <4> QED BY <2>1, <3>1, <3>2, <4>1 DEF Rises
    <3>3. CASE j = Len(hit) + 1
      BY <1>2, <2>1, <3>1, <3>3 DEF Behind
    <3>4. j \in 1 .. Len(hit) \/ j = Len(hit) + 1
      <4>1. \A l \in Nat : \A k \in 1 .. l + 1 : k \in 1 .. l \/ k = l + 1
        OBVIOUS
      <4>2. j \in 1 .. Len(hit) + 1 /\ Len(hit) \in Nat
        BY <1>2
      <4> QED BY <4>1, <4>2, Zenon
    <3> QED BY <3>2, <3>3, <3>4
  <2>3. ASSUME NEW n \in M, n \notin HitSet(h) PROVE Behind(o, h, n)
    <3>1. n \notin H /\ n # m
      BY <1>2, <2>3
    <3>2. Behind(o, hit, n) /\ Promise!Before(o, m, n)
      BY <3>1 DEF InFront, ComesNext
    <3>3. ASSUME NEW i \in 1 .. Len(h) PROVE Promise!Before(o, h[i], n)
      <4>1. i \in 1 .. Len(hit) \/ i = Len(hit) + 1
        BY <1>2
      <4> QED BY <1>2, <3>2, <4>1 DEF Behind
    <3> QED BY <3>3 DEF Behind
  <2> QED BY <1>2, <2>2, <2>3 DEF InFront
<1>6. Reported(q, o, h, Append(fills, FillOf(q, o, m)))
  <2> DEFINE f == FillOf(q, o, m)
             fs == Append(fills, f)
  <2>1. Len(fills) = Len(hit) /\ f \in F
    BY DEF Reported
  <2> HIDE DEF f
  <2>2. /\ Len(fs) = Len(fills) + 1 /\ \A i \in 1 .. Len(fills) : fs[i] = fills[i]
        /\ fs[Len(fills) + 1] = f
    BY <2>1, AppendProperties
  <2> HIDE DEF fs
  <2>3. Len(fs) = Len(h)
    BY <1>2, <2>1, <2>2
  <2>4. ASSUME NEW i \in 1 .. Len(h)
        PROVE  Promise!Traded(q, o, h[i]) > 0 /\ fs[i] = FillOf(q, o, h[i])
    <3>1. CASE i \in 1 .. Len(hit)
      BY <1>2, <2>1, <2>2, <3>1 DEF Reported
    <3>2. CASE i = Len(hit) + 1
      <4>1. h[i] = m /\ fs[i] = f
        BY <1>2, <2>1, <2>2, <3>2
      <4>2. x > 0
        BY <1>3, <1>4
      <4> QED BY <4>1, <4>2 DEF f
    <3> QED BY <1>2, <3>1, <3>2
  <2> QED BY <2>3, <2>4 DEF Reported, fs, f
<1>7. Spent(q, o, h, rem - x)
  <2> DEFINE w == AllQty(q, o)
  <2>1. H \subseteq M /\ H \cup {m} \subseteq M
    BY <1>1 DEF HitSet
  <2>2. IsFiniteSet(H) /\ SumOf(H, w) \in Nat /\ Whole(H \cup {m}, w)
    BY <2>1, VolumeWithin
  <2>3. w[m] = b
    BY DEF AllQty, QtyOf
  <2> HIDE DEF w, b
  <2>4. AddsUp(H, m, w, w)
    BY <2>2, SumOfAdd DEF Alike
  <2>5. SumOf(HitSet(h), w) = b + SumOf(H, w)
    BY <1>2, <2>3, <2>4 DEF AddsUp
  <2>6. SumOf(H, w) = o.qty - rem /\ \A n \in H : Exhausted(q, o, n)
    BY DEF Spent, w
  <2>7. SumOf(HitSet(h), w) >= o.qty - (rem - x)
    BY <1>3, <1>4, <2>5, <2>6
  <2>8. ASSUME rem - x > 0
        PROVE  SumOf(HitSet(h), w) = o.qty - (rem - x) /\ \A n \in HitSet(h) : Exhausted(q, o, n)
    <3>1. x = b
      BY <1>3, <1>4, <2>8
    <3>2. Exhausted(q, o, m)
      BY <3>1 DEF Exhausted, b
    <3>3. SumOf(HitSet(h), w) = o.qty - (rem - x)
      BY <1>4, <2>5, <2>6, <3>1
    <3> QED BY <1>2, <2>6, <3>2, <3>3
  <2> QED BY <2>7, <2>8 DEF Spent, w
<1> QED BY <1>5, <1>6, <1>7

(* The last part: the queues after one more maker. *)
Joins(h, hit, m) == HitSet(h) = HitSet(hit) \cup {m}

LEMMA OtherMakers ==
    ASSUME NEW q, NEW o, NEW hit, NEW h, NEW m, NEW v, NEW k, Joins(h, hit, m), <<v, k>> # m
    PROVE  /\ <<v, k>> \in HitSet(h) <=> <<v, k>> \in HitSet(hit)
           /\ LeftOf(q, o, h, v, k) = LeftOf(q, o, hit, v, k)
<1>1. <<v, k>> \in HitSet(h) <=> <<v, k>> \in HitSet(hit)
  BY DEF Joins
<1> QED BY <1>1 DEF LeftOf

Untouched(q, o, h, hit, v, m) ==
    \A k : <<v, k>> # m => LeftOf(q, o, h, v, k) = LeftOf(q, o, hit, v, k)

LEMMA OtherPlaces ==
    ASSUME NEW q, NEW o, NEW hit, NEW h, NEW m, NEW v, Joins(h, hit, m)
    PROVE  Untouched(q, o, h, hit, v, m)
<1>1. ASSUME NEW k, <<v, k>> # m PROVE LeftOf(q, o, h, v, k) = LeftOf(q, o, hit, v, k)
  <2>1. <<v, k>> \in HitSet(h) <=> <<v, k>> \in HitSet(hit)
    BY <1>1 DEF Joins
  <2> QED BY <2>1 DEF LeftOf
<1> QED BY <1>1 DEF Untouched

LEMMA OtherTick ==
    ASSUME NEW q, NEW o, NEW hit, NEW h, NEW m, NEW v, NEW qu,
           Joins(h, hit, m), v # m[1], LeavesAt(q, o, hit, v, qu)
    PROVE  LeavesAt(q, o, h, v, qu)
<1> DEFINE c == Len(q[v]) - Len(qu)
<1>1. Gone(q, o, hit, v, c) /\ Stay(q, o, hit, v, c, qu)
  BY DEF LeavesAt
<1> HIDE DEF c
<1>2. ASSUME NEW k
      PROVE  /\ <<v, k>> \in HitSet(h) <=> <<v, k>> \in HitSet(hit)
             /\ LeftOf(q, o, h, v, k) = LeftOf(q, o, hit, v, k)
  <2>1. <<v, k>> # m
    OBVIOUS
  <2> QED BY <2>1, OtherMakers
<1>3. Gone(q, o, h, v, c)
  BY <1>1, <1>2 DEF Gone
<1>4. Stay(q, o, h, v, c, qu)
  BY <1>1, <1>2 DEF Stay
<1> QED BY <1>3, <1>4 DEF LeavesAt, c

(* Maker m is the first of tick p when qu is its queue. *)
Heads(m, q, p, qu) == m = <<p, Len(q[p]) - Len(qu) + 1>>

LEMMA HitTick ==
    ASSUME NEW q, NEW o, Queues(q, o), NEW hit, NEW h, NEW p \in Tick, NEW qu \in Seq(Resting), qu # <<>>,
           LeavesAt(q, o, hit, p, qu), NEW m, Heads(m, q, p, qu),
           Joins(h, hit, m), q[m[1]][m[2]] = qu[1],
           NEW x \in 1 .. qu[1].qty, x = Promise!Traded(q, o, m)
    PROVE  LeavesAt(q, o, h, p, Given(qu, x))
<1> DEFINE n == Len(q[p])
           c == n - Len(qu)
           k1 == m[2]
<1>1. /\ n \in Nat /\ Len(qu) \in Nat \ {0} /\ c \in Nat /\ k1 = c + 1 /\ k1 \in 1 .. n
      /\ Len(qu) = n - c
  <2>1. q[p] \in Seq(Resting)
    BY DEF Queues
  <2>2. Len(q[p]) \in Nat /\ Len(qu) \in Nat \ {0}
    BY <2>1, EmptySeq
  <2> QED BY <2>2 DEF LeavesAt, Heads
<1>1a. m = <<p, k1>> /\ q[p][k1] = qu[1] /\ x = Promise!Traded(q, o, <<p, k1>>)
  BY DEF Heads
<1>2. Gone(q, o, hit, p, c) /\ Stay(q, o, hit, p, c, qu)
  BY DEF LeavesAt
<1>3. qu[1] \in Resting /\ 1 \in 1 .. Len(qu)
  BY <1>1
<1> HIDE DEF c, k1, n
<1>4. Gone(q, o, h, p, c)
  <2> SUFFICES ASSUME NEW k \in 1 .. c PROVE <<p, k>> \in HitSet(h) /\ Exhausted(q, o, <<p, k>>)
    BY DEF Gone
  <2> QED BY <1>2 DEF Gone, Joins
<1>4a. ASSUME NEW k, k # k1 PROVE LeftOf(q, o, h, p, k) = LeftOf(q, o, hit, p, k)
  <2>1. <<p, k>> # m
    BY <1>1a, <1>4a
  <2>2. Untouched(q, o, h, hit, p, m)
    BY OtherPlaces
  <2> QED BY <2>1, <2>2, Zenon DEF Untouched
<1>5. ASSUME NEW k \in c + 2 .. n
      PROVE  qu[k - c] = LeftOf(q, o, h, p, k) /\ k - c \in 2 .. Len(qu)
  <2>1. k # k1 /\ k \in c + 1 .. n /\ k - c \in 2 .. Len(qu)
    BY <1>1
  <2>2. qu[k - c] = LeftOf(q, o, hit, p, k)
    BY <1>2, <2>1 DEF Stay, n
  <2>3. LeftOf(q, o, h, p, k) = LeftOf(q, o, hit, p, k)
    BY <1>4a, <2>1
  <2> QED BY <2>1, <2>2, <2>3
<1>6. CASE x = qu[1].qty
  <2> DEFINE nq == Tail(qu)
  <2>1. Given(qu, x) = nq
    BY <1>6 DEF Given
  <2>2. nq \in Seq(Resting) /\ Len(nq) = Len(qu) - 1 /\ \A j \in 1 .. Len(qu) - 1 : nq[j] = qu[j + 1]
    BY <1>1
  <2> HIDE DEF nq
  <2>3. Len(nq) <= n /\ n - Len(nq) = k1
    BY <1>1, <2>2
  <2>4. Gone(q, o, h, p, k1)
    <3> SUFFICES ASSUME NEW k \in 1 .. k1 PROVE <<p, k>> \in HitSet(h) /\ Exhausted(q, o, <<p, k>>)
      BY DEF Gone
    <3>1. CASE k = k1
      <4>1. <<p, k1>> \in HitSet(h)
        BY <1>1a DEF Joins
      <4>2. Exhausted(q, o, <<p, k1>>)
        BY <1>1a, <1>6 DEF Exhausted
      <4> QED BY <3>1, <4>1, <4>2
    <3>2. CASE k # k1
      <4>1. k \in 1 .. c
        BY <1>1, <3>2
      <4> QED BY <1>4, <4>1 DEF Gone
    <3> QED BY <3>1, <3>2
  <2>5. Stay(q, o, h, p, k1, nq)
    <3> SUFFICES ASSUME NEW k \in k1 + 1 .. n PROVE nq[k - k1] = LeftOf(q, o, h, p, k)
      BY DEF Stay, n
    <3>1. k \in c + 2 .. n /\ k - k1 \in 1 .. Len(qu) - 1 /\ (k - k1) + 1 = k - c
      BY <1>1
    <3>2. nq[k - k1] = qu[(k - k1) + 1]
      BY <2>2, <3>1
    <3> QED BY <1>5, <3>1, <3>2
  <2>6. LeavesAt(q, o, h, p, nq)
    BY <2>3, <2>4, <2>5 DEF LeavesAt, n
  <2> QED BY <2>1, <2>6
<1>7. CASE x # qu[1].qty
  <2> DEFINE nr == [qu[1] EXCEPT !.qty = qu[1].qty - x]
             nq == [qu EXCEPT ![1] = nr]
  <2>1. Given(qu, x) = nq
    BY <1>7 DEF Given
  <2>2. nr \in Resting
    BY <1>3, <1>7 DEF Resting
  <2>3. nr = [id |-> qu[1].id, qty |-> qu[1].qty - x]
    BY <1>3 DEF Resting
  <2> HIDE DEF nr
  <2>4. nq \in Seq(Resting) /\ Len(nq) = Len(qu) /\ \A j \in 1 .. Len(qu) : nq[j] = IF j = 1 THEN nr ELSE qu[j]
    BY <1>3, <2>2, ExceptSeq
  <2> HIDE DEF nq
  <2>5. Len(nq) <= n /\ n - Len(nq) = c
    BY <1>1, <2>4
  <2>6. Stay(q, o, h, p, c, nq)
    <3> SUFFICES ASSUME NEW k \in c + 1 .. n PROVE nq[k - c] = LeftOf(q, o, h, p, k)
      BY DEF Stay, n
    <3>1. CASE k = k1
      <4>1. k - c = 1
        BY <1>1, <3>1
      <4>2. nq[k - c] = nr
        BY <1>3, <2>4, <4>1
      <4>3. <<p, k>> \in HitSet(h)
        BY <1>1a, <3>1 DEF Joins
      <4>4. LeftOf(q, o, h, p, k) = [id |-> q[p][k].id, qty |-> q[p][k].qty - Promise!Traded(q, o, <<p, k>>)]
        BY <4>3 DEF LeftOf
      <4> QED BY <1>1a, <2>3, <3>1, <4>2, <4>4
    <3>2. CASE k # k1
      <4>1. k \in c + 2 .. n
        BY <1>1, <3>2
      <4>2. qu[k - c] = LeftOf(q, o, h, p, k) /\ k - c \in 2 .. Len(qu)
        BY <1>5, <4>1
      <4>3. nq[k - c] = qu[k - c]
        BY <1>1, <2>4, <4>2
      <4> QED BY <4>2, <4>3
    <3> QED BY <3>1, <3>2
  <2>7. LeavesAt(q, o, h, p, nq)
    BY <1>4, <2>5, <2>6 DEF LeavesAt, n
  <2> QED BY <2>1, <2>7
<1> QED BY <1>6, <1>7

(* One iteration. *)
LEMMA FillProgress ==
    ASSUME NEW q, NEW o, NEW s, NEW lvs, NEW hit, NEW fills \in Seq(Fill), NEW rem,
           Trading(q, o, s, lvs, hit, fills, rem), rem > 0, lvs # <<>>,
           Promise!Acceptable(o, lvs[1].price),
           NEW b, b = lvs[1].queue[1].qty, NEW x, x = IF rem <= b THEN rem ELSE b
    PROVE  \E h : Progress(q, o, h, Append(fills, [price |-> lvs[1].price, qty |-> x,
                                                   maker_id |-> lvs[1].queue[1].id]),
                           rem - x, Seen(AfterFill(lvs, x)))
<1> DEFINE p == lvs[1].price
           qu == lvs[1].queue
           k1 == Len(q[p]) - Len(qu) + 1
           m == <<p, k1>>
           h == Append(hit, m)
           new == AfterFill(lvs, x)
<1>1. /\ Queues(q, o) /\ s \in Side /\ s = Promise!Opposite(o.side) /\ SideOK(s, lvs) /\ rem \in Nat
      /\ Progress(q, o, hit, fills, rem, Seen(lvs))
  BY DEF Trading
<1>2. /\ InFront(q, o, hit) /\ Reported(q, o, hit, fills) /\ Spent(q, o, hit, rem)
      /\ \A v \in Tick : LeavesAt(q, o, hit, v, Seen(lvs)[v])
  BY <1>1 DEF Progress
<1>3. /\ m \in Promise!Makers(q, o) /\ m \notin HitSet(hit)
      /\ q[m[1]][m[2]] = qu[1] /\ ComesNext(q, o, hit, m)
  <2>1. IsBest(m, q, lvs)
    BY DEF IsBest
  <2> HIDE DEF m
  <2> QED BY <2>1, NextMaker
<1>4. q[p][k1] = qu[1]
  BY <1>3
<1>5. 1 \in 1 .. Len(lvs)
  BY <1>1 DEF SideOK
<1>6. p \in Tick /\ qu \in Seq(Resting) /\ qu # <<>>
  BY <1>1, <1>5, LevelIs
<1>7. qu[1] \in Resting /\ b \in Nat \ {0} /\ qu[1].id \in Ids
  <2>1. qu[1] \in Resting
    <3> HIDE DEF qu
    <3> QED BY <1>6
  <2>2. b = qu[1].qty
    OBVIOUS
  <2> HIDE DEF qu
  <2> QED BY <2>1, <2>2 DEF Resting
<1>8. x \in 1 .. b
  BY <1>1, <1>7
<1>9. x = Promise!Traded(q, o, m)
  <2>1. q[m[1]][m[2]].qty = b
    BY <1>3
  <2> HIDE DEF m
  <2> QED BY <1>1, <1>2, <1>3, <2>1, NextTraded
<1>10. FillOf(q, o, m) = [price |-> p, qty |-> x, maker_id |-> qu[1].id]
  BY <1>4, <1>9 DEF FillOf
<1>11. FillOf(q, o, m) \in Fill
  <2> HIDE DEF p, qu, m
  <2> QED BY <1>6, <1>7, <1>8, <1>10 DEF Fill
<1>12. Longer(h, Promise!Makers(q, o), hit, m)
  <2>1. hit \in Seq(Promise!Makers(q, o))
    BY <1>2 DEF InFront
  <2> HIDE DEF m
  <2> QED BY <1>3, <2>1, AppendHit
<1>13. /\ InFront(q, o, h) /\ Reported(q, o, h, Append(fills, FillOf(q, o, m)))
       /\ Spent(q, o, h, rem - x)
  <2> DEFINE hh == h
  <2>1. hh = Append(hit, m)
    OBVIOUS
  <2> HIDE DEF hh, m
  <2>2. /\ InFront(q, o, hh) /\ Reported(q, o, hh, Append(fills, FillOf(q, o, m)))
        /\ Spent(q, o, hh, rem - x)
    BY <1>1, <1>2, <1>3, <1>9, <1>11, <2>1, OneMoreHit
  <2> QED BY <2>2 DEF hh
<1>14. SideOK(s, new)
  <2>1. x \in 1 .. lvs[1].queue[1].qty
    BY <1>8
  <2> QED BY <1>1, <2>1, AfterFillOK
<1>15. ASSUME NEW v \in Tick PROVE LeavesAt(q, o, h, v, Seen(new)[v])
  <2>0. x \in 1 .. lvs[1].queue[1].qty
    BY <1>8
  <2>1. QueueAt(new, v) = IF v = p THEN Given(qu, x) ELSE QueueAt(lvs, v)
    BY <1>1, <2>0, FillQueues
  <2>2. Seen(new)[v] = QueueAt(new, v) /\ Seen(lvs)[v] = QueueAt(lvs, v)
    BY <1>1, <1>14, SeenAt
  <2>3. Joins(h, hit, m) /\ m[1] = p
    BY <1>12 DEF Longer, Joins
  <2>4. LeavesAt(q, o, hit, v, QueueAt(lvs, v))
    BY <1>2, <2>2
  <2>5. QueueAt(lvs, p) = qu
    BY <1>1, <1>5, QueueFound
  <2>6. b = qu[1].qty /\ Heads(m, q, p, qu)
    BY DEF Heads
  <2> HIDE DEF h, new, p, qu, k1, m
  <2>7. CASE v # p
    BY <2>1, <2>2, <2>3, <2>4, <2>7, OtherTick
  <2>8. CASE v = p
    <3>1. LeavesAt(q, o, hit, p, qu)
      BY <2>4, <2>5, <2>8
    <3>2. LeavesAt(q, o, h, p, Given(qu, x))
      BY <1>1, <1>3, <1>6, <1>8, <1>9, <2>3, <2>6, <3>1, HitTick
    <3> QED BY <2>1, <2>2, <2>8, <3>2
  <2> QED BY <2>7, <2>8
<1>16. Progress(q, o, h, Append(fills, [price |-> p, qty |-> x, maker_id |-> qu[1].id]), rem - x, Seen(new))
  <2> HIDE DEF h, new, p, qu, m
  <2> QED BY <1>10, <1>13, <1>15 DEF Progress
<1> QED BY <1>16

-----------------------------------------------------------------------------
(* The loop ends: what PriceTimeBook prescribes has happened.              *)
Stops(o, lvs, rem) == rem = 0 \/ lvs = <<>> \/ ~Promise!Acceptable(o, lvs[1].price)

(* An order that is not filled has hit every maker. *)
LEMMA UnfilledHitsAll ==
    ASSUME NEW q, NEW o, o.price \in Int, NEW s, NEW lvs, NEW hit, NEW fills, NEW rem,
           Trading(q, o, s, lvs, hit, fills, rem), Stops(o, lvs, rem), rem > 0
    PROVE  \A m \in Promise!Makers(q, o) : m \in HitSet(hit)
<1> SUFFICES ASSUME NEW m \in Promise!Makers(q, o), m \notin HitSet(hit) PROVE FALSE
  OBVIOUS
<1> DEFINE v == m[1]
           k == m[2]
           nq == Seen(lvs)[v]
<1>1. /\ Queues(q, o) /\ s \in Side /\ s = Promise!Opposite(o.side) /\ SideOK(s, lvs)
      /\ Progress(q, o, hit, fills, rem, Seen(lvs)) /\ rem \in Nat
  BY DEF Trading
<1>2. m = <<v, k>> /\ v \in Tick /\ v \in Int /\ k \in 1 .. Len(q[v]) /\ Promise!Acceptable(o, v)
  BY <1>1, MakerIs
<1>3. nq \in Seq(Resting) /\ nq = QueueAt(lvs, v) /\ LeavesAt(q, o, hit, v, nq)
  BY <1>1, <1>2, SeenAt DEF Progress
<1> HIDE DEF nq, v, k
<1>4. <<v, k>> \notin HitSet(hit)
  BY <1>2
<1>5. k - (Len(q[v]) - Len(nq)) \in 1 .. Len(nq)
  BY <1>1, <1>2, <1>3, <1>4, UnhitStays
<1>6. nq # <<>>
  BY <1>3, <1>5
<1>7. PICK i \in 1 .. Len(lvs) : lvs[i].price = v
  BY <1>1, <1>3, <1>6, QueueIs
<1>8. 1 \in 1 .. Len(lvs) /\ Len(lvs) \in Nat /\ lvs # <<>> /\ i \in Int
  <2>1. lvs \in Seq(Level)
    BY <1>1 DEF SideOK
  <2> QED BY <1>7, <2>1
<1>9. lvs[1].price \in Int
  BY <1>1, <1>8, LevelIs, BookAssumption DEF Tick
<1>10. lvs[1].price = v \/ Better(s, lvs[1].price, v)
  <2>1. CASE i = 1
    BY <1>7, <2>1
  <2>2. CASE i # 1
    <3>1. 1 < i
      BY <1>7, <1>8, <2>2
    <3> QED BY <1>1, <1>7, <1>8, <3>1 DEF SideOK, Ordered
  <2> QED BY <2>1, <2>2
<1>11. Promise!Acceptable(o, lvs[1].price)
  BY <1>1, <1>2, <1>9, <1>10 DEF Promise!Acceptable, Promise!Ahead, Better
<1> QED BY <1>1, <1>8, <1>11 DEF Stops

LEMMA HitIs ==
    ASSUME NEW q, NEW o, o.price \in Int, NEW s, NEW lvs, NEW hit, NEW fills, NEW rem,
           Trading(q, o, s, lvs, hit, fills, rem), Stops(o, lvs, rem)
    PROVE  Promise!Hit(q, o) = HitSet(hit)
<1> DEFINE M == Promise!Makers(q, o)
           H == HitSet(hit)
           w == AllQty(q, o)
<1>1. /\ Queues(q, o) /\ rem \in Nat /\ o.qty \in Nat
      /\ InFront(q, o, hit) /\ Reported(q, o, hit, fills) /\ Spent(q, o, hit, rem)
  BY DEF Trading, Progress, Queues
<1>2. H \subseteq M
  BY <1>1 DEF HitSet, InFront
<1>3. \A m \in H : Promise!Traded(q, o, m) > 0
  BY <1>1 DEF HitSet, Reported
<1>4. ASSUME NEW m \in M, m \notin H PROVE ~(Promise!Traded(q, o, m) > 0)
  <2>1. rem = 0
    <3>1. ~(rem > 0)
      BY <1>4, UnfilledHitsAll
    <3> QED BY <1>1, <3>1
  <2>2. H \subseteq AheadOf(q, o, m)
    <3>1. Behind(o, hit, m)
      BY <1>1, <1>4 DEF InFront
    <3> QED BY <1>2, <3>1 DEF Behind, HitSet, AheadOf
  <2> DEFINE A == AheadOf(q, o, m)
  <2>3. A \subseteq M
    BY DEF AheadOf
  <2>4. IsFiniteSet(A) /\ Natural(A, w) /\ SumOf(A, w) \in Nat
    BY <1>1, <2>3, VolumeWithin
  <2>5. SumOf(H, w) \in Nat
    BY <1>1, <1>2, VolumeWithin
  <2> DEFINE a == SumOf(A, w)
             z == SumOf(H, w)
  <2>6. z <= a
    <3> HIDE DEF A, w
    <3> QED BY <2>2, <2>4, SumOfMore DEF A
  <2>7. z >= o.qty - rem
    BY <1>1 DEF Spent
  <2>8. a \in Nat /\ Promise!Traded(q, o, m) = IF o.qty <= a THEN 0
                       ELSE IF q[m[1]][m[2]].qty <= o.qty - a THEN q[m[1]][m[2]].qty ELSE o.qty - a
    <3>1. a = SumOf(AheadOf(q, o, m), AllQty(q, o))
      OBVIOUS
    <3> HIDE DEF a
    <3> QED BY <1>1, <3>1, TradedIs
  <2> HIDE DEF a, z
  <2>9. z \in Nat
    BY <2>5 DEF z
  <2>10. o.qty <= a
    BY <1>1, <2>1, <2>6, <2>7, <2>8, <2>9
  <2> QED BY <2>8, <2>10
<1> QED BY <1>2, <1>3, <1>4 DEF Promise!Hit

LEMMA TotalIsSpent ==
    ASSUME NEW q, NEW o, o.price \in Int, NEW s, NEW lvs, NEW hit, NEW fills, NEW rem, rem <= o.qty,
           Trading(q, o, s, lvs, hit, fills, rem), Stops(o, lvs, rem)
    PROVE  Promise!Total(q, o) = o.qty - rem
<1> DEFINE M == Promise!Makers(q, o)
           H == HitSet(hit)
           w == AllQty(q, o)
           v == SumOf(M, w)
           z == SumOf(H, w)
<1>1. Queues(q, o) /\ rem \in Nat /\ o.qty \in Nat /\ InFront(q, o, hit) /\ Spent(q, o, hit, rem)
  BY DEF Trading, Progress, Queues
<1>2. H \subseteq M
  BY <1>1 DEF HitSet, InFront
<1>3. IsFiniteSet(M) /\ Natural(M, w) /\ z \in Nat
  BY <1>1, <1>2, VolumeWithin
<1>4. v \in Nat /\ Promise!Total(q, o) = IF o.qty <= v THEN o.qty ELSE v
  <2>1. v = SumOf(Promise!Makers(q, o), AllQty(q, o))
    OBVIOUS
  <2> HIDE DEF v
  <2> QED BY <1>1, <2>1, TotalTraded
<1>5. z <= v
  <2> HIDE DEF M, H, w
  <2> QED BY <1>2, <1>3, SumOfMore
<1>6. z >= o.qty - rem /\ (rem > 0 => z = o.qty - rem)
  BY <1>1 DEF Spent
<1>7. rem > 0 => v = z
  <2> SUFFICES ASSUME rem > 0 PROVE M = H
    OBVIOUS
  <2> QED BY <1>2, UnfilledHitsAll
<1> HIDE DEF v, z
<1> QED BY <1>1, <1>3, <1>4, <1>5, <1>6, <1>7

(* The makers that are hit, in the order of the loop, are in their order. *)
LEMMA HitsAreListed ==
    ASSUME NEW q, NEW o, Queues(q, o), NEW hit, InFront(q, o, hit), NEW i \in 1 .. Len(hit)
    PROVE  /\ Lists(hit, Len(hit), HitSet(hit))
           /\ Cardinality({n \in HitSet(hit) : n = hit[i] \/ Promise!Before(o, n, hit[i])}) = i
<1> DEFINE M == Promise!Makers(q, o)
           l == Len(hit)
           U == {n \in HitSet(hit) : n = hit[i] \/ Promise!Before(o, n, hit[i])}
           g == [j \in 1 .. i |-> hit[j]]
<1>1. hit \in Seq(M) /\ Rises(o, hit) /\ l \in Nat /\ i \in Nat
  BY DEF InFront
<1>2. \A j \in 1 .. l : hit[j] \in M
  BY <1>1
<1>3. \A j, k \in 1 .. l : j < k => /\ Promise!Before(o, hit[j], hit[k])
                                     /\ ~Promise!Before(o, hit[k], hit[j])
                                     /\ hit[j] # hit[k]
  BY <1>1, <1>2, BeforeOrders DEF Rises
<1>4. \A j, k \in 1 .. l : hit[j] = hit[k] => j = k
  <2> TAKE j, k \in 1 .. l
  <2>1. j < k \/ j = k \/ k < j
    OBVIOUS
  <2> QED BY <1>3, <2>1
<1>5. DOMAIN hit = 1 .. l
  BY <1>1
<1>6. Lists(hit, l, HitSet(hit))
  BY <1>4, <1>5 DEF Lists, HitSet
<1>7. \A j \in 1 .. l : hit[j] \in U <=> j <= i
  <2> TAKE j \in 1 .. l
  <2>1. j < i \/ j = i \/ i < j
    OBVIOUS
  <2>2. ~Promise!Before(o, hit[i], hit[i])
    BY <1>2, BeforeOrders
  <2>3. hit[j] \in HitSet(hit)
    BY DEF HitSet
  <2>4. hit[j] \in U <=> hit[j] = hit[i] \/ Promise!Before(o, hit[j], hit[i])
    BY <2>3
  <2> HIDE DEF U
  <2> QED BY <1>3, <2>1, <2>2, <2>4
<1>8. \A x \in U : \E j \in 1 .. l : x = hit[j]
  BY DEF HitSet
<1> HIDE DEF U
<1>9. Lists(g, i, U)
  <2>1. \A j \in 1 .. i : j \in 1 .. l /\ g[j] = hit[j] /\ hit[j] \in U
    BY <1>1, <1>7
  <2>2. \A x \in U : \E j \in 1 .. i : x = g[j]
    <3> TAKE x \in U
    <3>1. PICK j \in 1 .. l : x = hit[j]
      BY <1>8
    <3>2. j \in 1 .. i
      BY <1>7, <3>1
    <3> QED BY <3>1, <3>2
  <2>3. \A j, k \in 1 .. i : g[j] = g[k] => j = k
    BY <1>4, <2>1
  <2>4. DOMAIN g = 1 .. i
    OBVIOUS
  <2> HIDE DEF g
  <2> QED BY <2>1, <2>2, <2>3, <2>4 DEF Lists
<1> HIDE DEF g
<1>10. Cardinality(U) = i
  BY <1>1, <1>9, ListCounts
<1> QED BY <1>6, <1>10 DEF U

LEMMA FillsAre ==
    ASSUME NEW q, NEW o, Queues(q, o), NEW hit, InFront(q, o, hit), NEW fills \in Seq(Fill),
           Reported(q, o, hit, fills), Promise!Hit(q, o) = HitSet(hit)
    PROVE  Promise!Fills(q, o) = fills
<1> DEFINE H == Promise!Hit(q, o)
           l == Len(hit)
           place == [m \in H |-> Promise!Cardinality({n \in H : n = m \/ Promise!Before(o, n, m)})]
<1>1. l \in Nat /\ Tabled(hit, l)
  BY DEF InFront, Tabled
<1>2. Lists(hit, l, H)
  <2>1. CASE l = 0
    BY <1>1, <2>1 DEF Lists, HitSet
  <2>2. CASE l # 0
    <3>1. 1 \in 1 .. l
      BY <1>1, <2>2
    <3> QED BY <3>1, HitsAreListed
  <2> QED BY <2>1, <2>2
<1>3. \A i \in 1 .. l : hit[i] \in H /\ place[hit[i]] = i
  <2> TAKE i \in 1 .. l
  <2>1. hit[i] \in H
    BY DEF HitSet
  <2>2. place[hit[i]] = Promise!Cardinality({n \in H : n = hit[i] \/ Promise!Before(o, n, hit[i])})
    BY <2>1
  <2>3. Cardinality({n \in H : n = hit[i] \/ Promise!Before(o, n, hit[i])}) = i
    BY HitsAreListed
  <2> QED BY <2>1, <2>2, <2>3, SameCardinality
<1>4. DOMAIN place = H /\ Places(place, hit, l)
  BY <1>3 DEF Places
<1>5. Promise!Fills(q, o) = [k \in DOMAIN Promise!InOrder(place) |->
          [price |-> Promise!InOrder(place)[k][1],
           qty |-> Promise!Traded(q, o, Promise!InOrder(place)[k]),
           maker_id |-> q[Promise!InOrder(place)[k][1]][Promise!InOrder(place)[k][2]].id]]
  BY DEF Promise!Fills, Promise!Resting
<1> HIDE DEF place
<1>6. Promise!InOrder(place) = hit
  <2> HIDE DEF H, l
  <2> QED BY <1>1, <1>2, <1>4, InOrderIs
<1>7. Promise!Fills(q, o) = [k \in 1 .. l |-> FillOf(q, o, hit[k])]
  BY <1>1, <1>5, <1>6 DEF FillOf, Tabled
<1>8. fills = [k \in 1 .. l |-> fills[k]]
  BY DEF Reported
<1>9. \A k \in 1 .. l : fills[k] = FillOf(q, o, hit[k])
  BY DEF Reported
<1> QED BY <1>7, <1>8, <1>9

LEMMA ReducedIs ==
    ASSUME NEW q, NEW o, Queues(q, o), NEW hit, Promise!Hit(q, o) = HitSet(hit),
           NEW p \in Tick, NEW qu \in Seq(Resting), LeavesAt(q, o, hit, p, qu)
    PROVE  Promise!Reduced(q, o, p) = qu
<1> DEFINE n == Len(q[p])
           c == n - Len(qu)
           left == [k \in DOMAIN q[p] |->
                    IF <<p, k>> \in Promise!Hit(q, o)
                    THEN [q[p][k] EXCEPT !.qty = @ - Promise!Traded(q, o, <<p, k>>)]
                    ELSE q[p][k]]
           D == {k \in DOMAIN left : left[k].qty > 0}
<1>1. q[p] \in Seq(Resting) /\ n \in Nat /\ DOMAIN q[p] = 1 .. n /\ Len(qu) \in Nat
  BY DEF Queues
<1>2. c \in 0 .. n /\ Len(qu) = n - c
  BY <1>1 DEF LeavesAt
<1>3. Gone(q, o, hit, p, c) /\ Stay(q, o, hit, p, c, qu)
  BY DEF LeavesAt
<1>4. DOMAIN left = 1 .. n
  BY <1>1
<1>5. \A k \in 1 .. n : left[k] = LeftOf(q, o, hit, p, k)
  <2> TAKE k \in 1 .. n
  <2>1. q[p][k] \in Resting
    BY <1>1
  <2>2. q[p][k] = [id |-> q[p][k].id, qty |-> q[p][k].qty]
    BY <2>1 DEF Resting
  <2>3. left[k] = IF <<p, k>> \in HitSet(hit)
                  THEN [q[p][k] EXCEPT !.qty = @ - Promise!Traded(q, o, <<p, k>>)]
                  ELSE q[p][k]
    BY <1>1
  <2> HIDE DEF left
  <2> DEFINE t == Promise!Traded(q, o, <<p, k>>)
  <2>4. [q[p][k] EXCEPT !.qty = @ - t] = [id |-> q[p][k].id, qty |-> q[p][k].qty - t]
    <3> HIDE DEF t
    <3> QED BY <2>1 DEF Resting
  <2> QED BY <2>2, <2>3, <2>4 DEF LeftOf
<1>6. Promise!Reduced(q, o, p) = Promise!Kept(left, D)
  BY DEF Promise!Reduced
<1>7. D = c + 1 .. n
  <2> HIDE DEF left, c
  <2>1. ASSUME NEW k \in 1 .. n, k <= c PROVE ~(left[k].qty > 0)
    <3>1. <<p, k>> \in HitSet(hit) /\ Exhausted(q, o, <<p, k>>)
      BY <1>2, <1>3, <2>1 DEF Gone
    <3>2. q[p][k] \in Resting
      BY <1>1
    <3>3. q[p][k].qty \in Nat
      BY <3>2 DEF Resting
    <3>4. Promise!Traded(q, o, <<p, k>>) = q[p][k].qty
      BY <3>1 DEF Exhausted
    <3>5. left[k] = LeftOf(q, o, hit, p, k)
      BY <1>5
    <3>6. left[k].qty = q[p][k].qty - q[p][k].qty
      BY <3>1, <3>4, <3>5 DEF LeftOf
    <3> QED BY <3>3, <3>6
  <2>2. ASSUME NEW k \in c + 1 .. n PROVE left[k].qty > 0
    <3>1. k \in 1 .. n /\ k - c \in 1 .. Len(qu)
      BY <1>1, <1>2
    <3>2. left[k] = qu[k - c]
      BY <1>3, <1>5, <3>1 DEF Stay
    <3>3. qu[k - c] \in Resting
      BY <3>1
    <3> QED BY <3>2, <3>3 DEF Resting
  <2>3. \A k \in 1 .. n : left[k].qty > 0 <=> k \in c + 1 .. n
    BY <1>1, <1>2, <2>1, <2>2
  <2>4. c + 1 .. n \subseteq 1 .. n
    BY <1>1, <1>2
  <2> QED BY <1>4, <2>3, <2>4
<1>8. Follows(qu, left, c, n)
  <2> SUFFICES ASSUME NEW k \in c + 1 .. n PROVE left[k] = qu[k - c]
    BY DEF Follows
  <2>1. k \in 1 .. n
    BY <1>1, <1>2
  <2> HIDE DEF left, c
  <2> QED BY <1>3, <1>5, <2>1 DEF Stay
<1> HIDE DEF left, D, c, n
<1>9. Promise!Kept(left, c + 1 .. n) = qu
  BY <1>1, <1>2, <1>8, KeptSuffix
<1> QED BY <1>6, <1>7, <1>9

-----------------------------------------------------------------------------
(* The loop of Submit as the specification takes it: one step at a time.   *)

LEMMA HoldsQueue ==
    ASSUME NEW s \in Side, NEW lvs, SideOK(s, lvs), NEW p, NEW id
    PROVE  Holds(lvs, id, p) <=> HasId(QueueAt(lvs, p), id)
<1>1. ASSUME NEW i \in 1 .. Len(lvs), lvs[i].price = p
      PROVE  Holds(lvs, id, p) <=> HasId(lvs[i].queue, id)
  <2>1. \A j \in 1 .. Len(lvs) : lvs[j].price = p => j = i
    BY <1>1, PricesDiffer
  <2> QED BY <1>1, <2>1 DEF Holds
<1>2. CASE \E i \in 1 .. Len(lvs) : lvs[i].price = p
  <2>1. PICK i \in 1 .. Len(lvs) : lvs[i].price = p
    BY <1>2
  <2>2. QueueAt(lvs, p) = lvs[i].queue
    BY <2>1, QueueFound
  <2> QED BY <1>1, <2>1, <2>2
<1>3. CASE ~\E i \in 1 .. Len(lvs) : lvs[i].price = p
  <2>1. QueueAt(lvs, p) = <<>>
    BY <1>3, QueueMissing
  <2> QED BY <1>3, <2>1 DEF Holds, HasId
<1> QED BY <1>2, <1>3

(* The breaks of the loop are at the prices the order does not accept. *)
LEMMA LimitIs ==
    ASSUME NEW o \in Order, ~Invalid(o), NEW p \in Int
    PROVE  /\ Promise!Acceptable(o, p) <=> ~BeyondLimit(o, p)
           /\ o.price \in Int
<1>1. o.price \in Int /\ o.type \in {"limit", "market"} /\ o.side \in Side
  <2>1. o.price \in Prices
    BY DEF Order
  <2> QED BY <2>1, CheckedOrder, BookAssumption
<1> QED BY <1>1 DEF Promise!Acceptable, Promise!Ahead, Promise!Opposite, BeyondLimit, Better, Opp

(* What holds while order o is in the loop: lvs are the levels now, those  *)
(* the loop started from are ent.                                          *)
InLoop(o, ent, lvs, fills, rem) ==
    /\ \A s \in Side : SideOK(s, ent[s])
    /\ \A s \in Side, p \in Tick : ~Holds(ent[s], o.id, p)
    /\ lvs[o.side] = ent[o.side]
    /\ \E hit : Progress(Seen(ent[Opp(o.side)]), o, hit, fills, rem, Seen(lvs[Opp(o.side)]))

LoopInv ==
    /\ seq <= MaxSeq
    /\ call # NoCall => /\ seq >= 1
                        /\ InLoop(call.o, call.entry, levels, call.fills, call.remaining)

LEMMA LoopStarts ==
    ASSUME BookInv, IndexInv, NEW o \in Order, SubmitAccepted(o)
    PROVE  InLoop(o, levels, levels, <<>>, o.qty)
<1> DEFINE q == Seen(levels[Opp(o.side)])
<1>1. byID[o.id] = NoEntry /\ ~Invalid(o)
  BY DEF SubmitAccepted
<1>2. o.id \in Ids /\ o.side \in Side /\ o.qty \in Nat
  BY <1>1, CheckedOrder
<1>3. \A s \in Side : SideOK(s, levels[s])
  BY SidesAreOK
<1>4. Opp(o.side) \in Side
  BY DEF Opp, Side
<1>5. \A s \in Side, p \in Tick : ~Holds(levels[s], o.id, p)
  <2> TAKE s \in Side, p \in Tick
  <2>1. [side |-> s, price |-> p] # NoEntry
    BY EntryIsKey
  <2> QED BY <1>1, <1>2, <2>1 DEF IndexInv, MapsQueues
<1>6. Queues(q, o)
  BY <1>2, <1>3, <1>4, SeenIs
<1>7. Progress(q, o, <<>>, <<>>, o.qty, q)
  <2> HIDE DEF q
  <2> QED BY <1>6, ProgressStarts
<1> QED BY <1>3, <1>5, <1>7 DEF InLoop

(* One iteration. *)
LEMMA LoopGoesOn ==
    ASSUME BookInv, LoopInv, FillBest
    PROVE  InLoop(call.o, call.entry, levels', call'.fills, call'.remaining)
<1> DEFINE o     == call.o
           opp   == Opp(o.side)
           lvs   == levels[opp]
           rem   == call.remaining
           fills == call.fills
           b     == lvs[1].queue[1].qty
           x     == IF rem <= b THEN rem ELSE b
           q     == Seen(call.entry[opp])
           f     == [price |-> lvs[1].price, qty |-> x, maker_id |-> lvs[1].queue[1].id]
<1>1. /\ call \in Call /\ o \in Order /\ ~Invalid(o) /\ rem \in Nat /\ fills \in Seq(Fill)
      /\ call # NoCall
  BY DEF BookInv, TypeOK, CallAccepted, FillBest, Call
<1>2. o.qty \in Nat /\ o.side \in Side
  <2> HIDE DEF o
  <2> QED BY <1>1, CheckedOrder
<1>3. InLoop(o, call.entry, levels, fills, rem)
  BY <1>1 DEF LoopInv
<1>4. opp \in Side /\ opp # o.side /\ opp = Promise!Opposite(o.side)
  BY <1>2 DEF Opp, Side, Promise!Opposite
<1>5. SideOK(opp, lvs) /\ SideOK(opp, call.entry[opp])
  BY <1>3, <1>4, SidesAreOK DEF InLoop
<1>6. rem > 0 /\ lvs # <<>> /\ ~BeyondLimit(o, lvs[1].price)
  BY DEF FillBest, LoopContinues
<1>7. Promise!Acceptable(o, lvs[1].price)
  <2> HIDE DEF o, lvs, opp
  <2>1. 1 \in 1 .. Len(lvs)
    BY <1>5, <1>6 DEF SideOK
  <2>2. lvs[1].price \in Int
    BY <1>4, <1>5, <2>1, LevelIs, BookAssumption DEF Tick
  <2> QED BY <1>1, <1>6, <2>2, LimitIs
<1>8. Queues(q, o)
  <2> HIDE DEF o, opp
  <2> QED BY <1>2, <1>4, <1>5, SeenIs
<1>9. /\ call' = [call EXCEPT !.remaining = rem - x, !.fills = Append(fills, f)]
      /\ levels' = [levels EXCEPT ![opp] = AfterFill(lvs, x)]
  BY DEF FillBest
<1>10. PICK hit : Progress(q, o, hit, fills, rem, Seen(lvs))
  BY <1>3 DEF InLoop
<1> HIDE DEF o, opp, lvs, rem, fills, q
<1>11. Trading(q, o, opp, lvs, hit, fills, rem)
  BY <1>1, <1>4, <1>5, <1>8, <1>10 DEF Trading
<1>12. \E h : Progress(q, o, h, Append(fills, f), rem - x, Seen(AfterFill(lvs, x)))
  BY <1>1, <1>6, <1>7, <1>11, FillProgress
<1> HIDE DEF f, x
<1>13. call'.fills = Append(fills, f) /\ call'.remaining = rem - x
  BY <1>1, <1>9 DEF Call
<1>14. levels'[opp] = AfterFill(lvs, x) /\ levels'[o.side] = levels[o.side]
  BY <1>2, <1>4, <1>9 DEF BookInv, TypeOK, Levels
<1>15. InLoop(o, call.entry, levels', Append(fills, f), rem - x)
  BY <1>3, <1>12, <1>14 DEF InLoop, q, opp
<1> QED BY <1>13, <1>15 DEF o

LEMMA LoopInvariant == Spec => []LoopInv
<1>1. Init => LoopInv
  BY BookAssumption DEF Init, LoopInv
<1>2. BookInv /\ IndexInv /\ LoopInv /\ [Next]_vars => LoopInv'
  <2> SUFFICES ASSUME BookInv, IndexInv, LoopInv, [Next]_vars PROVE LoopInv'
    OBVIOUS
  <2>0. seq \in Nat /\ MaxSeq \in Nat
    BY BookAssumption DEF BookInv, TypeOK
  <2>1. CASE UNCHANGED vars
    BY <2>1 DEF vars, LoopInv
  <2>2. ASSUME NEW o \in Order, SubmitRejected(o) PROVE LoopInv'
    BY <2>0, <2>2 DEF SubmitRejected, NextSeq, LoopInv
  <2>3. ASSUME NEW o \in Order, SubmitAccepted(o) PROVE LoopInv'
    <3>1. /\ seq' = seq + 1 /\ seq < MaxSeq /\ levels' = levels
          /\ call' = [o |-> o, remaining |-> o.qty, fills |-> <<>>, entry |-> levels]
      BY <2>3 DEF SubmitAccepted, NextSeq
    <3>2. call'.o = o /\ call'.remaining = o.qty /\ call'.fills = <<>> /\ call'.entry = levels
      BY <3>1
    <3>3. InLoop(o, levels, levels, <<>>, o.qty)
      BY <2>3, LoopStarts
    <3>4. InLoop(call'.o, call'.entry, levels', call'.fills, call'.remaining)
      BY <3>1, <3>2, <3>3
    <3>5. seq' <= MaxSeq /\ seq' >= 1
      BY <2>0, <3>1
    <3> QED BY <3>4, <3>5 DEF LoopInv
  <2>4. CASE FillBest
    <3>1. call # NoCall /\ seq' = seq /\ call \in Call
      BY <2>4 DEF FillBest, BookInv, TypeOK
    <3>2. call'.o = call.o /\ call'.entry = call.entry
      BY <2>4, <3>1 DEF FillBest, Call
    <3>3. InLoop(call.o, call.entry, levels', call'.fills, call'.remaining)
      BY <2>4, LoopGoesOn
    <3>4. InLoop(call'.o, call'.entry, levels', call'.fills, call'.remaining)
      BY <3>2, <3>3
    <3> QED BY <3>1, <3>4 DEF LoopInv
  <2>5. CASE SubmitReturns
    BY <2>5 DEF SubmitReturns, LoopInv
  <2>6. ASSUME NEW id \in Ids, CancelUnknown(id) PROVE LoopInv'
    BY <2>0, <2>6 DEF CancelUnknown, NextSeq, LoopInv
  <2>7. ASSUME NEW id \in Ids, CancelResting(id) PROVE LoopInv'
    BY <2>0, <2>7 DEF CancelResting, NextSeq, LoopInv
  <2> QED BY <2>1, <2>2, <2>3, <2>4, <2>5, <2>6, <2>7 DEF Next
<1> QED BY <1>1, <1>2, BookInvariant, IndexInvariant, PTL DEF Spec

-----------------------------------------------------------------------------
(* The calls answered, as PriceTimeBook counts them.                       *)
Answered == IF call = NoCall THEN seq ELSE seq - 1

LEMMA PromiseAnswer ==
    ASSUME NEW id, NEW status, NEW fills,
           ack' = [order_id |-> id, seq |-> Answered + 1, status |-> status, fills |-> fills]
    PROVE  Promise!Answer(id, status, fills) /\ ack'.order_id = id
  BY DEF Promise!Answer, Answered

LEMMA PromiseStep ==
    ASSUME NEW id \in Ids, ack'.order_id = id, Answered < MaxSeq, Answered' = Answered + 1,
           \/ Promise!Reject(id)
           \/ Promise!Cancel(id)
           \/ \E o \in Order : o.id = id /\ Promise!Accept(o)
    PROVE  Promise!Next
<1>1. Promise!Order = Order
  BY DEF Promise!Order, Order, Promise!Side, Side
<1> QED BY <1>1 DEF Promise!Next, Answered

LEMMA LiveIs ==
    ASSUME \A s \in Side : SideOK(s, VisibleLevels[s]), NEW id \in Ids
    PROVE  id \in Promise!Live <=> \E s \in Side, p \in Tick : Holds(VisibleLevels[s], id, p)
<1>1. ASSUME NEW s \in Side, NEW p \in Tick
      PROVE  /\ Holds(VisibleLevels[s], id, p) <=> HasId(QueueAt(VisibleLevels[s], p), id)
             /\ DOMAIN QueueAt(VisibleLevels[s], p) = 1 .. Len(QueueAt(VisibleLevels[s], p))
  <2>1. QueueAt(VisibleLevels[s], p) \in Seq(Resting)
    BY QueueIs
  <2> QED BY <2>1, HoldsQueue
<1>2. Promise!Live = {i \in Ids : \E s \in Side, p \in Tick :
          \E k \in DOMAIN QueueAt(VisibleLevels[s], p) : QueueAt(VisibleLevels[s], p)[k].id = i}
  BY DEF Promise!Live, Promise!Side, Side, Promise!Ticks, Tick
<1>3. id \in Promise!Live <=> \E s \in Side, p \in Tick : HasId(QueueAt(VisibleLevels[s], p), id)
  <2>1. \A s \in Side, p \in Tick :
           (\E k \in DOMAIN QueueAt(VisibleLevels[s], p) : QueueAt(VisibleLevels[s], p)[k].id = id)
              <=> HasId(QueueAt(VisibleLevels[s], p), id)
    BY <1>1 DEF HasId
  <2> QED BY <1>2, <2>1
<1> QED BY <1>1, <1>3

(* Between two calls the book sees the ids that the map has. *)
LEMMA LiveIsKey ==
    ASSUME BookInv, IndexInv, call = NoCall, NEW id \in Ids
    PROVE  id \in Promise!Live <=> byID[id] # NoEntry
<1>1. VisibleLevels = levels
  BY DEF VisibleLevels
<1>2. id \in Promise!Live <=> \E s \in Side, p \in Tick : Holds(levels[s], id, p)
  BY <1>1, SidesAreOK, LiveIs
<1>3. \A s \in Side, p \in Tick : Holds(levels[s], id, p) <=> byID[id] = [side |-> s, price |-> p]
  BY DEF IndexInv, MapsQueues
<1>4. byID[id] # NoEntry => \E s \in Side, p \in Tick : byID[id] = [side |-> s, price |-> p]
  <2>1. byID[id] # NoEntry => byID[id] \in Entry
    BY DEF BookInv, TypeOK
  <2> QED BY <2>1 DEF Entry
<1>5. \A s \in Side, p \in Tick : [side |-> s, price |-> p] # NoEntry
  BY EntryIsKey
<1> DEFINE E(s, p) == [side |-> s, price |-> p]
<1>6. /\ \A s \in Side, p \in Tick : Holds(levels[s], id, p) <=> byID[id] = E(s, p)
      /\ \A s \in Side, p \in Tick : E(s, p) # NoEntry
      /\ byID[id] # NoEntry => \E s \in Side, p \in Tick : byID[id] = E(s, p)
  BY <1>3, <1>4, <1>5, Zenon
<1> HIDE DEF E
<1> QED BY <1>2, <1>6

LEMMA RejectedIs ==
    ASSUME BookInv, IndexInv, NEW o \in Order, SubmitRejected(o)
    PROVE  Promise!Next
<1>1. /\ call = NoCall /\ seq < MaxSeq /\ seq' = seq + 1 /\ UNCHANGED <<levels, byID, call>>
      /\ ack' = [order_id |-> o.id, seq |-> seq + 1, status |-> "rejected", fills |-> <<>>]
  BY DEF SubmitRejected, NextSeq, Reply
<1>2. Answered = seq /\ Answered' = seq + 1
  BY <1>1 DEF Answered
<1>3. Promise!Answer(o.id, "rejected", <<>>) /\ ack'.order_id = o.id
  BY <1>1, <1>2, PromiseAnswer
<1>4. o.id \in Ids /\ o.qty \in Int
  BY BookAssumption DEF Order
<1>5. ~Promise!Admissible(o)
  <2>1. CASE Invalid(o)
    <3>1. o.price \in Int
      BY BookAssumption DEF Order
    <3> QED BY <1>4, <2>1, <3>1 DEF Invalid, Promise!Admissible, Promise!Side, Side
  <2>2. CASE byID[o.id] # NoEntry
    BY <1>1, <1>4, <2>2, LiveIsKey DEF Promise!Admissible
  <2> QED BY <2>1, <2>2 DEF SubmitRejected
<1>6. o \in Promise!Order
  BY DEF Promise!Order, Order, Promise!Side, Side
<1>7. VisibleLevels' = VisibleLevels
  BY <1>1 DEF VisibleLevels
<1>8. Promise!Reject(o.id)
  BY <1>3, <1>5, <1>6, <1>7 DEF Promise!Reject
<1> QED BY <1>1, <1>2, <1>3, <1>4, <1>8, PromiseStep

(* The queue of a price without the order that is canceled. *)
CanceledFrom(qu, id) == Promise!Kept(qu, {k \in DOMAIN qu : qu[k].id # id})

LEMMA CancelMisses ==
    ASSUME NEW qu \in Seq(Resting), NEW id, ~HasId(qu, id)
    PROVE  CanceledFrom(qu, id) = qu
<1> DEFINE n == Len(qu)
<1>1. n \in Nat /\ n - 0 = n /\ 0 \in 0 .. n
  OBVIOUS
<1>2. {k \in DOMAIN qu : qu[k].id # id} = 0 + 1 .. n
  BY DEF HasId
<1>3. Follows(qu, qu, 0, n)
  BY DEF Follows
<1> HIDE DEF n
<1>4. Len(qu) = n - 0
  BY <1>1 DEF n
<1>5. Promise!Kept(qu, 0 + 1 .. n) = qu
  BY <1>1, <1>3, <1>4, KeptSuffix
<1> QED BY <1>2, <1>5 DEF CanceledFrom

LEMMA CancelTakes ==
    ASSUME NEW qu \in Seq(Resting), Distinct(qu), NEW k \in 1 .. Len(qu), NEW id, qu[k].id = id
    PROVE  CanceledFrom(qu, id) = RemoveAt(qu, k)
<1>1. {l \in DOMAIN qu : qu[l].id # id} = (1 .. Len(qu)) \ {k}
  BY DEF Distinct
<1> QED BY <1>1, KeptWithout DEF CanceledFrom

(* Every queue loses the order that is canceled, and no other. *)
LEMMA PromiseCancel ==
    ASSUME NEW id, Promise!Answer(id, IF id \in Promise!Live THEN "canceled" ELSE "unknown", <<>>),
           \A s \in Side, p \in Tick :
              QueueAt(VisibleLevels'[s], p) = CanceledFrom(QueueAt(VisibleLevels[s], p), id)
    PROVE  Promise!Cancel(id)
<1>1. [s \in Side |-> [p \in Tick |-> QueueAt(VisibleLevels'[s], p)]] =
      [s \in Side |-> [p \in Tick |-> CanceledFrom(QueueAt(VisibleLevels[s], p), id)]]
  OBVIOUS
<1>2. [s \in Side |-> [p \in Tick |-> CanceledFrom(QueueAt(VisibleLevels[s], p), id)]] =
      [s \in Side |-> [p \in Tick |->
         Promise!Kept([u \in Side |-> [v \in Tick |-> QueueAt(VisibleLevels[u], v)]][s][p],
            {k \in DOMAIN [u \in Side |-> [v \in Tick |-> QueueAt(VisibleLevels[u], v)]][s][p] :
               [u \in Side |-> [v \in Tick |-> QueueAt(VisibleLevels[u], v)]][s][p][k].id # id})]]
  BY DEF CanceledFrom
<1>3. Promise!Side = Side /\ Promise!Ticks = Tick
  BY DEF Promise!Side, Side, Promise!Ticks, Tick
<1> QED BY <1>1, <1>2, <1>3 DEF Promise!Cancel

LEMMA UnknownIs ==
    ASSUME BookInv, IndexInv, NEW id \in Ids, CancelUnknown(id)
    PROVE  Promise!Next
<1>1. /\ call = NoCall /\ seq < MaxSeq /\ seq' = seq + 1 /\ UNCHANGED <<levels, byID, call>>
      /\ byID[id] = NoEntry
      /\ ack' = [order_id |-> id, seq |-> seq + 1, status |-> "unknown", fills |-> <<>>]
  BY DEF CancelUnknown, NextSeq, Reply
<1>2. Answered = seq /\ Answered' = seq + 1
  BY <1>1 DEF Answered
<1>3. Promise!Answer(id, "unknown", <<>>) /\ ack'.order_id = id
  BY <1>1, <1>2, PromiseAnswer
<1>4. VisibleLevels = levels /\ VisibleLevels' = levels
  BY <1>1 DEF VisibleLevels
<1>5. id \notin Promise!Live
  BY <1>1, LiveIsKey
<1>6. ASSUME NEW s \in Side, NEW p \in Tick
      PROVE  QueueAt(VisibleLevels'[s], p) = CanceledFrom(QueueAt(VisibleLevels[s], p), id)
  <2>1. ~Holds(levels[s], id, p)
    BY <1>4, <1>5, SidesAreOK, LiveIs
  <2>2. SideOK(s, levels[s])
    BY SidesAreOK
  <2>3. QueueAt(levels[s], p) \in Seq(Resting) /\ ~HasId(QueueAt(levels[s], p), id)
    BY <2>1, <2>2, QueueIs, HoldsQueue
  <2> QED BY <1>4, <2>3, CancelMisses
<1>7. Promise!Cancel(id)
  BY <1>3, <1>5, <1>6, PromiseCancel
<1> QED BY <1>1, <1>2, <1>3, <1>7, PromiseStep

LEMMA CanceledIs ==
    ASSUME BookInv, IndexInv, NEW id \in Ids, CancelResting(id)
    PROVE  Promise!Next
<1>1. /\ call = NoCall /\ seq < MaxSeq /\ seq' = seq + 1 /\ UNCHANGED call
      /\ byID[id] # NoEntry
      /\ ack' = [order_id |-> id, seq |-> seq + 1, status |-> "canceled", fills |-> <<>>]
  BY DEF CancelResting, NextSeq, Reply
<1>2. Answered = seq /\ Answered' = seq + 1
  BY <1>1 DEF Answered
<1>3. Promise!Answer(id, "canceled", <<>>) /\ ack'.order_id = id
  BY <1>1, <1>2, PromiseAnswer
<1>4. VisibleLevels = levels /\ VisibleLevels' = levels'
  BY <1>1 DEF VisibleLevels
<1>5. id \in Promise!Live
  BY <1>1, LiveIsKey
<1>6. PICK s \in Side, v \in Tick : \E i \in 1 .. Len(levels[s]) :
              \E k \in 1 .. Len(levels[s][i].queue) : Leaves(id, s, v, i, k)
  BY CancelFinds
<1>7. PICK i \in 1 .. Len(levels[s]) : \E k \in 1 .. Len(levels[s][i].queue) : Leaves(id, s, v, i, k)
  BY <1>6
<1>8. PICK k \in 1 .. Len(levels[s][i].queue) : Leaves(id, s, v, i, k)
  BY <1>7
<1>9. /\ byID[id] = [side |-> s, price |-> v] /\ levels[s][i].price = v
      /\ levels[s][i].queue[k].id = id
      /\ levels' = [levels EXCEPT ![s] = WithoutOrder(levels[s], i, k)]
  BY <1>8 DEF Leaves
<1>10. ASSUME NEW t \in Side, NEW p \in Tick
      PROVE  QueueAt(levels'[t], p) = CanceledFrom(QueueAt(levels[t], p), id)
  <2>1. SideOK(t, levels[t]) /\ SideOK(s, levels[s])
    BY SidesAreOK
  <2>2. QueueAt(levels[t], p) \in Seq(Resting)
    BY <2>1, QueueIs
  <2>3. levels'[t] = IF t = s THEN WithoutOrder(levels[s], i, k) ELSE levels[t]
    BY <1>9 DEF BookInv, TypeOK, Levels
  <2>4. QueueAt(WithoutOrder(levels[s], i, k), p) =
          IF p = v THEN RemoveAt(levels[s][i].queue, k) ELSE QueueAt(levels[s], p)
    BY <1>9, <2>1, WithoutOrderQueues
  <2>5. CASE t = s /\ p = v
    <3>1. QueueAt(levels[t], p) = levels[s][i].queue
      BY <1>9, <2>1, <2>5, QueueFound
    <3>2. Distinct(levels[s][i].queue)
      BY DEF IndexInv, MapsQueues, NoTwice
    <3>3. CanceledFrom(levels[s][i].queue, id) = RemoveAt(levels[s][i].queue, k)
      BY <1>9, <2>2, <3>1, <3>2, CancelTakes
    <3>4. QueueAt(levels'[t], p) = RemoveAt(levels[s][i].queue, k)
      BY <2>3, <2>4, <2>5
    <3> QED BY <3>1, <3>3, <3>4
  <2>6. CASE ~(t = s /\ p = v)
    <3>1. [side |-> s, price |-> v] # [side |-> t, price |-> p]
      BY <2>6, EntriesDiffer
    <3>2. Holds(levels[t], id, p) <=> byID[id] = [side |-> t, price |-> p]
      BY DEF IndexInv, MapsQueues
    <3>3. ~Holds(levels[t], id, p)
      BY <1>9, <3>1, <3>2
    <3>4. ~HasId(QueueAt(levels[t], p), id)
      BY <2>1, <3>3, HoldsQueue
    <3>5. CanceledFrom(QueueAt(levels[t], p), id) = QueueAt(levels[t], p)
      BY <2>2, <3>4, CancelMisses
    <3>6. QueueAt(levels'[t], p) = QueueAt(levels[t], p)
      BY <2>3, <2>4, <2>6
    <3> QED BY <3>5, <3>6
  <2> QED BY <2>5, <2>6
<1>11. Promise!Cancel(id)
  BY <1>3, <1>4, <1>5, <1>10, PromiseCancel
<1> QED BY <1>1, <1>2, <1>3, <1>11, PromiseStep

(* What is left of order o for the book. *)
LeftOver(q, o) == IF o.type = "limit" /\ Promise!Total(q, o) < o.qty
                  THEN <<[id |-> o.id, qty |-> o.qty - Promise!Total(q, o)]>> ELSE <<>>

LEMMA PromiseAccept ==
    ASSUME NEW o, o.side \in Side, NEW q, q = Seen(VisibleLevels[Opp(o.side)]),
           Promise!Admissible(o), Promise!Answer(o.id, Promise!StatusOf(q, o), Promise!Fills(q, o)),
           \A p \in Tick : QueueAt(VisibleLevels'[Opp(o.side)], p) = Promise!Reduced(q, o, p),
           \A p \in Tick : QueueAt(VisibleLevels'[o.side], p) =
              IF p = o.price THEN QueueAt(VisibleLevels[o.side], p) \o LeftOver(q, o)
                             ELSE QueueAt(VisibleLevels[o.side], p)
    PROVE  Promise!Accept(o)
<1> DEFINE Q == [s \in Side |-> [p \in Tick |-> QueueAt(VisibleLevels[s], p)]]
           N == [s \in Side |-> [p \in Tick |-> QueueAt(VisibleLevels'[s], p)]]
           opp == Promise!Opposite(o.side)
<1>1. opp = Opp(o.side) /\ opp \in Side /\ opp # o.side /\ Side = {opp, o.side}
  BY DEF Promise!Opposite, Opp, Side
<1>2. Promise!Side = Side /\ Promise!Ticks = Tick
  BY DEF Promise!Side, Side, Promise!Ticks, Tick
<1>3. q = Q[opp]
  BY <1>1 DEF Seen
<1>4. N = [Q EXCEPT ![opp] = [p \in Tick |-> Promise!Reduced(Q[opp], o, p)],
                    ![o.side] = [p \in Tick |-> IF p = o.price THEN Q[o.side][p] \o LeftOver(Q[opp], o)
                                                              ELSE Q[o.side][p]]]
  <2> DEFINE A == [p \in Tick |-> Promise!Reduced(q, o, p)]
             B == [p \in Tick |-> IF p = o.price THEN Q[o.side][p] \o LeftOver(q, o) ELSE Q[o.side][p]]
  <2>1. N[opp] = A
    BY <1>1
  <2>2. N[o.side] = B
    <3>1. Q[o.side] = [p \in Tick |-> QueueAt(VisibleLevels[o.side], p)]
      OBVIOUS
    <3>2. N[o.side] = [p \in Tick |-> QueueAt(VisibleLevels'[o.side], p)]
      OBVIOUS
    <3> QED BY <3>1, <3>2
  <2>3. N = [s \in Side |-> N[s]] /\ DOMAIN Q = Side
    OBVIOUS
  <2> HIDE DEF A, B, N, Q
  <2>4. N = [Q EXCEPT ![opp] = A, ![o.side] = B]
    BY <1>1, <2>1, <2>2, <2>3
  <2> QED BY <1>3, <2>4 DEF A, B
<1>5. /\ Promise!Admissible(o)
      /\ Promise!Answer(o.id, Promise!StatusOf(Q[opp], o), Promise!Fills(Q[opp], o))
  BY <1>3
<1> QED BY <1>2, <1>4, <1>5 DEF Promise!Accept, LeftOver

(* The queue of price p has got r at its end. *)
Rested(new, lvs, p, r) ==
    \A v : QueueAt(new, v) = IF v = p THEN Append(QueueAt(lvs, p), r) ELSE QueueAt(lvs, v)

LEMMA RestAtRests ==
    ASSUME NEW s \in Side, NEW lvs, SideOK(s, lvs), NEW p \in Tick, NEW r \in Resting,
           NEW i \in 1 .. Len(lvs) + 1, ScanStops(lvs, s, p, i)
    PROVE  Rested(RestAt(lvs, i, p, r), lvs, p, r)
  BY RestQueues DEF Rested

LEMMA FinalStatusIs ==
    ASSUME NEW o, NEW q, o.qty \in Nat \ {0}, o.type \in {"limit", "market"},
           NEW rem \in Nat, rem <= o.qty, Promise!Total(q, o) = o.qty - rem
    PROVE  Promise!StatusOf(q, o) = FinalStatus(o, rem)
<1>1. CASE rem = 0
  <2>1. Promise!Total(q, o) = o.qty
    BY <1>1
  <2> QED BY <1>1, <2>1 DEF Promise!StatusOf, FinalStatus
<1>2. CASE rem > 0 /\ rem < o.qty
  <2>1. Promise!Total(q, o) \in 1 .. o.qty - 1 /\ Promise!Total(q, o) # 0 /\ Promise!Total(q, o) # o.qty
    BY <1>2
  <2> QED BY <1>2, <2>1 DEF Promise!StatusOf, FinalStatus
<1>3. CASE rem = o.qty
  <2>1. Promise!Total(q, o) = 0 /\ Promise!Total(q, o) # o.qty /\ Promise!Total(q, o) \notin 1 .. o.qty - 1
    BY <1>3
  <2> QED BY <1>3, <2>1 DEF Promise!StatusOf, FinalStatus
<1> QED BY <1>1, <1>2, <1>3

(* When the loop ends, its fills and the side it traded with are those     *)
(* that PriceTimeBook prescribes.                                          *)
LEMMA LoopEnds ==
    ASSUME BookInv, LoopInv, SubmitReturns, NEW o, o = call.o,
           NEW q, q = Seen(call.entry[Opp(o.side)])
    PROVE  /\ Promise!Total(q, o) = o.qty - call.remaining
           /\ Promise!Fills(q, o) = call.fills
           /\ \A p \in Tick : Promise!Reduced(q, o, p) = QueueAt(levels[Opp(o.side)], p)
<1> DEFINE opp   == Opp(o.side)
           lvs   == levels[opp]
           rem   == call.remaining
           fills == call.fills
<1>1. /\ call \in Call /\ o \in Order /\ ~Invalid(o) /\ rem \in Nat /\ fills \in Seq(Fill)
      /\ call # NoCall /\ rem <= o.qty
  BY DEF BookInv, TypeOK, CallAccepted, SubmitReturns, Call
<1>2. o.qty \in Nat /\ o.side \in Side
  BY <1>1, CheckedOrder
<1>3. InLoop(o, call.entry, levels, fills, rem)
  BY <1>1 DEF LoopInv
<1>4. opp \in Side /\ opp = Promise!Opposite(o.side)
  BY <1>2 DEF Opp, Side, Promise!Opposite
<1>5. SideOK(opp, lvs) /\ SideOK(opp, call.entry[opp])
  BY <1>3, <1>4, SidesAreOK DEF InLoop
<1>6. ~(rem > 0 /\ lvs # <<>> /\ ~BeyondLimit(o, lvs[1].price))
  BY DEF SubmitReturns, LoopContinues
<1>7. Queues(q, o)
  <2> HIDE DEF opp
  <2> QED BY <1>2, <1>4, <1>5, SeenIs DEF opp
<1>8. PICK hit : Progress(q, o, hit, fills, rem, Seen(lvs))
  BY <1>3 DEF InLoop
<1> HIDE DEF opp, lvs, rem, fills
<1>9. Stops(o, lvs, rem)
  <2>1. CASE lvs # <<>>
    <3>1. 1 \in 1 .. Len(lvs)
      BY <1>5, <2>1 DEF SideOK
    <3>2. lvs[1].price \in Int
      BY <1>4, <1>5, <3>1, LevelIs, BookAssumption DEF Tick
    <3> QED BY <1>1, <1>6, <3>2, LimitIs DEF Stops
  <2> QED BY <2>1 DEF Stops
<1>10. o.price \in Int
  BY <1>1, LimitIs
<1>11. Trading(q, o, opp, lvs, hit, fills, rem)
  BY <1>1, <1>4, <1>5, <1>7, <1>8 DEF Trading
<1>12. Promise!Total(q, o) = o.qty - rem
  BY <1>1, <1>9, <1>10, <1>11, TotalIsSpent
<1>13. Promise!Hit(q, o) = HitSet(hit)
  BY <1>9, <1>10, <1>11, HitIs
<1>14. InFront(q, o, hit) /\ Reported(q, o, hit, fills) /\ \A p \in Tick : LeavesAt(q, o, hit, p, Seen(lvs)[p])
  BY <1>8 DEF Progress
<1>15. Promise!Fills(q, o) = fills
  BY <1>1, <1>7, <1>13, <1>14, FillsAre
<1>16. ASSUME NEW p \in Tick PROVE Promise!Reduced(q, o, p) = QueueAt(lvs, p)
  <2>1. Seen(lvs)[p] = QueueAt(lvs, p) /\ Seen(lvs)[p] \in Seq(Resting)
    BY <1>4, <1>5, SeenAt
  <2>2. LeavesAt(q, o, hit, p, QueueAt(lvs, p)) /\ QueueAt(lvs, p) \in Seq(Resting)
    BY <1>14, <2>1
  <2> QED BY <1>7, <1>13, <2>2, ReducedIs
<1> QED BY <1>12, <1>15, <1>16 DEF opp, lvs, rem, fills

LEMMA ReturnIs ==
    ASSUME BookInv, IndexInv, LoopInv, SubmitReturns
    PROVE  Promise!Next
<1> DEFINE o   == call.o
           opp == Opp(o.side)
           rem == call.remaining
           q   == Seen(call.entry[opp])
<1>1. /\ call \in Call /\ o \in Order /\ ~Invalid(o) /\ rem \in Nat /\ call # NoCall /\ rem <= o.qty
  BY DEF BookInv, TypeOK, CallAccepted, SubmitReturns, Call
<1>2. /\ o.id \in Ids /\ o.qty \in Nat \ {0} /\ o.side \in Side /\ o.type \in {"limit", "market"}
      /\ (o.type = "limit" => o.price \in Tick)
  <2> HIDE DEF o
  <2> QED BY <1>1, CheckedOrder
<1>3. InLoop(o, call.entry, levels, call.fills, rem) /\ seq >= 1 /\ seq <= MaxSeq
  BY <1>1 DEF LoopInv
<1>4. /\ call' = NoCall /\ seq' = seq
      /\ ack' = [order_id |-> o.id, seq |-> seq, status |-> FinalStatus(o, rem), fills |-> call.fills]
  BY DEF SubmitReturns, Reply
<1>5. seq \in Nat /\ MaxSeq \in Nat
  BY BookAssumption DEF BookInv, TypeOK
<1>6. Answered = seq - 1 /\ Answered' = seq /\ Answered + 1 = seq /\ Answered < MaxSeq
  BY <1>1, <1>3, <1>4, <1>5 DEF Answered
<1>7. VisibleLevels = call.entry /\ VisibleLevels' = levels'
  BY <1>1, <1>4 DEF VisibleLevels
<1>8. /\ Promise!Total(q, o) = o.qty - rem
      /\ Promise!Fills(q, o) = call.fills
      /\ \A p \in Tick : Promise!Reduced(q, o, p) = QueueAt(levels[opp], p)
  BY LoopEnds
<1> HIDE DEF q, o, rem
<1>9. Promise!StatusOf(q, o) = FinalStatus(o, rem)
  BY <1>1, <1>2, <1>8, FinalStatusIs
<1>10. Promise!Answer(o.id, Promise!StatusOf(q, o), Promise!Fills(q, o)) /\ ack'.order_id = o.id
  <2>1. ack' = [order_id |-> o.id, seq |-> Answered + 1, status |-> FinalStatus(o, rem), fills |-> call.fills]
    BY <1>4, <1>6
  <2> QED BY <1>8, <1>9, <2>1, PromiseAnswer
<1>11. Promise!Admissible(o)
  <2>1. o.id \notin Promise!Live
    BY <1>2, <1>3, <1>7, LiveIs DEF InLoop
  <2> QED BY <1>1, <1>2, <2>1 DEF Promise!Admissible, Promise!Side, Side, Tick
<1>12. opp \in Side /\ opp # o.side
  BY <1>2 DEF Opp, Side
<1>13. levels[o.side] = call.entry[o.side] /\ SideOK(o.side, levels[o.side])
  BY <1>2, <1>3, SidesAreOK DEF InLoop
<1>14. /\ \A p \in Tick : QueueAt(levels'[opp], p) = QueueAt(levels[opp], p)
       /\ \A p \in Tick : QueueAt(levels'[o.side], p) =
             IF p = o.price THEN QueueAt(levels[o.side], p) \o LeftOver(q, o)
                            ELSE QueueAt(levels[o.side], p)
  <2>1. \A p \in Tick : QueueAt(levels[o.side], p) \in Seq(Resting)
    BY <1>2, <1>13, QueueIs
  <2>2. CASE rem > 0 /\ o.type = "limit"
    <3> DEFINE r == [id |-> o.id, qty |-> rem]
               lvs == levels[o.side]
    <3>1. Rest(o, rem)
      BY <2>2 DEF SubmitReturns, o, rem
    <3>2. PICK i \in 1 .. Len(lvs) + 1 :
              /\ ScanStops(lvs, o.side, o.price, i)
              /\ levels' = [levels EXCEPT ![o.side] = RestAt(lvs, i, o.price, r)]
      BY <3>1 DEF Rest
    <3>3. r \in Resting
      BY <1>1, <1>2, <2>2 DEF Resting
    <3>4. levels'[opp] = levels[opp] /\ levels'[o.side] = RestAt(lvs, i, o.price, r)
      BY <1>2, <1>12, <3>2 DEF BookInv, TypeOK, Levels
    <3>5. LeftOver(q, o) = <<r>>
      <4>1. Promise!Total(q, o) < o.qty /\ o.qty - Promise!Total(q, o) = rem
        BY <1>1, <1>2, <1>8, <2>2
      <4> QED BY <2>2, <4>1 DEF LeftOver
    <3> HIDE DEF r, lvs
    <3>6. Rested(RestAt(lvs, i, o.price, r), lvs, o.price, r)
      <4>1. SideOK(o.side, lvs) /\ o.side \in Side /\ o.price \in Tick /\ ScanStops(lvs, o.side, o.price, i)
        BY <1>2, <1>13, <2>2, <3>2 DEF lvs
      <4> QED BY <3>3, <4>1, RestAtRests
    <3>7. ASSUME NEW p \in Tick
          PROVE  QueueAt(levels'[o.side], p) =
                    IF p = o.price THEN QueueAt(lvs, p) \o <<r>> ELSE QueueAt(lvs, p)
      <4>1. QueueAt(RestAt(lvs, i, o.price, r), p) =
               IF p = o.price THEN Append(QueueAt(lvs, o.price), r) ELSE QueueAt(lvs, p)
        BY <3>6 DEF Rested
      <4>2. QueueAt(lvs, p) \in Seq(Resting)
        BY <2>1 DEF lvs
      <4>3. Append(QueueAt(lvs, p), r) = QueueAt(lvs, p) \o <<r>>
        BY <3>3, <4>2
      <4> QED BY <3>4, <4>1, <4>3
    <3> QED BY <3>4, <3>5, <3>7 DEF lvs
  <2>3. CASE ~(rem > 0 /\ o.type = "limit")
    <3>1. levels' = levels
      BY <2>3 DEF SubmitReturns, o, rem
    <3>2. LeftOver(q, o) = <<>>
      <4>1. o.type = "limit" => ~(Promise!Total(q, o) < o.qty)
        BY <1>1, <1>2, <1>8, <2>3
      <4> QED BY <4>1 DEF LeftOver
    <3>3. \A p \in Tick : QueueAt(levels[o.side], p) \o <<>> = QueueAt(levels[o.side], p)
      BY <2>1
    <3> QED BY <3>1, <3>2, <3>3
  <2> QED BY <2>2, <2>3
<1>15. Promise!Accept(o)
  <2>1. q = Seen(VisibleLevels[Opp(o.side)])
    BY <1>7 DEF q, o
  <2>2. \A p \in Tick : QueueAt(VisibleLevels'[Opp(o.side)], p) = Promise!Reduced(q, o, p)
    BY <1>7, <1>8, <1>14
  <2>3. \A p \in Tick : QueueAt(VisibleLevels'[o.side], p) =
              IF p = o.price THEN QueueAt(VisibleLevels[o.side], p) \o LeftOver(q, o)
                             ELSE QueueAt(VisibleLevels[o.side], p)
    BY <1>7, <1>13, <1>14
  <2> QED BY <1>2, <1>10, <1>11, <2>1, <2>2, <2>3, PromiseAccept
<1> QED BY <1>1, <1>2, <1>6, <1>10, <1>15, PromiseStep

(* A Submit that enters its loop, and every iteration, changes nothing     *)
(* that a caller can see.                                                  *)
LEMMA LoopIsHidden ==
    ASSUME BookInv, \/ \E o \in Order : SubmitAccepted(o)
                    \/ FillBest
    PROVE  VisibleLevels' = VisibleLevels /\ Answered' = Answered /\ ack' = ack
<1>1. CASE \E o \in Order : SubmitAccepted(o)
  <2>1. PICK o \in Order : SubmitAccepted(o)
    BY <1>1
  <2>2. /\ call = NoCall /\ seq' = seq + 1 /\ ack' = ack /\ levels' = levels
        /\ call' = [o |-> o, remaining |-> o.qty, fills |-> <<>>, entry |-> levels]
    BY <2>1 DEF SubmitAccepted, NextSeq
  <2>3. call' # NoCall
    <3>1. o.qty \in Nat
      BY <2>1, CheckedOrder DEF SubmitAccepted
    <3>2. call' \in Call
      BY <2>2, <3>1 DEF BookInv, TypeOK, Call
    <3> QED BY <3>2, NothingAssumption
  <2>4. call'.entry = levels
    BY <2>2
  <2>5. seq \in Nat
    BY DEF BookInv, TypeOK
  <2> QED BY <2>2, <2>3, <2>4, <2>5 DEF VisibleLevels, Answered
<1>2. CASE FillBest
  <2>1. call # NoCall /\ call \in Call /\ seq' = seq /\ ack' = ack
    BY <1>2 DEF FillBest, BookInv, TypeOK
  <2>2. call' \in Call
    BY <1>2, FillBestStep
  <2>3. call' # NoCall
    BY <2>2, NothingAssumption
  <2>4. call'.entry = call.entry
    BY <1>2, <2>1 DEF FillBest, Call
  <2> QED BY <2>1, <2>3, <2>4 DEF VisibleLevels, Answered
<1> QED BY <1>1, <1>2

(* book.go implements price-time priority, for every set of ids, prices    *)
(* and quantities and every sequence of calls: each ack carries the fills, *)
(* in the order and with the quantities, that PriceTimeBook prescribes,    *)
(* and the book left behind is the one it prescribes.  The levels, the     *)
(* index and the loop of Submit cannot be told from one queue per tick.    *)
THEOREM BookKeepsPriceTime == Spec => ImplementsPriceTime
<1>1. Init => Promise!Init
  <2> SUFFICES ASSUME Init PROVE Promise!Init
    OBVIOUS
  <2>1. \A s \in Side, p \in Tick : QueueAt(VisibleLevels[s], p) = <<>>
    BY DEF Init, VisibleLevels, QueueAt
  <2> QED BY <2>1 DEF Init, Promise!Init, Promise!Side, Side, Promise!Ticks, Tick
<1>2. BookInv /\ IndexInv /\ LoopInv /\ [Next]_vars => [Promise!Next]_(Promise!abstractVars)
  <2> SUFFICES ASSUME BookInv, IndexInv, LoopInv, [Next]_vars
               PROVE  Promise!Next \/ UNCHANGED Promise!abstractVars
    OBVIOUS
  <2>1. VisibleLevels' = VisibleLevels /\ Answered' = Answered /\ ack' = ack
          => UNCHANGED Promise!abstractVars
    BY DEF Promise!abstractVars, Answered
  <2>2. CASE UNCHANGED vars
    BY <2>1, <2>2 DEF vars, VisibleLevels, Answered
  <2> QED BY <2>1, <2>2, RejectedIs, LoopIsHidden, ReturnIs, UnknownIs, CanceledIs DEF Next
<1> QED BY <1>1, <1>2, BookInvariant, IndexInvariant, LoopInvariant, PTL
        DEF Spec, ImplementsPriceTime, Promise!Spec

-----------------------------------------------------------------------------
(* PythonBook: sorting puts a level where the scan of rest() would, and    *)
(* rebuilding a queue takes out the order that Cancel takes out.           *)

(* Place j of the list comes no later than place i in the sorted list. *)
UpTo(key, j, i) == key[j] < key[i] \/ (key[j] = key[i] /\ j <= i)

(* h lists the places in the order of their keys. *)
LEMMA SortedByIs ==
    ASSUME NEW n \in Nat, NEW lvs, DOMAIN lvs = 1 .. n, NEW key, NEW h,
           Tabled(h, n), Lists(h, n, 1 .. n),
           \A k, m \in 1 .. n : UpTo(key, h[m], h[k]) <=> m <= k
    PROVE  SortedBy(lvs, key) = [k \in 1 .. n |-> lvs[h[k]]]
<1> DEFINE place == [i \in 1 .. n |-> Promise!Cardinality({j \in 1 .. n : UpTo(key, j, i)})]
<1>1. ASSUME NEW k \in 1 .. n PROVE place[h[k]] = k
  <2> DEFINE U == {j \in 1 .. n : UpTo(key, j, h[k])}
             g == [m \in 1 .. k |-> h[m]]
  <2>1. h[k] \in 1 .. n /\ place[h[k]] = Promise!Cardinality(U)
    BY DEF Lists
  <2>2. \A m \in 1 .. k : m \in 1 .. n /\ g[m] = h[m] /\ h[m] \in U
    BY DEF Lists
  <2>3. \A x \in U : \E m \in 1 .. k : x = g[m]
    <3> TAKE x \in U
    <3>1. PICK m \in 1 .. n : x = h[m]
      BY DEF Lists
    <3>2. m \in 1 .. k
      BY <3>1
    <3> QED BY <3>1, <3>2
  <2> HIDE DEF U, place
  <2>4. Lists(g, k, U)
    BY <2>2, <2>3 DEF Lists
  <2> HIDE DEF g
  <2>5. k \in Nat
    OBVIOUS
  <2> QED BY <2>1, <2>4, <2>5, ListCounts, SameCardinality
<1>2. SortedBy(lvs, key) =
        [k \in DOMAIN Promise!InOrder(place) |-> lvs[Promise!InOrder(place)[k]]]
  BY DEF SortedBy, UpTo
<1>3. DOMAIN place = 1 .. n
  OBVIOUS
<1> HIDE DEF place
<1>4. Promise!InOrder(place) = h
  BY <1>1, <1>3, InOrderIs DEF Places
<1>5. DOMAIN h = 1 .. n
  BY DEF Lists
<1> QED BY <1>2, <1>4, <1>5

(* The key of a price under which the best price of side s is the least. *)
KeyOf(s, p) == IF s = "buy" THEN -p ELSE p

LEMMA BetterIsKey ==
    ASSUME NEW s \in Side, NEW p \in Int, NEW q \in Int
    PROVE  /\ KeyOf(s, p) \in Int
           /\ KeyOf(s, p) < KeyOf(s, q) <=> Better(s, p, q)
  BY DEF KeyOf, Better

(* Sorting a side to which one level was appended inserts that level.      *)
LEMMA SortInserts ==
    ASSUME NEW s \in Side, NEW lvs, SideOK(s, lvs), NEW p \in Tick, NEW r \in Resting,
           NEW i \in 1 .. Len(lvs) + 1, ScanStops(lvs, s, p, i),
           \A j \in 1 .. Len(lvs) : lvs[j].price # p
    PROVE  SortedSide(Append(lvs, [price |-> p, queue |-> <<r>>]), s) = RestAt(lvs, i, p, r)
<1> DEFINE n == Len(lvs) + 1
           e == [price |-> p, queue |-> <<r>>]
           app == Append(lvs, e)
           key == [j \in 1 .. n |-> KeyOf(s, app[j].price)]
           h == [k \in 1 .. n |-> IF k < i THEN k ELSE IF k = i THEN n ELSE k - 1]
           new == InsertAt(lvs, i, e)
<1>0. e \in Level
  <2>1. <<r>> \in Seq(Resting)
    OBVIOUS
  <2> QED BY <2>1 DEF Level
<1>1. lvs \in Seq(Level) /\ n \in Nat /\ n - 1 \in Nat /\ n - 1 = Len(lvs) /\ i \in 1 .. n
  BY DEF SideOK
<1>2. DOMAIN app = 1 .. n /\ app[n] = e /\ \A j \in 1 .. n - 1 : app[j] = lvs[j]
  BY <1>1
<1>3. /\ new \in Seq(Level) /\ Len(new) = n /\ new[i] = e
      /\ \A j \in 1 .. i - 1 : new[j] = lvs[j]
      /\ \A j \in i + 1 .. n : new[j] = lvs[j - 1]
  <2>1. lvs \in Seq(Level) /\ e \in Level /\ i \in 1 .. Len(lvs) + 1
    BY <1>0, <1>1
  <2> HIDE DEF e
  <2>2. /\ InsertAt(lvs, i, e) \in Seq(Level) /\ Len(InsertAt(lvs, i, e)) = Len(lvs) + 1
        /\ InsertAt(lvs, i, e)[i] = e
        /\ \A j \in 1 .. i - 1 : InsertAt(lvs, i, e)[j] = lvs[j]
        /\ \A j \in i + 1 .. Len(lvs) + 1 : InsertAt(lvs, i, e)[j] = lvs[j - 1]
    BY <2>1, InsertAtIs
  <2> QED BY <2>2
<1>31. RestAt(lvs, i, p, r) = new
  <2>1. ~(i <= Len(lvs) /\ lvs[i].price = p)
    BY <1>1
  <2> QED BY <2>1 DEF RestAt
<1>32. SideOK(s, new)
  <2> HIDE DEF new
  <2> QED BY <1>31, RestAtOK
<1> HIDE DEF e
<1>4. SortedSide(app, s) = SortedBy(app, key)
  BY <1>2 DEF SortedSide, KeyOf
<1>5. Tabled(h, n)
  BY DEF Tabled
<1>6. /\ \A k \in 1 .. n : h[k] \in 1 .. n
      /\ \A k, m \in 1 .. n : h[k] = h[m] => k = m
  BY <1>1
<1>7. \A x \in 1 .. n : \E k \in 1 .. n : x = h[k]
  <2> TAKE x \in 1 .. n
  <2>1. x < i => x = h[x]
    OBVIOUS
  <2>2. x = n => i \in 1 .. n /\ x = h[i]
    BY <1>1
  <2>3. ~(x < i) /\ x # n => x + 1 \in 1 .. n /\ x = h[x + 1]
    BY <1>1
  <2> QED BY <2>1, <2>2, <2>3
<1>8. Lists(h, n, 1 .. n)
  BY <1>6, <1>7 DEF Lists
<1>9. /\ \A k \in 1 .. n : k < i => h[k] = k
      /\ h[i] = n
      /\ \A k \in 1 .. n : i < k => h[k] = k - 1
  BY <1>1
<1>10. \A k \in 1 .. n : app[h[k]] = new[k]
  <2> TAKE k \in 1 .. n
  <2>1. CASE k < i
    <3>1. k \in 1 .. i - 1 /\ k \in 1 .. n - 1
      BY <1>1, <2>1
    <3> HIDE DEF app, new, h, n
    <3> QED BY <1>2, <1>3, <1>9, <2>1, <3>1
  <2>2. CASE k = i
    <3> HIDE DEF app, new, h, n
    <3> QED BY <1>2, <1>3, <1>9, <2>2
  <2>3. CASE i < k
    <3>1. k \in i + 1 .. n /\ k - 1 \in 1 .. n - 1
      BY <1>1, <2>3
    <3> HIDE DEF app, new, h, n
    <3> QED BY <1>2, <1>3, <1>9, <2>3, <3>1
  <2> QED BY <1>1, <2>1, <2>2, <2>3
<1> HIDE DEF h, app, new
<1>11. ASSUME NEW k \in 1 .. n PROVE new[k].price \in Int
  <2>1. new[k] \in Level
    BY <1>3
  <2> QED BY <2>1, BookAssumption DEF Level, Tick
<1>12. ASSUME NEW k \in 1 .. n PROVE key[h[k]] = KeyOf(s, new[k].price)
  BY <1>6, <1>10
<1>13. ASSUME NEW k \in 1 .. n, NEW m \in 1 .. n, k < m
       PROVE  Better(s, new[k].price, new[m].price)
  BY <1>3, <1>13, <1>32 DEF SideOK, Ordered
<1> HIDE DEF key, n
<1>14. \A k, m \in 1 .. n : UpTo(key, h[m], h[k]) <=> m <= k
  <2> SUFFICES ASSUME NEW k \in 1 .. n, NEW m \in 1 .. n
               PROVE  UpTo(key, h[m], h[k]) <=> m <= k
    OBVIOUS
  <2>1. /\ new[k].price \in Int /\ new[m].price \in Int
        /\ key[h[k]] = KeyOf(s, new[k].price) /\ key[h[m]] = KeyOf(s, new[m].price)
    BY <1>11, <1>12
  <2>2. /\ KeyOf(s, new[k].price) \in Int /\ KeyOf(s, new[m].price) \in Int
        /\ KeyOf(s, new[m].price) < KeyOf(s, new[k].price) <=> Better(s, new[m].price, new[k].price)
        /\ KeyOf(s, new[k].price) < KeyOf(s, new[m].price) <=> Better(s, new[k].price, new[m].price)
    BY <2>1, BetterIsKey
  <2>3. h[k] \in Int /\ h[m] \in Int /\ k \in Int /\ m \in Int
    BY <1>1, <1>6
  <2>4. CASE m < k
    BY <1>13, <2>1, <2>2, <2>3, <2>4 DEF UpTo
  <2>5. CASE m = k
    BY <2>1, <2>2, <2>3, <2>5 DEF UpTo
  <2>6. CASE k < m
    BY <1>13, <2>1, <2>2, <2>3, <2>6 DEF UpTo
  <2> QED BY <2>3, <2>4, <2>5, <2>6
<1>15. SortedBy(app, key) = [k \in 1 .. n |-> app[h[k]]]
  BY <1>1, <1>2, <1>5, <1>8, <1>14, SortedByIs
<1>16. new = [k \in 1 .. n |-> new[k]]
  BY <1>3
<1>17. SortedBy(app, key) = new
  BY <1>10, <1>15, <1>16
<1> QED BY <1>4, <1>17, <1>31 DEF app, e

(* The scan of rest() stops somewhere. *)
LEMMA ScanEnds ==
    ASSUME NEW s \in Side, NEW lvs, SideOK(s, lvs), NEW p \in Tick
    PROVE  \E i \in 1 .. Len(lvs) + 1 : ScanStops(lvs, s, p, i)
<1> DEFINE n == Len(lvs)
           S == {i \in 1 .. n + 1 : i <= n => ~Better(s, lvs[i].price, p)}
<1>1. n \in Nat
  BY DEF SideOK
<1>2. IsFiniteSet(1 .. n + 1)
  BY <1>1, FS_Interval
<1>3. IsFiniteSet(S)
  BY <1>2, FS_Subset
<1>4. n + 1 \in S /\ S \subseteq Int
  BY <1>1
<1> DEFINE i == Min(S)
<1>5. i \in S /\ \A y \in S : i <= y
  <2> HIDE DEF S
  <2> QED BY <1>3, <1>4, MinIs
<1> HIDE DEF i
<1>6. i \in 1 .. n + 1 /\ (i <= n => ~Better(s, lvs[i].price, p))
  BY <1>5
<1>7. ASSUME NEW j \in 1 .. i - 1 PROVE Better(s, lvs[j].price, p)
  <2>1. j \in 1 .. n + 1 /\ j <= n /\ ~(i <= j)
    BY <1>1, <1>6
  <2> QED BY <1>5, <2>1
<1> QED BY <1>6, <1>7 DEF ScanStops

(* _rest() leaves the side that rest() leaves.                             *)
LEMMA RestSortedIs ==
    ASSUME BookInv, NEW o \in Order, NEW qty, o.side \in Side, o.price \in Tick,
           [id |-> o.id, qty |-> qty] \in Resting, RestSorted(o, qty)
    PROVE  Rest(o, qty)
<1> DEFINE s == o.side
           p == o.price
           lvs == levels[s]
           r == [id |-> o.id, qty |-> qty]
           Has == \E i \in DOMAIN lvs : lvs[i].price = p
           Appended == [i \in DOMAIN lvs |->
                          IF lvs[i].price = p THEN [lvs[i] EXCEPT !.queue = Append(@, r)]
                          ELSE lvs[i]]
           Sorted == SortedSide(Append(lvs, [price |-> p, queue |-> <<r>>]), s)
<1>1. /\ byID' = [byID EXCEPT ![o.id] = [side |-> s, price |-> p]]
      /\ levels' = [levels EXCEPT ![s] = IF Has THEN Appended ELSE Sorted]
  BY DEF RestSorted
<1>2. SideOK(s, lvs) /\ lvs \in Seq(Level) /\ Len(lvs) \in Nat /\ DOMAIN lvs = 1 .. Len(lvs)
  BY SidesAreOK DEF SideOK
<1>3. \E i \in 1 .. Len(lvs) + 1 :
         ScanStops(lvs, s, p, i) /\ RestAt(lvs, i, p, r) = IF Has THEN Appended ELSE Sorted
  <2>1. CASE Has
    <3>1. PICK i \in 1 .. Len(lvs) : lvs[i].price = p
      BY <1>2, <2>1
    <3>2. i \in 1 .. Len(lvs) + 1 /\ i <= Len(lvs) /\ p \in Int
      <4>1. p \in Int
        BY BookAssumption DEF Tick
      <4> HIDE DEF lvs, p
      <4> QED BY <1>2, <4>1
    <3> HIDE DEF lvs, r, s, p
    <3>3. ScanStops(lvs, s, p, i)
      <4>1. ASSUME NEW j \in 1 .. i - 1 PROVE Better(s, lvs[j].price, p)
        <5>1. j \in 1 .. Len(lvs) /\ j < i
          BY <1>2, <3>2
        <5> QED BY <1>2, <3>1, <5>1 DEF SideOK, Ordered
      <4>2. ~Better(s, lvs[i].price, p)
        BY <3>1, <3>2 DEF Better
      <4> QED BY <3>2, <4>1, <4>2 DEF ScanStops
    <3>4. \A j \in 1 .. Len(lvs) : lvs[j].price = p => j = i
      BY <1>2, <3>1, PricesDiffer DEF s
    <3>5. RestAt(lvs, i, p, r) = [lvs EXCEPT ![i].queue = Append(@, r)]
      BY <3>1, <3>2 DEF RestAt
    <3>6. [lvs EXCEPT ![i].queue = Append(@, r)] = Appended
      BY <1>2, <3>1, <3>4
    <3> QED BY <2>1, <3>2, <3>3, <3>5, <3>6
  <2>2. CASE ~Has
    <3>1. PICK i \in 1 .. Len(lvs) + 1 : ScanStops(lvs, s, p, i)
      BY <1>2, ScanEnds
    <3>2. \A j \in 1 .. Len(lvs) : lvs[j].price # p
      BY <1>2, <2>2
    <3>3. Sorted = RestAt(lvs, i, p, r)
      <4>0. s \in Side /\ p \in Tick /\ r \in Resting
        OBVIOUS
      <4> HIDE DEF lvs, r, s, p
      <4> QED BY <1>2, <3>1, <3>2, <4>0, SortInserts
    <3> QED BY <2>2, <3>1, <3>3
  <2> QED BY <2>1, <2>2
<1> HIDE DEF Appended, Sorted, Has
<1>4. PICK i \in 1 .. Len(lvs) + 1 :
         ScanStops(lvs, s, p, i) /\ RestAt(lvs, i, p, r) = IF Has THEN Appended ELSE Sorted
  BY <1>3
<1>5. levels' = [levels EXCEPT ![s] = RestAt(lvs, i, p, r)]
  BY <1>1, <1>4
<1> QED BY <1>1, <1>4, <1>5 DEF Rest

(* The map leads to the order. *)
LEMMA KeyLeadsTo ==
    ASSUME BookInv, IndexInv, NEW id \in Ids, byID[id] # NoEntry
    PROVE  /\ byID[id].side \in Side /\ byID[id].price \in Tick
           /\ Holds(levels[byID[id].side], id, byID[id].price)
<1> DEFINE s == byID[id].side
           v == byID[id].price
<1>1. byID[id] \in Entry
  BY DEF BookInv, TypeOK
<1>2. s \in Side /\ v \in Tick /\ byID[id] = [side |-> s, price |-> v]
  BY <1>1 DEF Entry
<1> HIDE DEF s, v
<1>3. Holds(levels[s], id, v)
  BY <1>2 DEF IndexInv, MapsQueues
<1> QED BY <1>2, <1>3 DEF s, v

(* cancel() leaves the side that Cancel leaves. *)
LEMMA RebuiltIs ==
    ASSUME NEW s \in Side, NEW lvs, SideOK(s, lvs), NoTwice(lvs), NEW id,
           NEW i \in 1 .. Len(lvs), NEW k \in 1 .. Len(lvs[i].queue), lvs[i].queue[k].id = id
    PROVE  Rebuilt(lvs, lvs[i].price, id) = WithoutOrder(lvs, i, k)
<1> DEFINE p == lvs[i].price
           qu == lvs[i].queue
           n == Len(lvs)
           Shorter(j) == Promise!Kept(lvs[j].queue,
                            {l \in DOMAIN lvs[j].queue : lvs[j].queue[l].id # id})
           new == [j \in DOMAIN lvs |->
                     IF lvs[j].price = p THEN [lvs[j] EXCEPT !.queue = Shorter(j)] ELSE lvs[j]]
           lv == [lvs[i] EXCEPT !.queue = RemoveAt(qu, k)]
           req == [lvs EXCEPT ![i] = lv]
           D == {j \in DOMAIN lvs : lvs[j].price = p => new[j].queue # <<>>}
<1>1. lvs \in Seq(Level) /\ n \in Nat /\ DOMAIN lvs = 1 .. n /\ lvs[i] \in Level /\ qu \in Seq(Resting)
  BY LevelIs DEF SideOK
<1>2. Rebuilt(lvs, p, id) = Promise!Kept(new, D)
  BY DEF Rebuilt
<1>3. Shorter(i) = RemoveAt(qu, k)
  <2>1. Distinct(qu) /\ qu \in Seq(Resting) /\ k \in 1 .. Len(qu) /\ qu[k].id = id
    BY <1>1 DEF NoTwice
  <2>2. Shorter(i) = CanceledFrom(qu, id)
    BY DEF CanceledFrom
  <2> HIDE DEF qu
  <2> QED BY <2>1, <2>2, CancelTakes
<1>4. /\ RemoveAt(qu, k) \in Seq(Resting) /\ Len(RemoveAt(qu, k)) = Len(qu) - 1
  <2> HIDE DEF qu
  <2>1. k \in 1 .. Len(qu)
    BY DEF qu
  <2> QED BY <1>1, <2>1, RemoveAtIs
<1>5. \A j \in 1 .. n : lvs[j].price = p => j = i
  BY PricesDiffer
<1>6. new = req
  BY <1>1, <1>3, <1>5
<1>7. lv \in Level /\ lv.queue = RemoveAt(qu, k)
  BY <1>1, <1>4 DEF Level
<1> HIDE DEF lv, Shorter
<1>8. /\ req \in Seq(Level) /\ Len(req) = n
      /\ \A j \in 1 .. n : req[j] = IF j = i THEN lv ELSE lvs[j]
  BY <1>1, <1>7, ExceptSeq
<1> HIDE DEF new, req
<1>9. D = {j \in 1 .. n : j = i => RemoveAt(qu, k) # <<>>}
  BY <1>1, <1>5, <1>6, <1>7, <1>8
<1>10. CASE Len(qu) = 1
  <2>1. RemoveAt(qu, k) = <<>>
    BY <1>4, <1>10
  <2>2. D = (1 .. n) \ {i}
    BY <1>9, <2>1
  <2>3. Promise!Kept(new, D) = RemoveAt(req, i)
    <3> HIDE DEF D
    <3> QED BY <1>6, <1>8, <2>2, KeptWithout
  <2>4. /\ RemoveAt(req, i) \in Seq(Level) /\ Len(RemoveAt(req, i)) = n - 1
        /\ \A j \in 1 .. n - 1 : RemoveAt(req, i)[j] = IF j < i THEN req[j] ELSE req[j + 1]
    BY <1>8, RemoveAtIs
  <2>5. /\ RemoveAt(lvs, i) \in Seq(Level) /\ Len(RemoveAt(lvs, i)) = n - 1
        /\ \A j \in 1 .. n - 1 : RemoveAt(lvs, i)[j] = IF j < i THEN lvs[j] ELSE lvs[j + 1]
    BY <1>1, RemoveAtIs
  <2>6. \A j \in 1 .. n - 1 : RemoveAt(req, i)[j] = RemoveAt(lvs, i)[j]
    <3> TAKE j \in 1 .. n - 1
    <3>1. j \in 1 .. n /\ j + 1 \in 1 .. n /\ j \in Int /\ i \in Int
      BY <1>1
    <3>2. j < i => req[j] = lvs[j]
      BY <1>8, <3>1
    <3>3. ~(j < i) => req[j + 1] = lvs[j + 1]
      BY <1>8, <3>1
    <3> QED BY <2>4, <2>5, <3>2, <3>3
  <2>7. RemoveAt(req, i) = RemoveAt(lvs, i)
    <3> DEFINE a == RemoveAt(req, i)
               b == RemoveAt(lvs, i)
    <3>1. a \in Seq(Level) /\ b \in Seq(Level) /\ Len(a) = Len(b) /\ \A j \in 1 .. Len(a) : a[j] = b[j]
      BY <2>4, <2>5, <2>6
    <3> HIDE DEF a, b
    <3>2. a = b
      BY <3>1, SeqEqual
    <3> QED BY <3>2 DEF a, b
  <2>8. WithoutOrder(lvs, i, k) = RemoveAt(lvs, i)
    BY <1>10 DEF WithoutOrder
  <2> QED BY <1>2, <2>3, <2>7, <2>8
<1>11. CASE Len(qu) # 1
  <2>1. RemoveAt(qu, k) # <<>>
    <3>1. k \in 1 .. Len(qu)
      OBVIOUS
    <3> HIDE DEF qu
    <3>2. Len(RemoveAt(qu, k)) # 0
      BY <1>1, <1>4, <1>11, <3>1
    <3> QED BY <3>2
  <2>2. D = 0 + 1 .. n
    BY <1>9, <2>1
  <2>3. Follows(req, req, 0, n) /\ n - 0 = n /\ 0 \in 0 .. n
    BY <1>1 DEF Follows
  <2>4. Promise!Kept(req, 0 + 1 .. n) = req
    <3> HIDE DEF n
    <3>1. Len(req) = n - 0
      BY <1>8, <2>3
    <3> QED BY <1>1, <1>8, <2>3, <3>1, KeptSuffix
  <2>5. WithoutOrder(lvs, i, k) = req
    BY <1>11 DEF WithoutOrder, req, lv
  <2> HIDE DEF D
  <2> QED BY <1>2, <1>6, <2>2, <2>4, <2>5
<1> QED BY <1>10, <1>11

LEMMA PyStepIsStep ==
    ASSUME BookInv, IndexInv, [PyNext]_vars
    PROVE  [Next]_vars
<1>1. ASSUME PySubmitReturns PROVE SubmitReturns
  <2> DEFINE o == call.o
             rem == call.remaining
  <2>1. /\ o \in Order /\ ~Invalid(o) /\ rem \in Nat /\ o.id \in Ids
    BY <1>1 DEF BookInv, TypeOK, CallAccepted, PySubmitReturns, Call, Order
  <2>2. CASE rem > 0 /\ o.type = "limit"
    <3>1. RestSorted(o, rem)
      BY <1>1, <2>2 DEF PySubmitReturns
    <3>2. o.side \in Side /\ o.price \in Tick
      <4> HIDE DEF o
      <4> QED BY <2>1, <2>2, CheckedOrder
    <3>3. [id |-> o.id, qty |-> rem] \in Resting
      BY <2>1, <2>2 DEF Resting
    <3>4. Rest(o, rem)
      <4> HIDE DEF o, rem
      <4> QED BY <2>1, <3>1, <3>2, <3>3, RestSortedIs
    <3> QED BY <1>1, <2>2, <3>4 DEF PySubmitReturns, SubmitReturns
  <2>3. CASE ~(rem > 0 /\ o.type = "limit")
    BY <1>1, <2>3 DEF PySubmitReturns, SubmitReturns
  <2> QED BY <2>2, <2>3
<1>2. ASSUME NEW id \in Ids, PyCancel(id) PROVE CancelResting(id)
  <2> DEFINE s == byID[id].side
             v == byID[id].price
             lvs == levels[s]
  <2>1. /\ NextSeq /\ byID[id] # NoEntry /\ byID' = [byID EXCEPT ![id] = NoEntry]
        /\ levels' = [levels EXCEPT ![s] = Rebuilt(lvs, v, id)]
        /\ Reply(id, seq + 1, "canceled", <<>>) /\ UNCHANGED call
    BY <1>2 DEF PyCancel
  <2>2. s \in Side /\ v \in Tick /\ Holds(lvs, id, v)
    BY <2>1, KeyLeadsTo
  <2>3. SideOK(s, lvs) /\ NoTwice(lvs)
    <3> HIDE DEF s, v
    <3> QED BY <2>2, SidesAreOK DEF IndexInv, MapsQueues
  <2> HIDE DEF lvs, v
  <2>4. PICK i \in 1 .. Len(lvs) : lvs[i].price = v /\ HasId(lvs[i].queue, id)
    BY <2>2 DEF Holds
  <2>5. PICK k \in 1 .. Len(lvs[i].queue) : lvs[i].queue[k].id = id
    BY <2>4 DEF HasId
  <2>6. i \in DOMAIN lvs /\ k \in DOMAIN lvs[i].queue
    <3> HIDE DEF s
    <3>1. lvs \in Seq(Level)
      BY <2>3 DEF SideOK
    <3>2. lvs[i].queue \in Seq(Resting)
      BY <2>2, <2>3, LevelIs
    <3> QED BY <3>1, <3>2
  <2>7. Rebuilt(lvs, v, id) = WithoutOrder(lvs, i, k)
    <3> HIDE DEF s
    <3> QED BY <2>2, <2>3, <2>4, <2>5, RebuiltIs
  <2>8. StandsAt(lvs, v, id, i, k)
    BY <2>4, <2>5, <2>6 DEF StandsAt
  <2>9. levels' = [levels EXCEPT ![s] = WithoutOrder(lvs, i, k)]
    BY <2>1, <2>7
  <2> QED BY <2>1, <2>6, <2>8, <2>9 DEF CancelResting, lvs, v
<1> QED BY <1>1, <1>2 DEF PyNext, Next

(* engine.py takes only steps of book.go: appending and sorting, and       *)
(* rebuilding a queue, leave what rest() and Cancel() leave.  With it,     *)
(* everything proved of the one book holds of the other.                   *)
THEOREM PythonIsTheBook == PySpec => Spec
<1>1. Init => BookInv /\ IndexInv
  BY BookStarts, IndexStarts
<1>2. BookInv /\ IndexInv /\ [PyNext]_vars => [Next]_vars /\ (BookInv /\ IndexInv)'
  BY PyStepIsStep, BookKept, IndexKept
<1> QED BY <1>1, <1>2, PTL DEF PySpec, Spec

(* engine.py keeps price-time priority: what is said of book.go in         *)
(* BookKeepsPriceTime holds of it, with its sorted lists.                  *)
THEOREM PythonKeepsPriceTime == PySpec => ImplementsPriceTime
  BY PythonIsTheBook, BookKeepsPriceTime

-----------------------------------------------------------------------------
(* BotTraffic: the bots, their requests and the engine around the book.    *)

BotStates ==
    [waiting : BOOLEAN, turn : Nat, n : Nat, resting : SUBSET Ids, lastSeq : Int]

(* What a request carries: for a DELETE only the id counts. *)
Carried(m) ==
    IF m = "post" THEN {o \in Order : ~Invalid(o)}
    ELSE [id : Ids, side : {"none"}, type : {"none"}, price : {0}, qty : {0}]

(* An ack as mangle() may leave it. *)
Acks ==
    [order_id : Ids \cup {"none"}, seq : Int, status : Status,
     fills : Seq([price : Int, qty : Nat, maker_id : Ids])]

RequestsOf(m) ==
    [bot : Bots, turn : Nat, method : {m}, o : Carried(m),
     at : {"sent", "called", "replied"}, ack : Acks, mangled : BOOLEAN]

IsRequest(r) == r \in RequestsOf("post") \/ r \in RequestsOf("delete")

TrafficTypes == bot \in [Bots -> BotStates] /\ \A r \in inflight : IsRequest(r)

(* The ids that a bot has handed out. *)
Used(id) == \E b \in Bots : \E n \in 0 .. bot[b].n - 1 : id = OrderID(b, n)

Pending(r) == r.method = "post" /\ r.at = "sent"

Numbered ==
    /\ \A b \in Bots : bot[b].n <= bot[b].turn
    /\ \A r \in inflight : r.turn < bot[r.bot].turn
    /\ \A r, q \in inflight : r.bot = q.bot /\ r.turn = q.turn => r = q

Fresh ==
    /\ \A r \in inflight : Pending(r) => Used(r.o.id)
    /\ \A r, q \in inflight : Pending(r) /\ Pending(q) /\ r.o.id = q.o.id => r = q
    /\ \A id \in Ids : byID[id] # NoEntry \/ (call # NoCall /\ call.o.id = id) =>
          Used(id) /\ \A r \in inflight : Pending(r) => r.o.id # id

(* o may trade at price p. *)
Within(o, p) ==
    o.type = "limit" => (o.side = "buy" => p <= o.price) /\ (o.side = "sell" => p >= o.price)

Served ==
    /\ \A r \in inflight : r.at = "called" => call # NoCall /\ call.o = r.o /\ r.method = "post"
    /\ \A r, q \in inflight : r.at = "called" /\ q.at = "called" => r = q
    /\ call # NoCall =>
          /\ \A i \in 1 .. Len(call.fills) : Within(call.o, call.fills[i].price)
          /\ FieldTotal(call.fills, "qty") + call.remaining = call.o.qty

(* The fills of ack a fit order o: what validate() asks for. *)
Fits(o, a) ==
    /\ \A i \in 1 .. Len(a.fills) : Within(o, a.fills[i].price)
    /\ FieldTotal(a.fills, "qty") <= o.qty
    /\ a.status = "filled" => FieldTotal(a.fills, "qty") = o.qty

(* The request that the bot made last. *)
Current(r) == r.turn = bot[r.bot].turn - 1

Truthful ==
    /\ \A b \in Bots : bot[b].lastSeq <= seq
    /\ \A r \in inflight : r.at = "called" /\ Current(r) => bot[r.bot].lastSeq < seq
    /\ \A r \in inflight : r.at = "replied" => r.ack.seq <= seq
    /\ \A r \in inflight : r.at = "replied" /\ ~r.mangled =>
          /\ r.ack.order_id = r.o.id
          /\ r.method = "delete" => r.ack.status \in {"canceled", "unknown"}
          /\ r.method = "post" => Fits(r.o, r.ack)
          /\ Current(r) => bot[r.bot].lastSeq < r.ack.seq

TrafficInv ==
    /\ TrafficTypes /\ Numbered /\ Fresh /\ Served /\ Truthful
    /\ NeverRejected /\ NoFalseAlarm

-----------------------------------------------------------------------------
(* Requests and acks. *)

LEMMA RequestIs ==
    ASSUME NEW r, IsRequest(r)
    PROVE  /\ r.bot \in Bots /\ r.turn \in Nat /\ r.method \in {"post", "delete"}
           /\ r.o \in Carried(r.method) /\ r.o.id \in Ids
           /\ r.at \in {"sent", "called", "replied"} /\ r.ack \in Acks /\ r.mangled \in BOOLEAN
           /\ r.method = "post" => r.o \in Order /\ ~Invalid(r.o)
           /\ r.ack.seq \in Int
<1>1. /\ r.bot \in Bots /\ r.turn \in Nat /\ r.method \in {"post", "delete"}
      /\ r.at \in {"sent", "called", "replied"} /\ r.ack \in Acks /\ r.mangled \in BOOLEAN
      /\ r.o \in Carried(r.method)
  BY DEF IsRequest, RequestsOf
<1>2. r.method = "post" => r.o \in Order /\ ~Invalid(r.o)
  BY <1>1 DEF Carried
<1>3. r.method = "delete" => r.o \in [id : Ids, side : {"none"}, type : {"none"}, price : {0}, qty : {0}]
  BY <1>1 DEF Carried
<1>4. r.o.id \in Ids
  BY <1>1, <1>2, <1>3 DEF Order
<1>5. r.ack.seq \in Int
  BY <1>1 DEF Acks
<1> QED BY <1>1, <1>2, <1>4, <1>5

(* A request moves on: the handler changes its place, its answer and       *)
(* whether that is true.                                                   *)
Moved(r, at, a, d) == [r EXCEPT !.at = at, !.ack = a, !.mangled = d]

LEMMA MovedIs ==
    ASSUME NEW r, IsRequest(r), NEW at \in {"sent", "called", "replied"}, NEW a \in Acks, NEW d \in BOOLEAN
    PROVE  /\ IsRequest(Moved(r, at, a, d))
           /\ Moved(r, at, a, d).bot = r.bot /\ Moved(r, at, a, d).turn = r.turn
           /\ Moved(r, at, a, d).method = r.method /\ Moved(r, at, a, d).o = r.o
           /\ Moved(r, at, a, d).at = at /\ Moved(r, at, a, d).ack = a /\ Moved(r, at, a, d).mangled = d
<1>1. CASE r \in RequestsOf("post")
  <2>1. Moved(r, at, a, d) \in RequestsOf("post")
    BY <1>1 DEF RequestsOf, Moved
  <2> QED BY <1>1, <2>1 DEF RequestsOf, Moved, IsRequest
<1>2. CASE r \in RequestsOf("delete")
  <2>1. Moved(r, at, a, d) \in RequestsOf("delete")
    BY <1>2 DEF RequestsOf, Moved
  <2> QED BY <1>2, <2>1 DEF RequestsOf, Moved, IsRequest
<1> QED BY <1>1, <1>2 DEF IsRequest

LEMMA CalledIs ==
    ASSUME NEW r, IsRequest(r)
    PROVE  [r EXCEPT !.at = "called"] = Moved(r, "called", r.ack, r.mangled)
  BY DEF IsRequest, RequestsOf, Moved

(* The acks of a book. *)
BookAcks == [order_id : Ids \cup {"none"}, seq : Nat, status : Status, fills : Seq(Fill)]

LooseFill == [price : Int, qty : Nat, maker_id : Ids]

LEMMA FillIsLoose == Fill \subseteq LooseFill
<1> SUFFICES ASSUME NEW f \in Fill PROVE f \in LooseFill
  OBVIOUS
<1>1. \A p \in Tick : p \in Int
  BY BookAssumption DEF Tick
<1> QED BY <1>1 DEF Fill, LooseFill

LEMMA BookAcksAreAcks ==
    ASSUME NEW a \in BookAcks
    PROVE  a \in Acks /\ a.fills \in Seq(LooseFill)
<1>1. Fill \subseteq LooseFill
  BY FillIsLoose
<1>2. Seq(Fill) \subseteq Seq(LooseFill)
  BY <1>1
<1>3. a.fills \in Seq(LooseFill)
  BY <1>2 DEF BookAcks
<1>4. Acks = [order_id : Ids \cup {"none"}, seq : Int, status : Status, fills : Seq(LooseFill)]
  BY DEF Acks, LooseFill
<1>5. a \in Acks
  BY <1>2, <1>4 DEF BookAcks
<1> QED BY <1>3, <1>5

(* mangle() leaves the status alone and never raises the number. *)
LEMMA MangledIs ==
    ASSUME NEW a \in BookAcks, NEW m \in Mangled(a)
    PROVE  m \in Acks /\ m.status = a.status /\ m.seq <= a.seq
<1> DEFINE p == [a EXCEPT !.fills[1].price = @ + 3]
<1>0. Acks = [order_id : Ids \cup {"none"}, seq : Int, status : Status, fills : Seq(LooseFill)]
  BY DEF Acks, LooseFill
<1>1. a \in Acks /\ a.fills \in Seq(LooseFill) /\ a.seq \in Int
  BY BookAcksAreAcks DEF BookAcks
<1>2. ASSUME a.fills # <<>> PROVE p \in Acks /\ p.status = a.status /\ p.seq = a.seq
  <2> DEFINE fs == a.fills
             f == [fs[1] EXCEPT !.price = fs[1].price + 3]
             gs == [fs EXCEPT ![1] = f]
  <2>1. fs \in Seq(LooseFill) /\ fs # <<>>
    BY <1>1, <1>2
  <2>2. fs[1] \in LooseFill /\ 1 \in 1 .. Len(fs)
    <3> HIDE DEF fs
    <3> QED BY <2>1
  <2>3. f \in LooseFill
    <3> HIDE DEF fs
    <3> QED BY <2>2 DEF LooseFill
  <2>4. p = [a EXCEPT !.fills = gs]
    OBVIOUS
  <2>5. gs \in Seq(LooseFill)
    <3> HIDE DEF fs, f
    <3> QED BY <2>1, <2>2, <2>3, ExceptSeq
  <2> HIDE DEF gs, p
  <2> QED BY <1>0, <1>1, <2>4, <2>5
<1> DEFINE low(x) == [x EXCEPT !.seq = x.seq - 5]
<1>3. ASSUME NEW x \in Acks, x.status = a.status, x.seq = a.seq
      PROVE  low(x) \in Acks /\ low(x).status = a.status /\ low(x).seq <= a.seq
  <2>1. x.seq - 5 \in Int /\ x.seq - 5 <= a.seq
    BY <1>1, <1>3
  <2> QED BY <1>0, <1>3, <2>1
<1>4. m = a \/ m = low(a) \/ (a.fills # <<>> /\ (m = p \/ m = low(p)))
  BY DEF Mangled
<1> HIDE DEF p, low
<1> QED BY <1>1, <1>2, <1>3, <1>4

-----------------------------------------------------------------------------
(* Behind its handlers, the engine takes the steps of the book. *)
LEMMA TrafficIsBook ==
    ASSUME TrafficTypes, [TrafficNext]_trafficVars
    PROVE  [Next]_vars
<1>1. CASE UNCHANGED trafficVars
  BY <1>1 DEF trafficVars, vars
<1>2. ASSUME NEW b \in Bots, BotNext(b) PROVE UNCHANGED vars
  BY <1>2 DEF BotNext, MarketSweep, LimitOrder, SendsOrder, CancelOwn, Timeout, Receive, engineVars, vars
<1>3. ASSUME NEW r \in inflight, PostOrder(r) PROVE Next
  <2>1. r.o \in Order
    BY <1>3, RequestIs DEF TrafficTypes, PostOrder
  <2> QED BY <1>3, <2>1 DEF PostOrder, Next
<1>4. ASSUME NEW r \in inflight, OrderReturns(r) PROVE Next
  BY <1>4 DEF OrderReturns, Next
<1>5. ASSUME NEW r \in inflight, DeleteOrder(r) PROVE Next
  <2>1. r.o.id \in Ids
    BY RequestIs DEF TrafficTypes
  <2> QED BY <1>5, <2>1 DEF DeleteOrder, Next
<1>6. CASE Match
  BY <1>6 DEF Match, Next
<1> QED BY <1>1, <1>2, <1>3, <1>4, <1>5, <1>6 DEF TrafficNext, EngineNext

-----------------------------------------------------------------------------
(* A bot sends: the request is new in its turn, and in its id if it is an  *)
(* order.                                                                  *)
LEMMA TrafficSends ==
    ASSUME TrafficInv, NEW b \in Bots, NEW m \in {"post", "delete"}, NEW o \in Carried(m),
           NEW s \in BotStates, s.turn = bot[b].turn + 1, s.lastSeq = bot[b].lastSeq,
           bot' = [bot EXCEPT ![b] = s],
           \/ m = "post" /\ o.id = OrderID(b, bot[b].n) /\ s.n = bot[b].n + 1
           \/ m = "delete" /\ s.n = bot[b].n,
           inflight' = inflight \cup {Request(b, bot[b].turn, m, o)},
           UNCHANGED <<levels, byID, seq, call, ack, alarms, timeouts>>
    PROVE  TrafficInv'
<1> DEFINE q == Request(b, bot[b].turn, m, o)
<1>0. /\ bot \in [Bots -> BotStates] /\ \A r \in inflight : IsRequest(r)
      /\ Numbered /\ Fresh /\ Served /\ Truthful /\ NeverRejected /\ NoFalseAlarm
  BY DEF TrafficInv, TrafficTypes
<1>1. \A x \in Bots : /\ bot[x].turn \in Nat /\ bot[x].n \in Nat /\ bot[x].lastSeq \in Int
                      /\ bot'[x] = IF x = b THEN s ELSE bot[x]
  BY <1>0 DEF BotStates
<1>2. /\ q.bot = b /\ q.turn = bot[b].turn /\ q.method = m /\ q.o = o /\ q.at = "sent"
      /\ q.ack = NoAck /\ q.mangled = FALSE /\ q.ack.status = "none"
  BY DEF Request, NoAck
<1>3. NoAck \in Acks
  BY DEF NoAck, Acks, Status
<1>4. IsRequest(q)
  <2>1. q \in RequestsOf(m)
    BY <1>1, <1>3 DEF Request, RequestsOf
  <2> QED BY <2>1 DEF IsRequest
<1>5. \A r \in inflight : r.bot \in Bots /\ r.turn \in Nat /\ r.o.id \in Ids
  BY <1>0, RequestIs
<1>6. inflight' = inflight \cup {q}
  OBVIOUS
<1> HIDE DEF q
<1>7. TrafficTypes'
  BY <1>0, <1>4, <1>6 DEF TrafficTypes
<1>8. Numbered'
  <2>1. \A r \in inflight : r.turn < bot'[r.bot].turn /\ ~(r.bot = b /\ r.turn = bot[b].turn)
    BY <1>0, <1>1, <1>5 DEF Numbered
  <2>2. q.turn < bot'[q.bot].turn
    BY <1>1, <1>2
  <2>3. \A x \in Bots : bot'[x].n <= bot'[x].turn
    BY <1>0, <1>1 DEF Numbered
  <2> QED BY <1>0, <1>2, <1>6, <2>1, <2>2, <2>3 DEF Numbered
<1>9. \A id : Used(id) => Used(id)'
  <2> SUFFICES ASSUME NEW id, NEW x \in Bots, NEW n \in 0 .. bot[x].n - 1, id = OrderID(x, n)
               PROVE  \E y \in Bots : \E k \in 0 .. bot'[y].n - 1 : id = OrderID(y, k)
    BY DEF Used
  <2>1. n \in 0 .. bot'[x].n - 1
    BY <1>1
  <2> QED BY <2>1
<1>10. ~Used(OrderID(b, bot[b].n))
  <2> SUFFICES ASSUME NEW x \in Bots, NEW n \in 0 .. bot[x].n - 1, OrderID(b, bot[b].n) = OrderID(x, n)
               PROVE  FALSE
    BY DEF Used
  <2>1. x = b /\ n = bot[b].n
    BY DEF OrderID
  <2> QED BY <1>1, <2>1
<1>11. m = "post" => Used(o.id)'
  <2> SUFFICES ASSUME m = "post" PROVE \E y \in Bots : \E k \in 0 .. bot'[y].n - 1 : o.id = OrderID(y, k)
    BY DEF Used
  <2>1. bot[b].n \in 0 .. bot'[b].n - 1 /\ o.id = OrderID(b, bot[b].n)
    BY <1>1
  <2> QED BY <2>1
<1>12. Fresh'
  <2>1. \A r \in inflight' : Pending(r) => Used(r.o.id)'
    BY <1>0, <1>2, <1>6, <1>9, <1>11 DEF Fresh, Pending
  <2>2. \A r \in inflight : Pending(r) /\ Pending(q) => r.o.id # q.o.id
    BY <1>0, <1>2, <1>10 DEF Fresh, Pending
  <2>3. \A r, z \in inflight' : Pending(r) /\ Pending(z) /\ r.o.id = z.o.id => r = z
    BY <1>0, <1>6, <2>2 DEF Fresh
  <2>4. ASSUME NEW id \in Ids, byID'[id] # NoEntry \/ (call' # NoCall /\ call'.o.id = id)
        PROVE  Used(id)' /\ \A r \in inflight' : Pending(r) => r.o.id # id
    <3>1. Used(id) /\ \A r \in inflight : Pending(r) => r.o.id # id
      BY <1>0, <2>4 DEF Fresh
    <3>2. Pending(q) => q.o.id # id
      BY <1>2, <1>10, <3>1 DEF Pending
    <3> QED BY <1>6, <1>9, <3>1, <3>2
  <2> QED BY <2>1, <2>3, <2>4 DEF Fresh, Pending
<1>13. Served'
  BY <1>0, <1>2, <1>6 DEF Served
<1>14. \A r \in inflight : ~(r.turn = bot'[r.bot].turn - 1) \/ r.bot # b
  BY <1>0, <1>1, <1>5 DEF Numbered
<1>15. Truthful'
  <2>1. \A x \in Bots : bot'[x].lastSeq = bot[x].lastSeq
    BY <1>1
  <2>2. \A r \in inflight : Current(r)' => Current(r)
    BY <1>1, <1>5, <1>14 DEF Current
  <2> QED BY <1>0, <1>2, <1>5, <1>6, <2>1, <2>2 DEF Truthful
<1>16. NeverRejected' /\ NoFalseAlarm'
  BY <1>0, <1>2, <1>6 DEF NeverRejected, NoFalseAlarm
<1> QED BY <1>7, <1>8, <1>12, <1>13, <1>15, <1>16 DEF TrafficInv

LEMMA WaitsIs ==
    ASSUME TrafficInv, NEW b \in Bots
    PROVE  /\ bot[b] \in BotStates /\ Waits(b) \in BotStates
           /\ Waits(b).turn = bot[b].turn + 1 /\ Waits(b).lastSeq = bot[b].lastSeq
           /\ Waits(b).n = bot[b].n /\ Waits(b).resting = bot[b].resting
<1>1. bot[b] \in BotStates
  BY DEF TrafficInv, TrafficTypes
<1> DEFINE t == bot[b].turn + 1
           w == [bot[b] EXCEPT !.waiting = TRUE]
<1>2. t \in Nat
  BY <1>1 DEF BotStates
<1>3. Waits(b) = [w EXCEPT !.turn = t]
  BY <1>1 DEF Waits, BotStates
<1>4. w \in BotStates /\ w.lastSeq = bot[b].lastSeq /\ w.n = bot[b].n /\ w.resting = bot[b].resting
  BY <1>1 DEF BotStates
<1> HIDE DEF t, w
<1>5. /\ Waits(b) \in BotStates /\ Waits(b).turn = t /\ Waits(b).lastSeq = w.lastSeq
      /\ Waits(b).n = w.n /\ Waits(b).resting = w.resting
  BY <1>2, <1>3, <1>4 DEF BotStates
<1> QED BY <1>1, <1>4, <1>5 DEF t

(* A bot that is ready has made fewer requests than there are in all. *)
LEMMA NextIdIsBounded ==
    ASSUME TrafficInv, NEW b \in Bots, Ready(b)
    PROVE  bot[b].n < MaxRequests
<1>1. /\ bot \in [Bots -> BotStates] /\ bot[b].n <= bot[b].turn
      /\ DOMAIN bot = Bots /\ \A x \in Bots : bot[x].turn \in Nat /\ bot[x].n \in Nat
  BY DEF TrafficInv, TrafficTypes, Numbered, BotStates
<1>2. Natural(Bots, Weights(bot, "turn")) /\ Weights(bot, "turn")[b] = bot[b].turn
  BY <1>1 DEF Natural, Weights
<1>3. TotalByPlace(bot, "turn", Bots) = SumOf(Bots, Weights(bot, "turn"))
  BY <1>1, MapIsSum, TrafficAssumption
<1>4. SumOf(Bots, Weights(bot, "turn")) < MaxRequests
  BY <1>3 DEF Ready, TotalByPlace
<1>5. SumOf(Bots, Weights(bot, "turn")) \in Nat /\ Weights(bot, "turn")[b] <= SumOf(Bots, Weights(bot, "turn"))
  BY <1>2, SumOfNat, TrafficAssumption
<1> QED BY <1>1, <1>2, <1>4, <1>5, TrafficAssumption

LEMMA TrafficOrders ==
    ASSUME TrafficInv, NEW b \in Bots, MarketSweep(b) \/ LimitOrder(b)
    PROVE  TrafficInv'
<1>1. bot[b].n \in Nat
  BY WaitsIs DEF BotStates
<1>2. OrderID(b, bot[b].n) \in Ids
  <2>1. Ready(b)
    BY DEF MarketSweep, LimitOrder, SendsOrder
  <2>2. bot[b].n < MaxRequests
    BY <2>1, NextIdIsBounded
  <2> QED BY <1>1, <2>2, TrafficAssumption
<1>3. ASSUME NEW o \in Carried("post"), SendsOrder(b, o) PROVE TrafficInv'
  <2> DEFINE n == bot[b].n + 1
             s == [Waits(b) EXCEPT !.n = n]
  <2>1. n \in Nat
    BY <1>1
  <2>2. bot' = [bot EXCEPT ![b] = s]
    BY <1>3, WaitsIs DEF SendsOrder
  <2>3. /\ s \in BotStates /\ s.turn = bot[b].turn + 1 /\ s.lastSeq = bot[b].lastSeq /\ s.n = n
    <3> HIDE DEF n
    <3> QED BY <2>1, WaitsIs DEF BotStates
  <2>4. s.n = bot[b].n + 1
    BY <2>3
  <2> HIDE DEF s
  <2> QED BY <1>3, <2>2, <2>3, <2>4, TrafficSends DEF SendsOrder
<1>4. CASE MarketSweep(b)
  <2>1. PICK s \in Side, q \in Qtys :
           SendsOrder(b, [id |-> OrderID(b, bot[b].n), side |-> s, type |-> "market",
                          price |-> 0, qty |-> q])
    BY <1>4 DEF MarketSweep
  <2> DEFINE o == [id |-> OrderID(b, bot[b].n), side |-> s, type |-> "market",
                   price |-> 0, qty |-> q]
  <2>2. o \in Order
    BY <1>2, TrafficAssumption DEF Order
  <2>3. ~Invalid(o)
    BY TrafficAssumption DEF Invalid
  <2>4. o \in Carried("post")
    BY <2>2, <2>3 DEF Carried
  <2> QED BY <1>3, <2>1, <2>4
<1>5. CASE LimitOrder(b)
  <2>1. PICK s \in Side, q \in Qtys, p \in Prices :
           /\ p >= 1
           /\ SendsOrder(b, [id |-> OrderID(b, bot[b].n), side |-> s, type |-> "limit",
                             price |-> p, qty |-> q])
    BY <1>5 DEF LimitOrder
  <2> DEFINE o == [id |-> OrderID(b, bot[b].n), side |-> s, type |-> "limit",
                   price |-> p, qty |-> q]
  <2>2. o \in Order
    BY <1>2 DEF Order
  <2>3. ~Invalid(o)
    BY <2>1, BookAssumption, TrafficAssumption DEF Invalid
  <2>4. o \in Carried("post")
    BY <2>2, <2>3 DEF Carried
  <2> QED BY <1>3, <2>1, <2>4
<1> QED BY <1>4, <1>5

LEMMA TrafficCancels ==
    ASSUME TrafficInv, NEW b \in Bots, CancelOwn(b)
    PROVE  TrafficInv'
<1> DEFINE o(id) == [id |-> id, side |-> "none", type |-> "none", price |-> 0, qty |-> 0]
<1>1. PICK id \in bot[b].resting :
        /\ bot' = [bot EXCEPT ![b] = [Waits(b) EXCEPT !.resting = @ \ {id}]]
        /\ inflight' = inflight \cup {Request(b, bot[b].turn, "delete", o(id))}
        /\ UNCHANGED <<levels, byID, seq, call, ack, alarms, timeouts>>
  BY DEF CancelOwn
<1>2. bot[b].resting \in SUBSET Ids
  BY WaitsIs DEF BotStates
<1> DEFINE kept == bot[b].resting \ {id}
           s == [Waits(b) EXCEPT !.resting = kept]
<1>3. kept \in SUBSET Ids /\ id \in Ids
  BY <1>2
<1>4. bot' = [bot EXCEPT ![b] = s]
  BY <1>1, WaitsIs
<1>5. /\ s \in BotStates /\ s.turn = bot[b].turn + 1 /\ s.lastSeq = bot[b].lastSeq /\ s.n = bot[b].n
  <2> HIDE DEF kept
  <2> QED BY <1>3, WaitsIs DEF BotStates
<1>6. o(id) \in Carried("delete")
  BY <1>3 DEF Carried
<1> HIDE DEF s, o
<1> QED BY <1>1, <1>4, <1>5, <1>6, TrafficSends

(* The HTTP client gives up: nothing changes but that the bot goes on. *)
LEMMA TrafficTimeout ==
    ASSUME TrafficInv, NEW b \in Bots, Timeout(b)
    PROVE  TrafficInv'
<1>0. /\ bot \in [Bots -> BotStates] /\ \A r \in inflight : IsRequest(r)
      /\ Numbered /\ Fresh /\ Served /\ Truthful /\ NeverRejected /\ NoFalseAlarm
  BY DEF TrafficInv, TrafficTypes
<1>1. UNCHANGED <<byID, seq, call, inflight, alarms>> /\ bot' = [bot EXCEPT ![b].waiting = FALSE]
  BY DEF Timeout, engineVars
<1>2. bot' \in [Bots -> BotStates]
  BY <1>0, <1>1 DEF BotStates
<1>3. \A x \in Bots : bot'[x].turn = bot[x].turn /\ bot'[x].n = bot[x].n /\ bot'[x].lastSeq = bot[x].lastSeq
  BY <1>0, <1>1 DEF BotStates
<1>4. \A r \in inflight : r.bot \in Bots
  BY <1>0, RequestIs
<1>5. TrafficTypes' /\ Numbered' /\ Served' /\ NeverRejected' /\ NoFalseAlarm'
  BY <1>0, <1>1, <1>2, <1>3, <1>4 DEF TrafficTypes, Numbered, Served, NeverRejected, NoFalseAlarm
<1>6. \A id : Used(id)' <=> Used(id)
  BY <1>3 DEF Used
<1>7. Fresh'
  BY <1>0, <1>1, <1>6 DEF Fresh, Pending
<1>8. \A r \in inflight : Current(r)' <=> Current(r)
  BY <1>3, <1>4 DEF Current
<1>9. Truthful'
  BY <1>0, <1>1, <1>3, <1>4, <1>8 DEF Truthful
<1> QED BY <1>5, <1>7, <1>9 DEF TrafficInv

(* What a bot finds in an answer that the engine did not mangle. *)
LEMMA TrueAckIsClean ==
    ASSUME TrafficInv, NEW b \in Bots, NEW r \in inflight, Receive(b, r), r.mangled = FALSE
    PROVE  Verdicts(b, r) = {}
<1>0. Truthful /\ IsRequest(r) /\ bot[b] \in BotStates
  BY DEF TrafficInv, TrafficTypes
<1>1. r.bot = b /\ r.at = "replied" /\ Current(r)
  BY DEF Receive, Current
<1>2. /\ r.ack.order_id = r.o.id
      /\ r.method = "delete" => r.ack.status \in {"canceled", "unknown"}
      /\ r.method = "post" => Fits(r.o, r.ack)
      /\ bot[b].lastSeq < r.ack.seq
  BY <1>0, <1>1 DEF Truthful
<1>3. r.method \in {"post", "delete"} /\ r.ack \in Acks /\ r.ack.seq \in Int /\ bot[b].lastSeq \in Int
  BY <1>0, RequestIs DEF BotStates
<1>4. CheckSeq(b, r.ack) = {}
  <2>1. \A i, j \in Int : i < j => ~(j <= i)
    OBVIOUS
  <2>2. ~(r.ack.seq <= bot[b].lastSeq)
    BY <1>2, <1>3, <2>1
  <2> QED BY <2>2, Zenon DEF CheckSeq
<1>5. ASSUME r.method = "post" PROVE Validate(r.o, r.ack) = {}
  <2>1. r.ack.fills \in Seq(LooseFill) /\ r.o \in Order
    BY <1>0, <1>3, <1>5, RequestIs DEF Acks, LooseFill
  <2> DEFINE fs == r.ack.fills
  <2>2. r.o.price \in Int
    BY <2>1, BookAssumption DEF Order
  <2>3. DOMAIN fs = 1 .. Len(fs) /\ \A i \in 1 .. Len(fs) : fs[i].price \in Int /\ Within(r.o, fs[i].price)
    <3>1. \A i \in 1 .. Len(fs) : Within(r.o, fs[i].price)
      BY <1>2, <1>5 DEF Fits
    <3>2. fs \in Seq(LooseFill)
      BY <2>1
    <3> HIDE DEF fs
    <3>3. \A i \in 1 .. Len(fs) : fs[i] \in LooseFill
      BY <3>2
    <3> QED BY <3>1, <3>2, <3>3 DEF LooseFill
  <2>4. ~(r.o.type = "limit" /\ r.o.side = "buy" /\ \E i \in DOMAIN fs : fs[i].price > r.o.price)
    BY <2>2, <2>3 DEF Within
  <2>5. ~(r.o.type = "limit" /\ r.o.side = "sell" /\ \E i \in DOMAIN fs : fs[i].price < r.o.price)
    BY <2>2, <2>3 DEF Within
  <2>6. FieldTotal(fs, "qty") \in Int
    <3>1. Counted(LooseFill, "qty")
      BY DEF Counted, LooseFill
    <3> HIDE DEF fs
    <3> QED BY <2>1, <3>1, TotalIs DEF fs
  <2>7. Filled(r.ack) = FieldTotal(fs, "qty")
    BY DEF Filled, FieldTotal
  <2>8. ~(Filled(r.ack) > r.o.qty) /\ ~(r.ack.status = "filled" /\ Filled(r.ack) # r.o.qty)
    <3>1. FieldTotal(fs, "qty") <= r.o.qty /\ (r.ack.status = "filled" => FieldTotal(fs, "qty") = r.o.qty)
      BY <1>2, <1>5 DEF Fits
    <3>2. r.o.qty \in Int
      BY <2>1, BookAssumption DEF Order
    <3> HIDE DEF fs
    <3> QED BY <2>6, <2>7, <3>1, <3>2
  <2> SUFFICES ASSUME NEW v \in Validate(r.o, r.ack) PROVE FALSE
    OBVIOUS
  <2>9. v \in {"above limit", "below limit", "overfill", "short fill"}
    BY DEF Validate
  <2>10. v # "above limit"
    BY <2>4 DEF Validate
  <2>11. v # "below limit"
    BY <2>5 DEF Validate
  <2>12. v # "overfill" /\ v # "short fill"
    BY <2>8 DEF Validate
  <2> QED BY <2>9, <2>10, <2>11, <2>12
<1> QED BY <1>2, <1>3, <1>4, <1>5 DEF Verdicts

(* The answer to the last request arrives; it leaves, and no other request *)
(* of this turn is left.                                                   *)
LEMMA TrafficReceive ==
    ASSUME TrafficInv, NEW b \in Bots, NEW r \in inflight, Receive(b, r)
    PROVE  TrafficInv'
<1>0. /\ bot \in [Bots -> BotStates] /\ \A q \in inflight : IsRequest(q)
      /\ Numbered /\ Fresh /\ Served /\ Truthful /\ NeverRejected /\ NoFalseAlarm
  BY DEF TrafficInv, TrafficTypes
<1>1. /\ r.bot = b /\ r.at = "replied" /\ Current(r)
      /\ UNCHANGED <<byID, seq, call>> /\ inflight' = inflight \ {r}
      /\ alarms' = alarms \cup {[kind |-> v, mangled |-> r.mangled] : v \in Verdicts(b, r)}
  BY DEF Receive, Current
<1>2. \A q \in inflight : /\ q.bot \in Bots /\ q.turn \in Nat /\ q.o.id \in Ids /\ q.ack.seq \in Int
                          /\ q.mangled \in BOOLEAN
  BY <1>0, RequestIs
<1>3. PICK rest \in SUBSET Ids :
         bot' = [bot EXCEPT ![b].waiting = FALSE, ![b].lastSeq = r.ack.seq, ![b].resting = rest]
  <2> DEFINE keeps == /\ r.method = "post" /\ r.o.type = "limit"
                      /\ r.ack.status \in {"resting", "partial"}
                      /\ Cardinality(bot[b].resting) < RestingCap
             rest == IF keeps THEN bot[b].resting \cup {r.o.id} ELSE bot[b].resting
  <2>1. bot[b].resting \in SUBSET Ids
    BY <1>0 DEF BotStates
  <2>2. rest \in SUBSET Ids
    BY <1>2, <2>1
  <2>3. bot' = [bot EXCEPT ![b].waiting = FALSE, ![b].lastSeq = r.ack.seq, ![b].resting = rest]
    BY <1>0 DEF Receive, BotStates
  <2> QED BY <2>2, <2>3
<1>4. bot' = [bot EXCEPT ![b] = [[[bot[b] EXCEPT !.waiting = FALSE] EXCEPT !.lastSeq = r.ack.seq]
                                    EXCEPT !.resting = rest]]
  BY <1>0, <1>3
<1> DEFINE s == [[[bot[b] EXCEPT !.waiting = FALSE] EXCEPT !.lastSeq = r.ack.seq] EXCEPT !.resting = rest]
<1>5. /\ s \in BotStates /\ s.turn = bot[b].turn /\ s.n = bot[b].n /\ s.lastSeq = r.ack.seq
  BY <1>0, <1>2 DEF BotStates
<1> HIDE DEF s
<1>6. bot' = [bot EXCEPT ![b] = s]
  BY <1>4 DEF s
<1>7. bot' \in [Bots -> BotStates]
  BY <1>0, <1>5, <1>6
<1>8. \A x \in Bots : /\ bot'[x].turn = bot[x].turn /\ bot'[x].n = bot[x].n
                      /\ bot'[x].lastSeq = IF x = b THEN r.ack.seq ELSE bot[x].lastSeq
  BY <1>0, <1>5, <1>6
<1>9. TrafficTypes' /\ Numbered' /\ Served' /\ NeverRejected'
  BY <1>0, <1>1, <1>2, <1>7, <1>8 DEF TrafficTypes, Numbered, Served, NeverRejected
<1>10. \A id : Used(id)' <=> Used(id)
  BY <1>8 DEF Used
<1>11. Fresh'
  BY <1>0, <1>1, <1>10 DEF Fresh, Pending
<1>12. \A q \in inflight' : q \in inflight /\ (Current(q)' <=> Current(q)) /\ (Current(q) => q.bot # b)
  BY <1>0, <1>1, <1>2, <1>8 DEF Current, Numbered
<1>13. Truthful'
  BY <1>0, <1>1, <1>2, <1>8, <1>12 DEF Truthful
<1>14. NoFalseAlarm'
  <2>1. Verdicts(b, r) # {} => r.mangled = TRUE
    BY <1>2, TrueAckIsClean
  <2> SUFFICES ASSUME NEW x \in alarms' PROVE x.mangled
    BY DEF NoFalseAlarm
  <2>2. CASE x \in alarms
    BY <1>0, <2>2 DEF NoFalseAlarm
  <2>3. CASE x \notin alarms
    <3>1. PICK v \in Verdicts(b, r) : x = [kind |-> v, mangled |-> r.mangled]
      BY <1>1, <2>3
    <3>2. x.mangled = r.mangled
      BY <3>1
    <3> QED BY <2>1, <3>1, <3>2
  <2> QED BY <2>2, <2>3
<1> QED BY <1>9, <1>11, <1>13, <1>14 DEF TrafficInv

-----------------------------------------------------------------------------
(* A handler of the engine moves request r on. *)
LEMMA TrafficMoves ==
    ASSUME TrafficInv, seq \in Nat, seq' \in Nat,
           NEW r \in inflight, NEW at \in {"called", "replied"}, NEW a \in Acks, NEW d \in BOOLEAN,
           inflight' = (inflight \ {r}) \cup {Moved(r, at, a, d)}, UNCHANGED <<bot, alarms>>,
           a.status # "rejected", seq <= seq',
           \A q \in inflight : q.at = "called" => q = r,
           \A id \in Ids : byID'[id] # NoEntry \/ (call' # NoCall /\ call'.o.id = id) =>
              \/ byID[id] # NoEntry \/ (call # NoCall /\ call.o.id = id)
              \/ Pending(r) /\ r.o.id = id,
           at = "called" => r.method = "post" /\ call' # NoCall /\ call'.o = r.o /\ seq < seq',
           call' # NoCall =>
              /\ \A i \in 1 .. Len(call'.fills) : Within(call'.o, call'.fills[i].price)
              /\ FieldTotal(call'.fills, "qty") + call'.remaining = call'.o.qty,
           at = "replied" => a.seq <= seq',
           at = "replied" /\ ~d =>
              /\ a.order_id = r.o.id
              /\ r.method = "delete" => a.status \in {"canceled", "unknown"}
              /\ r.method = "post" => Fits(r.o, a)
              /\ Current(r) => bot[r.bot].lastSeq < a.seq
    PROVE  TrafficInv'
<1> DEFINE m == Moved(r, at, a, d)
<1>0. /\ bot \in [Bots -> BotStates] /\ \A q \in inflight : IsRequest(q)
      /\ Numbered /\ Fresh /\ Served /\ Truthful /\ NeverRejected /\ NoFalseAlarm
  BY DEF TrafficInv, TrafficTypes
<1>1. /\ IsRequest(m) /\ m.bot = r.bot /\ m.turn = r.turn /\ m.method = r.method /\ m.o = r.o
      /\ m.at = at /\ m.ack = a /\ m.mangled = d
  BY <1>0, MovedIs
<1>2. /\ inflight' = (inflight \ {r}) \cup {m} /\ bot' = bot /\ alarms' = alarms
      /\ m.at # "sent" /\ ~Pending(m)
  BY <1>1 DEF Pending
<1>3. \A q \in inflight : q.bot \in Bots /\ q.turn \in Nat /\ q.o.id \in Ids /\ q.ack.seq \in Int
  BY <1>0, RequestIs
<1>4. \A b \in Bots : bot[b].lastSeq \in Int
  BY <1>0 DEF BotStates
<1> HIDE DEF m
<1>5. TrafficTypes' /\ NeverRejected' /\ NoFalseAlarm'
  BY <1>0, <1>1, <1>2 DEF TrafficTypes, NeverRejected, NoFalseAlarm
<1>6. Numbered'
  BY <1>0, <1>1, <1>2 DEF Numbered
<1>7. Served'
  BY <1>1, <1>2 DEF Served
<1>8. Fresh'
  <2>1. \A id : Used(id)' <=> Used(id)
    BY <1>2 DEF Used
  <2>2. \A q \in inflight' : Pending(q) => q \in inflight /\ q # r
    BY <1>2
  <2>3. ASSUME NEW id \in Ids, byID'[id] # NoEntry \/ (call' # NoCall /\ call'.o.id = id)
        PROVE  Used(id) /\ \A q \in inflight' : Pending(q) => q.o.id # id
    <3>1. CASE byID[id] # NoEntry \/ (call # NoCall /\ call.o.id = id)
      BY <1>0, <2>2, <3>1 DEF Fresh
    <3>2. CASE Pending(r) /\ r.o.id = id
      BY <1>0, <2>2, <3>2 DEF Fresh
    <3> QED BY <2>3, <3>1, <3>2
  <2>4. \A q \in inflight' : Pending(q) => Used(q.o.id)
    BY <1>0, <2>2 DEF Fresh
  <2>5. \A q, z \in inflight' : Pending(q) /\ Pending(z) /\ q.o.id = z.o.id => q = z
    BY <1>0, <2>2 DEF Fresh
  <2> QED BY <2>1, <2>3, <2>4, <2>5 DEF Fresh, Pending
<1>9. Truthful'
  <2>1. \A q : Current(q)' <=> Current(q)
    BY <1>2 DEF Current
  <2>2. Current(m) <=> Current(r)
    BY <1>1 DEF Current
  <2>3. \A b \in Bots : bot'[b].lastSeq <= seq'
    BY <1>0, <1>2, <1>4 DEF Truthful
  <2>4. ASSUME NEW q \in inflight', q.at = "called", Current(q) PROVE bot'[q.bot].lastSeq < seq'
    <3>1. q = m /\ at = "called"
      BY <1>1, <1>2, <2>4
    <3>2. r.bot \in Bots /\ bot[r.bot].lastSeq <= seq /\ bot[r.bot].lastSeq \in Int
      BY <1>0, <1>3, <1>4 DEF Truthful
    <3> QED BY <1>1, <1>2, <3>1, <3>2
  <2>5. ASSUME NEW q \in inflight', q.at = "replied" PROVE q.ack.seq <= seq'
    <3>1. CASE q = m
      BY <1>1, <2>5, <3>1
    <3>2. CASE q \in inflight
      BY <1>0, <1>3, <2>5, <3>2 DEF Truthful
    <3> QED BY <1>2, <3>1, <3>2
  <2>6. ASSUME NEW q \in inflight', q.at = "replied", ~q.mangled
        PROVE  /\ q.ack.order_id = q.o.id
               /\ q.method = "delete" => q.ack.status \in {"canceled", "unknown"}
               /\ q.method = "post" => Fits(q.o, q.ack)
               /\ Current(q) => bot[q.bot].lastSeq < q.ack.seq
    <3>1. CASE q = m
      <4>1. at = "replied" /\ ~d
        BY <1>1, <2>6, <3>1
      <4> QED BY <1>1, <2>2, <3>1, <4>1
    <3>2. CASE q \in inflight
      BY <1>0, <2>6, <3>2 DEF Truthful
    <3> QED BY <1>2, <3>1, <3>2
  <2> QED BY <1>2, <2>1, <2>3, <2>4, <2>5, <2>6 DEF Truthful
<1> QED BY <1>5, <1>6, <1>7, <1>8, <1>9 DEF TrafficInv

(* The ack of a call leaves the engine, mangled or not. *)
LEMMA AnswerIs ==
    ASSUME NEW r, NEW a, Answer(r, a)
    PROVE  \E m \in Mangled(a) : inflight' = (inflight \ {r}) \cup {Moved(r, "replied", m, m # a)}
  BY DEF Answer, Moved

(* No order of a bot is turned down: it is well-formed, and its id is new  *)
(* to the book.                                                            *)
LEMMA TrafficPosts ==
    ASSUME BookInv, TrafficInv, NEW r \in inflight, PostOrder(r), UNCHANGED <<bot, alarms>>
    PROVE  TrafficInv'
<1>0. IsRequest(r) /\ Fresh /\ Served /\ seq \in Nat
  BY DEF TrafficInv, TrafficTypes, BookInv, TypeOK
<1>1. r.at = "sent" /\ r.method = "post" /\ Pending(r)
  BY DEF PostOrder, Pending
<1>2. /\ r.o \in Order /\ ~Invalid(r.o) /\ r.o.id \in Ids /\ r.ack \in Acks /\ r.mangled \in BOOLEAN
  BY <1>0, <1>1, RequestIs
<1>3. byID[r.o.id] = NoEntry
  BY <1>0, <1>1, <1>2 DEF Fresh
<1>4. SubmitAccepted(r.o) /\ inflight' = (inflight \ {r}) \cup {[r EXCEPT !.at = "called"]}
  BY <1>2, <1>3 DEF PostOrder, SubmitRejected
<1>5. /\ call = NoCall /\ seq' = seq + 1 /\ byID' = byID
      /\ call' = [o |-> r.o, remaining |-> r.o.qty, fills |-> <<>>, entry |-> levels]
  BY <1>4 DEF SubmitAccepted, NextSeq
<1>6. call' # NoCall
  <2>1. r.o.qty \in Nat
    BY <1>2, CheckedOrder
  <2>2. call' \in Call
    BY <1>2, <1>5, <2>1 DEF BookInv, TypeOK, Call
  <2> QED BY <2>2, NothingAssumption
<1>7. call'.o = r.o /\ call'.fills = <<>> /\ call'.remaining = r.o.qty
  BY <1>5
<1>8. inflight' = (inflight \ {r}) \cup {Moved(r, "called", r.ack, r.mangled)}
  BY <1>0, <1>4, CalledIs
<1>9. \A q \in inflight : q.at = "called" => q = r
  BY <1>0, <1>5 DEF Served
<1>10. r.ack.status # "rejected"
  BY DEF TrafficInv, NeverRejected
<1>11. seq' \in Nat /\ seq <= seq' /\ seq < seq'
  BY <1>0, <1>5
<1>12. /\ \A i \in 1 .. Len(call'.fills) : Within(call'.o, call'.fills[i].price)
       /\ FieldTotal(call'.fills, "qty") + call'.remaining = call'.o.qty
  <2>1. r.o.qty \in Int
    BY <1>2, BookAssumption DEF Order
  <2> QED BY <1>7, <2>1, TotalEmpty
<1>13. \A id \in Ids : byID'[id] # NoEntry \/ (call' # NoCall /\ call'.o.id = id) =>
          \/ byID[id] # NoEntry \/ (call # NoCall /\ call.o.id = id)
          \/ Pending(r) /\ r.o.id = id
  BY <1>1, <1>5, <1>7
<1> QED BY <1>0, <1>1, <1>2, <1>6, <1>7, <1>8, <1>9, <1>10, <1>11, <1>12, <1>13, TrafficMoves

(* One more fill: at a price that the loop did not break at. *)
LEMMA TrafficMatches ==
    ASSUME BookInv, BookInv', TrafficInv, Match, UNCHANGED <<bot, alarms>>
    PROVE  TrafficInv'
<1> DEFINE opp   == Opp(call.o.side)
           best  == levels[opp][1]
           maker == best.queue[1]
           q     == IF call.remaining <= maker.qty THEN call.remaining ELSE maker.qty
           f     == [price |-> best.price, qty |-> q, maker_id |-> maker.id]
<1>0. /\ bot \in [Bots -> BotStates] /\ \A r \in inflight : IsRequest(r)
      /\ Numbered /\ Fresh /\ Served /\ Truthful /\ NeverRejected /\ NoFalseAlarm
  BY DEF TrafficInv, TrafficTypes
<1>1. call # NoCall /\ LoopContinues /\ inflight' = inflight /\ seq' = seq
  BY DEF Match, FillBest
<1>2. /\ call' = [call EXCEPT !.remaining = @ - q, !.fills = Append(@, f)]
      /\ byID' = IF q = maker.qty THEN [byID EXCEPT ![maker.id] = NoEntry] ELSE byID
  BY DEF Match, FillBest
<1>3. call \in Call /\ ~Invalid(call.o) /\ byID \in [Ids -> Entry \cup {NoEntry}]
  BY <1>1 DEF BookInv, TypeOK, CallAccepted
<1>4. call.fills \in Seq(Fill) /\ call.o \in Order
  BY <1>3 DEF Call
<1>5. Within(call.o, best.price)
  <2>1. ~BeyondLimit(call.o, best.price)
    BY <1>1 DEF LoopContinues
  <2>2. opp \in Side /\ levels[opp] # <<>>
    BY <1>1 DEF Opp, Side, LoopContinues
  <2>3. SideOK(opp, levels[opp]) /\ levels[opp] \in Seq(Level)
    BY <2>2, SidesAreOK DEF SideOK
  <2>4. 1 \in 1 .. Len(levels[opp])
    BY <2>2, <2>3
  <2>5. best.price \in Tick
    BY <2>2, <2>3, <2>4, LevelIs
  <2>6. best.price \in Int /\ call.o.price \in Int
    BY <1>4, <2>5, BookAssumption DEF Tick, Order
  <2> HIDE DEF best
  <2> QED BY <2>1, <2>6 DEF Within, BeyondLimit, Better, Opp
<1>51. f \in LooseFill /\ f.qty = q /\ q \in Int /\ call.remaining \in Int /\ call.o.qty \in Int
  <2>1. opp \in Side /\ levels[opp] # <<>>
    BY <1>1 DEF Opp, Side, LoopContinues
  <2>2. SideOK(opp, levels[opp]) /\ levels[opp] \in Seq(Level)
    BY <2>1, SidesAreOK DEF SideOK
  <2>3. 1 \in 1 .. Len(levels[opp])
    BY <2>1, <2>2
  <2>4. best.price \in Tick /\ best.queue \in Seq(Resting) /\ best.queue # <<>>
    BY <2>1, <2>2, <2>3, LevelIs
  <2>5. maker \in Resting
    BY <2>4
  <2>6. maker.qty \in Nat /\ maker.id \in Ids /\ best.price \in Int /\ call.remaining \in Nat
    BY <1>3, <2>4, <2>5, BookAssumption DEF Resting, Tick, Call
  <2>7. q \in Nat
    BY <2>6
  <2>8. call.o.qty \in Int
    BY <1>4, BookAssumption DEF Order
  <2> HIDE DEF q, maker, best
  <2> QED BY <2>6, <2>7, <2>8 DEF LooseFill
<1> HIDE DEF q, f
<1>6. call'.o = call.o /\ call'.fills = Append(call.fills, f) /\ call'.remaining = call.remaining - q
  BY <1>2, <1>3 DEF Call
<1>61. FieldTotal(call'.fills, "qty") + call'.remaining = call'.o.qty
  <2>1. Counted(LooseFill, "qty") /\ call.fills \in Seq(LooseFill)
    <3>1. Fill \subseteq LooseFill
      BY FillIsLoose
    <3>2. Seq(Fill) \subseteq Seq(LooseFill)
      BY <3>1
    <3>3. Counted(LooseFill, "qty")
      BY DEF Counted, LooseFill
    <3> QED BY <1>4, <3>2, <3>3
  <2>2. FieldTotal(call.fills, "qty") \in Int
    BY <2>1, TotalIs
  <2>3. FieldTotal(call'.fills, "qty") = FieldTotal(call.fills, "qty") + f.qty
    BY <1>6, <1>51, <2>1, TotalAppend
  <2>4. FieldTotal(call.fills, "qty") + call.remaining = call.o.qty
    BY <1>0, <1>1 DEF Served
  <2> QED BY <1>6, <1>51, <2>2, <2>3, <2>4
<1>7. call' # NoCall
  BY FillBestStep, NothingAssumption DEF Match
<1>8. \A i \in 1 .. Len(call'.fills) : Within(call'.o, call'.fills[i].price)
  <2>1. f.price = best.price
    BY DEF f
  <2>2. \A i \in 1 .. Len(call.fills) : Within(call.o, call.fills[i].price)
    BY <1>0, <1>1 DEF Served
  <2> DEFINE fs == call.fills
  <2>3. fs \in Seq(Fill)
    BY <1>4
  <2>4. ASSUME NEW i \in 1 .. Len(Append(fs, f)) PROVE Within(call.o, Append(fs, f)[i].price)
    <3> HIDE DEF fs
    <3>1. CASE i = Len(fs) + 1
      <4>1. Append(fs, f)[i] = f
        BY <2>3, <3>1
      <4> QED BY <1>5, <2>1, <4>1
    <3>2. CASE i \in 1 .. Len(fs)
      <4>1. Append(fs, f)[i] = fs[i]
        BY <2>3, <3>2
      <4> QED BY <2>2, <3>2, <4>1 DEF fs
    <3>3. Len(fs) \in Nat /\ Len(Append(fs, f)) = Len(fs) + 1
      BY <2>3
    <3> QED BY <3>1, <3>2, <3>3
  <2> QED BY <1>6, <2>4
<1>9. \A id \in Ids : byID'[id] # NoEntry => byID[id] # NoEntry
  BY <1>2, <1>3
<1> HIDE DEF best, maker, opp
<1>10. TrafficTypes' /\ Numbered' /\ NeverRejected' /\ NoFalseAlarm'
  BY <1>0, <1>1 DEF TrafficTypes, Numbered, NeverRejected, NoFalseAlarm
<1>11. Served'
  BY <1>0, <1>1, <1>6, <1>7, <1>8, <1>61 DEF Served
<1>12. \A id : Used(id)' <=> Used(id)
  BY DEF Used
<1>13. Fresh'
  BY <1>0, <1>1, <1>6, <1>7, <1>9, <1>12 DEF Fresh, Pending
<1>14. Truthful'
  BY <1>0, <1>1 DEF Truthful, Current
<1> QED BY <1>10, <1>11, <1>13, <1>14 DEF TrafficInv

(* The order that called returns with the answer to it. *)
LEMMA TrafficReturns ==
    ASSUME BookInv, BookInv', TrafficInv, NEW r \in inflight, OrderReturns(r), UNCHANGED <<bot, alarms>>
    PROVE  TrafficInv'
<1>0. IsRequest(r) /\ Fresh /\ Served /\ Truthful /\ seq \in Nat /\ ack' \in BookAcks
  BY DEF TrafficInv, TrafficTypes, BookInv, TypeOK, BookAcks
<1>1. r.at = "called" /\ SubmitReturns
  BY DEF OrderReturns
<1>2. call # NoCall /\ call.o = r.o /\ r.method = "post" /\ \A q \in inflight : q.at = "called" => q = r
  BY <1>0, <1>1 DEF Served
<1>3. call \in Call /\ ~Invalid(call.o) /\ call.remaining <= call.o.qty
  BY <1>2 DEF BookInv, TypeOK, CallAccepted
<1>4. call.remaining \in Nat /\ call.o \in Order
  BY <1>3 DEF Call
<1>5. /\ FinalStatus(call.o, call.remaining) # "rejected"
      /\ FinalStatus(call.o, call.remaining) = "filled" => call.remaining = 0
  <2> DEFINE o == call.o
             rem == call.remaining
  <2>1. o.qty \in Int /\ o.type \in {"limit", "market"} /\ rem <= o.qty /\ rem \in Nat
    <3>1. o \in Order /\ ~Invalid(o)
      BY <1>3, <1>4
    <3> HIDE DEF o
    <3>2. o.qty \in Int /\ o.type \in {"limit", "market"}
      BY <3>1, CheckedOrder
    <3> QED BY <1>3, <1>4, <3>2 DEF o
  <2> HIDE DEF o, rem
  <2>2. FinalStatus(o, rem) # "rejected" /\ (FinalStatus(o, rem) = "filled" => rem = 0)
    BY <2>1 DEF FinalStatus
  <2> QED BY <2>2 DEF o, rem
<1>6. /\ call' = NoCall /\ seq' = seq
      /\ ack'.order_id = r.o.id /\ ack'.seq = seq /\ ack'.fills = call.fills
      /\ ack'.status = FinalStatus(call.o, call.remaining)
  BY <1>1, <1>2 DEF SubmitReturns, Reply
<1>7. PICK m \in Mangled(ack') : inflight' = (inflight \ {r}) \cup {Moved(r, "replied", m, m # ack')}
  BY AnswerIs DEF OrderReturns
<1>8. m \in Acks /\ m.status = ack'.status /\ m.seq <= ack'.seq
  BY <1>0, MangledIs
<1>9. ASSUME NEW id \in Ids, byID'[id] # NoEntry
      PROVE  byID[id] # NoEntry \/ (call # NoCall /\ call.o.id = id)
  <2>1. byID \in [Ids -> Entry \cup {NoEntry}]
    BY DEF BookInv, TypeOK
  <2>2. byID' = byID \/ byID' = [byID EXCEPT ![call.o.id] = [side |-> call.o.side, price |-> call.o.price]]
    BY <1>1 DEF SubmitReturns, Rest
  <2> QED BY <1>2, <1>9, <2>1, <2>2
<1> DEFINE d == m # ack'
<1>10. d \in BOOLEAN /\ (~d => m = ack')
  OBVIOUS
<1>11. inflight' = (inflight \ {r}) \cup {Moved(r, "replied", m, d)}
  BY <1>7
<1> HIDE DEF d
<1>12. ~d => /\ m.order_id = r.o.id
             /\ Fits(r.o, m)
             /\ Current(r) => bot[r.bot].lastSeq < m.seq
  <2>1. \A i \in 1 .. Len(call.fills) : Within(call.o, call.fills[i].price)
    BY <1>0, <1>2 DEF Served
  <2>2. Current(r) => bot[r.bot].lastSeq < seq
    BY <1>0, <1>1 DEF Truthful
  <2>3. FieldTotal(call.fills, "qty") + call.remaining = call.o.qty
    BY <1>0, <1>2 DEF Served
  <2>4. FieldTotal(call.fills, "qty") \in Int /\ call.o.qty \in Int
    <3>1. Counted(Fill, "qty") /\ call.fills \in Seq(Fill)
      BY <1>3 DEF Counted, Fill, Call
    <3> QED BY <1>4, <3>1, TotalIs, BookAssumption DEF Order
  <2>5. FieldTotal(call.fills, "qty") <= call.o.qty /\ (call.remaining = 0 => FieldTotal(call.fills, "qty") = call.o.qty)
    BY <1>4, <2>3, <2>4
  <2>6. ~d => Fits(r.o, m)
    BY <1>2, <1>5, <1>6, <1>10, <2>1, <2>5 DEF Fits
  <2> QED BY <1>2, <1>6, <1>10, <2>2, <2>6
<1>13. \A id \in Ids : byID'[id] # NoEntry \/ (call' # NoCall /\ call'.o.id = id) =>
          \/ byID[id] # NoEntry \/ (call # NoCall /\ call.o.id = id)
          \/ Pending(r) /\ r.o.id = id
  BY <1>6, <1>9
<1>14. seq' \in Nat /\ seq <= seq' /\ m.seq <= seq' /\ m.status # "rejected"
  BY <1>0, <1>5, <1>6, <1>8
<1> QED BY <1>0, <1>2, <1>6, <1>8, <1>10, <1>11, <1>12, <1>13, <1>14, TrafficMoves

(* Cancel answers at once, for an order that rests or does not. *)
LEMMA TrafficDeletes ==
    ASSUME BookInv, BookInv', TrafficInv, NEW r \in inflight, DeleteOrder(r), UNCHANGED <<bot, alarms>>
    PROVE  TrafficInv'
<1>0. IsRequest(r) /\ Fresh /\ Served /\ Truthful /\ seq \in Nat /\ ack' \in BookAcks
  BY DEF TrafficInv, TrafficTypes, BookInv, TypeOK, BookAcks
<1>1. /\ r.method = "delete" /\ r.bot \in Bots /\ r.o.id \in Ids
  BY <1>0, RequestIs DEF DeleteOrder
<1>2. /\ call = NoCall /\ call' = NoCall /\ seq' = seq + 1
      /\ ack'.order_id = r.o.id /\ ack'.seq = seq + 1 /\ ack'.fills = <<>>
      /\ ack'.status \in {"canceled", "unknown"}
      /\ byID' = byID \/ byID' = [byID EXCEPT ![r.o.id] = NoEntry]
  <2>1. CASE CancelUnknown(r.o.id)
    BY <2>1 DEF CancelUnknown, NextSeq, Reply
  <2>2. CASE CancelResting(r.o.id)
    BY <2>2 DEF CancelResting, NextSeq, Reply
  <2> QED BY <2>1, <2>2 DEF DeleteOrder
<1>3. \A q \in inflight : q.at # "called"
  BY <1>0, <1>2 DEF Served
<1>4. PICK m \in Mangled(ack') : inflight' = (inflight \ {r}) \cup {Moved(r, "replied", m, m # ack')}
  BY AnswerIs DEF DeleteOrder
<1>5. m \in Acks /\ m.status = ack'.status /\ m.seq <= ack'.seq
  BY <1>0, MangledIs
<1> DEFINE d == m # ack'
<1>6. d \in BOOLEAN /\ (~d => m = ack')
  OBVIOUS
<1>7. inflight' = (inflight \ {r}) \cup {Moved(r, "replied", m, d)}
  BY <1>4
<1> HIDE DEF d
<1>8. bot[r.bot].lastSeq < seq + 1
  <2>1. bot[r.bot].lastSeq \in Int /\ bot[r.bot].lastSeq <= seq
    BY <1>0, <1>1 DEF TrafficInv, TrafficTypes, BotStates, Truthful
  <2> QED BY <1>0, <2>1
<1>9. ~d => m.order_id = r.o.id /\ bot[r.bot].lastSeq < m.seq
  BY <1>2, <1>6, <1>8
<1>10. \A id \in Ids : byID'[id] # NoEntry \/ (call' # NoCall /\ call'.o.id = id) =>
          \/ byID[id] # NoEntry \/ (call # NoCall /\ call.o.id = id)
          \/ Pending(r) /\ r.o.id = id
  <2>1. byID \in [Ids -> Entry \cup {NoEntry}]
    BY DEF BookInv, TypeOK
  <2> QED BY <1>2, <2>1
<1>11. seq' \in Nat /\ seq <= seq' /\ m.seq <= seq' /\ m.status # "rejected"
       /\ m.status \in {"canceled", "unknown"}
  BY <1>0, <1>2, <1>5
<1> QED BY <1>0, <1>1, <1>2, <1>3, <1>5, <1>6, <1>7, <1>9, <1>10, <1>11, TrafficMoves

-----------------------------------------------------------------------------
LEMMA TrafficKept ==
    ASSUME BookInv, TrafficInv, [TrafficNext]_trafficVars
    PROVE  BookInv' /\ TrafficInv'
<1>1. BookInv'
  <2>1. TrafficTypes
    BY DEF TrafficInv
  <2> QED BY <2>1, TrafficIsBook, BookKept
<1>2. CASE UNCHANGED trafficVars
  <2>1. UNCHANGED <<byID, seq, call, inflight, bot, alarms>>
    BY <1>2 DEF trafficVars
  <2>2. TrafficTypes' /\ Numbered' /\ Served' /\ Truthful' /\ NeverRejected' /\ NoFalseAlarm'
    BY <2>1 DEF TrafficInv, TrafficTypes, Numbered, Served, Truthful, Current, NeverRejected,
       NoFalseAlarm
  <2>3. Fresh'
    BY <2>1 DEF TrafficInv, Fresh, Used, Pending
  <2> QED BY <1>1, <2>2, <2>3 DEF TrafficInv
<1>3. ASSUME NEW b \in Bots, BotNext(b) PROVE TrafficInv'
  BY <1>3, TrafficOrders, TrafficCancels, TrafficTimeout, TrafficReceive DEF BotNext
<1>4. ASSUME EngineNext, UNCHANGED <<bot, alarms, timeouts>> PROVE TrafficInv'
  BY <1>1, <1>4, TrafficPosts, TrafficReturns, TrafficDeletes, TrafficMatches DEF EngineNext
<1> QED BY <1>1, <1>2, <1>3, <1>4 DEF TrafficNext

LEMMA TrafficStarts == TrafficInit => BookInv /\ TrafficInv
<1> SUFFICES ASSUME TrafficInit PROVE BookInv /\ TrafficInv
  OBVIOUS
<1>1. BookInv
  BY BookStarts DEF TrafficInit, EngineInit
<1>2. /\ inflight = {} /\ alarms = {} /\ seq = 0 /\ call = NoCall /\ byID = [i \in Ids |-> NoEntry]
      /\ bot = [b \in Bots |-> [waiting |-> FALSE, turn |-> 0, n |-> 0, resting |-> {}, lastSeq |-> 0]]
  BY DEF TrafficInit, EngineInit, Init
<1>3. bot \in [Bots -> BotStates] /\ \A b \in Bots : bot[b].lastSeq = 0
  BY <1>2 DEF BotStates
<1>4. TrafficTypes /\ Numbered /\ Fresh /\ Served /\ NeverRejected /\ NoFalseAlarm
  BY <1>2, <1>3 DEF TrafficTypes, Numbered, Fresh, Served, NeverRejected, NoFalseAlarm
<1>5. Truthful
  BY <1>2, <1>3 DEF Truthful
<1> QED BY <1>1, <1>4, <1>5 DEF TrafficInv

LEMMA TrafficInvariant ==
    TrafficSpec => [](BookInv /\ TrafficInv)
<1>1. BookInv /\ TrafficInv /\ [TrafficNext]_trafficVars => (BookInv /\ TrafficInv)'
  BY TrafficKept
<1> QED BY <1>1, TrafficStarts, PTL DEF TrafficSpec

(* Behind the HTTP handlers and under any traffic of the bots the engine   *)
(* is the book of MatchingBook: main.go of the example engine takes its    *)
(* mutex so that no two calls mix.  With it, everything proved of the book *)
(* holds of the engine.                                                    *)
THEOREM EngineIsABook == TrafficSpec => Spec
<1>1. TrafficInit => Init
  BY DEF TrafficInit, EngineInit
<1>2. TrafficInv /\ [TrafficNext]_trafficVars => [Next]_vars
  BY TrafficIsBook DEF TrafficInv
<1> QED BY <1>1, <1>2, TrafficInvariant, PTL DEF TrafficSpec, Spec

(* Behind its handlers, whatever bots send, give up on or send late, the   *)
(* engine of main.go still trades in price-time priority.                  *)
THEOREM EngineKeepsPriceTime == TrafficSpec => ImplementsPriceTime
  BY EngineIsABook, BookKeepsPriceTime

(* However many requests time out and are served late or never, no order   *)
(* of a bot is rejected by a correct engine: the ids that bot() formats    *)
(* from the bot and its counter never meet.                                *)
THEOREM LoadIsNeverRejected == TrafficSpec => []NeverRejected
<1>1. TrafficInv => NeverRejected
  BY DEF TrafficInv
<1> QED BY <1>1, TrafficInvariant, PTL

(* checkSeq(), the check of cancel's status, the echo of the id and the    *)
(* prices and quantities of validate() never charge an answer that the     *)
(* engine did not mangle, in any interleaving of late and timed-out        *)
(* requests of any number of bots.                                         *)
THEOREM NoFalseCharges == TrafficSpec => []NoFalseAlarm
<1>1. TrafficInv => NoFalseAlarm
  BY DEF TrafficInv
<1> QED BY <1>1, TrafficInvariant, PTL

-----------------------------------------------------------------------------
(* The first level is the best tick, and its queue is the one of that tick. *)
LEMMA FirstIsBest ==
    ASSUME BookInv, NEW s \in Side, levels[s] # <<>>
    PROVE  LET lvs == levels[s]
               ticks == {p \in Tick : QueueAt(lvs, p) # <<>>}
           IN  /\ lvs[1].price \in ticks /\ QueueAt(lvs, lvs[1].price) = lvs[1].queue
               /\ \A p \in ticks : p = lvs[1].price \/ Better(s, lvs[1].price, p)
               /\ lvs[1].queue \in Seq(Resting) /\ lvs[1].price \in Int /\ ticks \subseteq Int
<1> DEFINE lvs == levels[s]
           ticks == {p \in Tick : QueueAt(lvs, p) # <<>>}
<1>1. SideOK(s, lvs) /\ lvs \in Seq(Level) /\ lvs # <<>>
  BY SidesAreOK DEF SideOK
<1> HIDE DEF lvs
<1>2. DOMAIN lvs = 1 .. Len(lvs) /\ 1 \in 1 .. Len(lvs) /\ Len(lvs) \in Nat
  BY <1>1
<1>3. \A i \in 1 .. Len(lvs) : lvs[i].price \in Tick /\ lvs[i].queue \in Seq(Resting) /\ lvs[i].queue # <<>>
  BY <1>1, LevelIs
<1>4. \A i \in 1 .. Len(lvs) : i = 1 \/ Better(s, lvs[1].price, lvs[i].price)
  BY <1>1, <1>2 DEF SideOK, Ordered
<1>5. \A p \in Tick : p \in Int
  BY BookAssumption DEF Tick
<1>6. \A i \in 1 .. Len(lvs) : lvs[i].price = lvs[1].price => i = 1
  BY <1>2, <1>3, <1>4, <1>5 DEF Better
<1>7. QueueAt(lvs, lvs[1].price) = lvs[1].queue
  <2> DEFINE i == CHOOSE j \in DOMAIN lvs : lvs[j].price = lvs[1].price
  <2>1. i \in DOMAIN lvs /\ lvs[i].price = lvs[1].price
    BY <1>2
  <2>2. i = 1
    BY <1>2, <1>6, <2>1
  <2>3. QueueAt(lvs, lvs[1].price) = lvs[i].queue
    BY <1>2 DEF QueueAt
  <2> QED BY <2>2, <2>3
<1>8. ASSUME NEW p \in Tick, QueueAt(lvs, p) # <<>>
      PROVE  p = lvs[1].price \/ Better(s, lvs[1].price, p)
  <2>1. \E i \in DOMAIN lvs : lvs[i].price = p
    BY <1>8 DEF QueueAt
  <2> QED BY <1>2, <1>4, <2>1
<1> QED BY <1>2, <1>3, <1>5, <1>7, <1>8 DEF lvs

LEMMA TopStep == BookInv => TopIsPromised
<1> SUFFICES ASSUME BookInv, call = NoCall, NEW s \in Side
             PROVE  Top[s] = PromisedTop(s)
  BY DEF TopIsPromised
<1> DEFINE lvs == levels[s]
           queue(p) == QueueAt(lvs, p)
           ticks == {p \in Tick : queue(p) # <<>>}
           best == CHOOSE p \in ticks : \A q \in ticks : p = q \/ Better(s, p, q)
<1>1. VisibleLevels = levels
  BY DEF VisibleLevels
<1>2. PromisedTop(s) = IF ticks = {} THEN NoTop
                       ELSE [price |-> best, qty |-> TotalByPlace(queue(best), "qty", DOMAIN queue(best))]
  BY <1>1 DEF PromisedTop, TotalByPlace
<1>3. Top[s] = IF lvs = <<>> THEN NoTop
               ELSE [price |-> lvs[1].price, qty |-> FieldTotal(lvs[1].queue, "qty")]
  BY DEF Top, TopOf, FieldTotal
<1>4. CASE lvs = <<>>
  <2>1. \A p \in Tick : queue(p) = <<>>
    BY <1>4 DEF QueueAt
  <2> HIDE DEF best
  <2> QED BY <1>2, <1>3, <1>4, <2>1
<1>5. CASE lvs # <<>>
  <2> DEFINE first == lvs[1].price
  <2>1. /\ first \in ticks /\ queue(first) = lvs[1].queue
        /\ \A p \in ticks : p = first \/ Better(s, first, p)
        /\ lvs[1].queue \in Seq(Resting) /\ first \in Int /\ ticks \subseteq Int
    BY <1>5, FirstIsBest
  <2> HIDE DEF ticks, lvs
  <2>2. best \in ticks /\ \A q \in ticks : best = q \/ Better(s, best, q)
    BY <2>1
  <2>3. best = first
    <3> HIDE DEF best, first
    <3> QED BY <2>1, <2>2 DEF Better
  <2>4. TotalByPlace(lvs[1].queue, "qty", DOMAIN lvs[1].queue) = FieldTotal(lvs[1].queue, "qty")
    <3> DEFINE q == lvs[1].queue
    <3>1. Counted(Resting, "qty") /\ q \in Seq(Resting)
      BY <2>1 DEF Counted, Resting
    <3> HIDE DEF q
    <3>2. FieldTotal(q, "qty") = SumOf(DOMAIN q, Weights(q, "qty")) /\ IsFiniteSet(DOMAIN q)
      BY <3>1, TotalIs
    <3>3. \A i \in DOMAIN q : q[i].qty \in Int
      BY <3>1 DEF Counted
    <3>4. TotalByPlace(q, "qty", DOMAIN q) = SumOf(DOMAIN q, Weights(q, "qty"))
      BY <3>2, <3>3, MapIsSum
    <3> QED BY <3>2, <3>4 DEF q
  <2>5. ticks # {}
    BY <2>1
  <2> HIDE DEF best
  <2> QED BY <1>2, <1>3, <1>5, <2>1, <2>3, <2>4, <2>5
<1> QED BY <1>4, <1>5

(* Between two calls GET /book answers with the best tick of each side and *)
(* everything that rests there, whatever the bots do: the first level is   *)
(* never empty and never out of place.                                     *)
THEOREM TopsAreAsPromised == TrafficSpec => []TopIsPromised
<1>1. BookInv /\ TrafficInv => TopIsPromised
  BY TopStep
<1> QED BY <1>1, TrafficInvariant, PTL
=============================================================================
