----------------------------- MODULE FeedProofs -----------------------------
(***************************************************************************)
(* Theorems about Feed, for any runs, goroutines, pages, connections,      *)
(* capacity of hub.bcast and number of hiccups, with and without polling:  *)
(* a connection has one writer, whatever is stored, under way or shown was *)
(* read off the board, and the stored snapshot lacks no verdict but those  *)
(* missed.                                                                 *)
(*                                                                         *)
(* FeedInv is the inductive invariant of the first two.  Its types carry   *)
(* the argument: boards that are stored or under way are subsets of the    *)
(* board, which only grows.  Accounted adds where a verdict is between     *)
(* ZADD and SET.                                                           *)
(***************************************************************************)
EXTENDS Feed, TLAPS

(* A board made of verdicts of B, or none. *)
Seen(B) == (SUBSET B) \cup {None}

PublisherTypes(B) ==
    /\ snapshot \in Seen(B)
    /\ publisher \in [Goroutines -> [at : {"idle", "read", "set", "publish"}, rows : SUBSET B]]

RelayTypes(B) ==
    /\ channel \in Seq(SUBSET B)
    /\ bcast \in Seq(SUBSET B)
    /\ fan \in [busy : BOOLEAN, msg : Seen(B), todo : SUBSET Conns]

ConnStates(B) ==
    [at : {"none", "upgraded", "got", "written", "added", "leaving", "gone"},
     snap : Seen(B), up : BOOLEAN]

ConnTypes(B) == clients \subseteq Conns /\ conn \in [Conns -> ConnStates(B)]

PageTypes(B) == shown \in [Pages -> Seen(B)] /\ asked \in [Pages -> Seen(B)]

(* Whatever is stored, read, under way or shown is made of verdicts that   *)
(* are on the board.                                                       *)
FromTheBoard ==
    PublisherTypes(board) /\ RelayTypes(board) /\ ConnTypes(board) /\ PageTypes(board)

FeedInv == board \subseteq Runs /\ FromTheBoard /\ OneWriter

-----------------------------------------------------------------------------
(* What was read off a smaller board may have been read off a larger one. *)
LEMMA BoardsGrow ==
    ASSUME NEW A, NEW B, A \subseteq B
    PROVE  /\ PublisherTypes(A) => PublisherTypes(B)
           /\ RelayTypes(A) => RelayTypes(B)
           /\ ConnTypes(A) => ConnTypes(B)
           /\ PageTypes(A) => PageTypes(B)
<1>1. SUBSET A \subseteq SUBSET B /\ Seen(A) \subseteq Seen(B)
  BY DEF Seen
<1>2. PublisherTypes(A) => PublisherTypes(B)
  BY <1>1 DEF PublisherTypes
<1>3. RelayTypes(A) => RelayTypes(B)
  BY <1>1 DEF RelayTypes
<1>4. ConnTypes(A) => ConnTypes(B)
  BY <1>1 DEF ConnTypes, ConnStates
<1>5. PageTypes(A) => PageTypes(B)
  BY <1>1 DEF PageTypes
<1> QED BY <1>2, <1>3, <1>4, <1>5

LEMMA FeedStarts == Init => FeedInv
<1> SUFFICES ASSUME Init PROVE FeedInv
  OBVIOUS
<1>0. {} \in (SUBSET board) /\ {} \in (SUBSET Conns) /\ None \in Seen(board)
  BY DEF Seen
<1>1. PublisherTypes(board) /\ PageTypes(board)
  BY <1>0 DEF Init, PublisherTypes, PageTypes
<1>2. RelayTypes(board)
  BY <1>0 DEF Init, RelayTypes, Quiet
<1>3. ConnTypes(board)
  BY <1>0 DEF Init, ConnTypes, ConnStates
<1> QED BY <1>1, <1>2, <1>3 DEF Init, FeedInv, FromTheBoard, OneWriter

(* The ingester's steps leave relay, hub and pages alone, but for a        *)
(* message on the channel.                                                 *)
LEMMA FeedPublisherStep ==
    ASSUME FeedInv, NEW g \in Goroutines, Verdict(g) \/ PublisherStep(g) \/ Crash
    PROVE  FeedInv'
<1> USE DEF FeedInv, FromTheBoard
<1>1. CASE Verdict(g)
  <2>1. board \subseteq board' /\ board' \subseteq Runs
    BY <1>1 DEF Verdict
  <2>2. /\ PublisherTypes(board') /\ RelayTypes(board') /\ ConnTypes(board') /\ PageTypes(board')
    BY <2>1, BoardsGrow
  <2>3. PublisherTypes(board)'
    BY <1>1, <2>1, <2>2 DEF Verdict, Publishing, PublisherTypes, Seen
  <2>4. RelayTypes(board)'
    BY <1>1, <2>2 DEF Verdict, RelayTypes, relayVars, hubVars
  <2>5. ConnTypes(board)' /\ PageTypes(board)' /\ OneWriter'
    BY <1>1, <2>2 DEF Verdict, ConnTypes, PageTypes, hubVars, OneWriter
  <2> QED BY <2>1, <2>3, <2>4, <2>5
<1>2. CASE PublisherStep(g) \/ Crash
  <2> USE DEF PublisherTypes, Seen, PublisherStep, ReadBoard, ReadBoardFails, SetSnapshot,
              SetSnapshotFails, Publish, Crash
  <2>1. board' = board
    BY <1>2
  <2>2. PublisherTypes(board)'
    <3>1. CASE Crash
      BY <2>1, <3>1
    <3>2. CASE PublisherStep(g)
      BY <2>1, <3>2 DEF Publishing
    <3> QED BY <1>2, <3>1, <3>2
  <2>3. channel \in Seq(SUBSET board) /\ publisher[g].rows \in SUBSET board
    BY DEF RelayTypes
  <2>4. channel' \in Seq(SUBSET board)
    <3> DEFINE Sets == SUBSET board
               rows == publisher[g].rows
    <3>1. Append(channel, rows) \in Seq(Sets)
      <4>1. channel \in Seq(Sets) /\ rows \in Sets
        BY <2>3
      <4> HIDE DEF Sets, rows
      <4> QED BY <4>1
    <3> QED BY <1>2, <2>3, <3>1 DEF relayVars
  <2>5. RelayTypes(board)' /\ ConnTypes(board)' /\ PageTypes(board)' /\ OneWriter'
    BY <1>2, <2>1, <2>4 DEF relayVars, hubVars, RelayTypes, ConnTypes, PageTypes, OneWriter
  <2> QED BY <2>1, <2>2, <2>5
<1> QED BY <1>1, <1>2

(* A relay hands on what it received. *)
LEMMA FeedRelayStep ==
    ASSUME FeedInv, Pump \/ Hiccup \/ Resubscribe
    PROVE  FeedInv'
<1> USE DEF FeedInv, FromTheBoard
<1>1. /\ board' = board /\ PublisherTypes(board)' /\ ConnTypes(board)' /\ PageTypes(board)'
      /\ OneWriter' /\ fan' = fan
  BY DEF Pump, Hiccup, Resubscribe, storeVars, hubVars, PublisherTypes, ConnTypes, PageTypes, OneWriter
<1>2. channel' \in Seq(SUBSET board) /\ bcast' \in Seq(SUBSET board)
  <2>1. CASE Pump
    <3>1. Head(channel) \in SUBSET board /\ Tail(channel) \in Seq(SUBSET board)
      BY <2>1 DEF Pump, RelayTypes
    <3> QED BY <2>1, <3>1 DEF Pump, RelayTypes
  <2>2. CASE Hiccup \/ Resubscribe
    BY <2>2 DEF Hiccup, Resubscribe, RelayTypes
  <2> QED BY <2>1, <2>2
<1> QED BY <1>1, <1>2 DEF RelayTypes

(* The hub writes to clients, and drops some; it adds none. *)
LEMMA FeedHubStep ==
    ASSUME FeedInv, HubStep
    PROVE  FeedInv'
<1> USE DEF FeedInv, FromTheBoard
<1>1. CASE Broadcast
  <2>1. Head(bcast) \in SUBSET board /\ Tail(bcast) \in Seq(SUBSET board)
    BY <1>1 DEF Broadcast, RelayTypes
  <2>2. RelayTypes(board)'
    BY <1>1, <2>1 DEF Broadcast, RelayTypes, ConnTypes, Seen, storeVars
  <2> QED BY <1>1, <2>2 DEF Broadcast, storeVars, PublisherTypes, ConnTypes, PageTypes, OneWriter
<1>2. ASSUME NEW c \in Conns, FanOut(c) PROVE FeedInv'
  <2>1. c[1] \in Pages /\ fan.msg \in Seen(board)
    BY DEF Conns, RelayTypes
  <2>2. RelayTypes(board)'
    BY <1>2 DEF FanOut, RelayTypes, storeVars, relayVars
  <2>3. PageTypes(board)'
    BY <1>2, <2>1 DEF FanOut, PageTypes, storeVars, Shows
  <2> QED BY <1>2, <2>2, <2>3 DEF FanOut, storeVars, PublisherTypes, ConnTypes, OneWriter
<1>3. ASSUME NEW c \in Conns, FanOutFails(c) PROVE FeedInv'
  <2>1. RelayTypes(board)'
    BY <1>3 DEF FanOutFails, RelayTypes, storeVars, relayVars
  <2>2. ConnTypes(board)'
    BY <1>3 DEF FanOutFails, ConnTypes, ConnStates, storeVars
  <2>3. OneWriter'
    BY <1>3 DEF FanOutFails, ConnTypes, ConnStates, OneWriter
  <2> QED BY <1>3, <2>1, <2>2, <2>3 DEF FanOutFails, storeVars, PublisherTypes, PageTypes
<1>4. CASE Unlock
  <2>1. RelayTypes(board)'
    BY <1>4 DEF Unlock, Quiet, RelayTypes, Seen, storeVars, relayVars
  <2> QED BY <1>4, <2>1 DEF Unlock, storeVars, PublisherTypes, ConnTypes, PageTypes, OneWriter
<1> QED BY <1>1, <1>2, <1>3, <1>4 DEF HubStep

(* A handler joins the hub after its last write and never writes again:    *)
(* the position it has then only moves on.                                 *)
LEMMA FeedConnStep ==
    ASSUME FeedInv, NEW c \in Conns, Upgrade(c) \/ HandlerStep(c) \/ SocketDrops(c)
    PROVE  FeedInv'
<1> USE DEF FeedInv, FromTheBoard
<1>0. c[1] \in Pages /\ conn[c].snap \in Seen(board) /\ snapshot \in Seen(board)
  BY DEF Conns, ConnTypes, ConnStates, PublisherTypes
<1>1. board' = board /\ PublisherTypes(board)' /\ RelayTypes(board)'
  BY DEF Upgrade, HandlerStep, GetSnapshot, WriteSnapshot, Add, ReadFails, Remove, Handler,
     SocketDrops, storeVars, relayVars, PublisherTypes, RelayTypes
<1>2. PageTypes(board)'
  BY <1>0, <1>1 DEF Upgrade, HandlerStep, GetSnapshot, WriteSnapshot, Add, ReadFails, Remove, Handler,
     SocketDrops, Shows, PageTypes
<1>3. ConnTypes(board)'
  <2> USE DEF ConnTypes
  <2>0. CASE SocketDrops(c)
    BY <1>1, <2>0 DEF SocketDrops, ConnStates
  <2>1. CASE Upgrade(c)
    <3> DEFINE new == [[conn[c] EXCEPT !.at = "upgraded"] EXCEPT !.up = TRUE]
    <3>1. conn' = [conn EXCEPT ![c] = new] /\ clients' = clients
      BY <2>1 DEF Upgrade
    <3>2. new \in ConnStates(board)
      BY DEF ConnStates
    <3> QED BY <1>1, <3>1, <3>2
  <2>2. CASE GetSnapshot(c)
    <3> DEFINE to == IF snapshot = None THEN "written" ELSE "got"
               new == [[conn[c] EXCEPT !.at = to] EXCEPT !.snap = snapshot]
    <3>1. conn' = [conn EXCEPT ![c] = new] /\ clients' = clients
      BY <2>2 DEF GetSnapshot
    <3>2. new \in ConnStates(board)
      BY <1>0 DEF ConnStates
    <3> QED BY <1>1, <3>1, <3>2
  <2>3. CASE WriteSnapshot(c) \/ ReadFails(c)
    BY <1>1, <2>3 DEF WriteSnapshot, ReadFails, Handler, ConnStates
  <2>4. CASE Add(c) \/ Remove(c)
    BY <1>1, <2>4 DEF Add, Remove, Handler, ConnStates
  <2> QED BY <2>0, <2>1, <2>2, <2>3, <2>4 DEF HandlerStep
<1>4. OneWriter'
  BY DEF Upgrade, HandlerStep, GetSnapshot, WriteSnapshot, Add, ReadFails, Remove, Handler,
     SocketDrops, ConnTypes, ConnStates, OneWriter
<1> QED BY <1>1, <1>2, <1>3, <1>4

(* A page renders what it was answered. *)
LEMMA FeedPageStep ==
    ASSUME FeedInv, NEW p \in Pages, Ask(p) \/ Render(p) \/ PollFails(p)
    PROVE  FeedInv'
<1> USE DEF FeedInv, FromTheBoard
<1>0. snapshot \in Seen(board) /\ asked[p] \in Seen(board) /\ {} \in Seen(board) /\ None \in Seen(board)
  BY DEF PublisherTypes, PageTypes, Seen
<1>1. /\ board' = board /\ PublisherTypes(board)' /\ RelayTypes(board)' /\ ConnTypes(board)' /\ OneWriter'
  BY DEF Ask, Render, PollFails, storeVars, relayVars, hubVars, PublisherTypes, RelayTypes, ConnTypes, OneWriter
<1>2. PageTypes(board)'
  BY <1>0, <1>1 DEF Ask, Stored, Render, PollFails, Shows, PageTypes
<1> QED BY <1>1, <1>2

LEMMA FeedKept == FeedInv /\ [Next]_vars => FeedInv'
<1> SUFFICES ASSUME FeedInv, [Next]_vars PROVE FeedInv'
  OBVIOUS
<1>1. CASE UNCHANGED vars
  BY <1>1 DEF FeedInv, FromTheBoard, PublisherTypes, RelayTypes, ConnTypes, PageTypes, OneWriter,
     vars, storeVars, relayVars, hubVars
<1>2. CASE Next
  <2>1. Crash => \E g \in Goroutines : TRUE
    BY DEF Crash
  <2> QED BY <1>2, <2>1, FeedPublisherStep, FeedRelayStep, FeedHubStep, FeedConnStep, FeedPageStep DEF Next
<1> QED BY <1>1, <1>2

-----------------------------------------------------------------------------
(* A stored snapshot, a message on the channel or in hub.bcast, a          *)
(* broadcast and what a page shows never hold a verdict that is not on the *)
(* board, whatever is lost or late (publishSnapshot(), pumpEvents(),       *)
(* hub.run(), ws() and the page).                                          *)
THEOREM NothingInvented == Spec => []FromTheBoard
<1>1. FeedInv => FromTheBoard
  BY DEF FeedInv
<1> QED BY <1>1, FeedStarts, FeedKept, PTL DEF Spec

(* ws() and hub.run() never write to one connection at the same time: a    *)
(* handler has made its last write when it joins the hub.                  *)
THEOREM ConnectionsHaveOneWriter == Spec => []OneWriter
<1>1. FeedInv => OneWriter
  BY DEF FeedInv
<1> QED BY <1>1, FeedStarts, FeedKept, PTL DEF Spec

-----------------------------------------------------------------------------
(* Every verdict on the board is stored, missed, read by a goroutine that  *)
(* will store it, or will be read by one.                                  *)
OnItsWay(r) == \E g \in Goroutines : publisher[g].at = "set" /\ r \in publisher[g].rows

Accounted ==
    /\ missed \subseteq board /\ missed \cap Stored = {}
    /\ \/ \E g \in Goroutines : publisher[g].at = "read"
       \/ \A r \in board \ missed : r \in Stored \/ OnItsWay(r)

LEMMA AccountedKept ==
    ASSUME FeedInv, Accounted, [Next]_vars
    PROVE  Accounted'
<1>0. /\ publisher \in [Goroutines -> [at : {"idle", "read", "set", "publish"}, rows : SUBSET board]]
      /\ snapshot \in (SUBSET board) \cup {None} /\ board \subseteq Runs
      /\ None \notin SUBSET board
  BY FeedAssumption DEF FeedInv, FromTheBoard, PublisherTypes, Seen
<1>1. ASSUME NEW g \in Goroutines, Verdict(g) \/ ReadBoard(g) PROVE Accounted'
  BY <1>0, <1>1 DEF Accounted, OnItsWay, Verdict, ReadBoard, Publishing, Stored
<1>2. ASSUME NEW g \in Goroutines, ReadBoardFails(g) \/ SetSnapshotFails(g) \/ Crash PROVE Accounted'
  <2>1. board' = board /\ Stored' = Stored /\ missed' = missed \cup (board \ Stored)
    BY <1>2 DEF ReadBoardFails, SetSnapshotFails, Crash, Stored
  <2> QED BY <1>0, <2>1 DEF Accounted
<1>3. ASSUME NEW g \in Goroutines, SetSnapshot(g) PROVE Accounted'
  <2> DEFINE rows == publisher[g].rows
  <2>1. /\ board' = board /\ Stored' = rows /\ missed' = (missed \cup Stored) \ rows
        /\ rows \subseteq board /\ Stored \subseteq board
    BY <1>0, <1>3 DEF SetSnapshot, Stored
  <2>2. /\ publisher[g].at = "set"
        /\ \A h \in Goroutines \ {g} : publisher'[h] = publisher[h]
    BY <1>0, <1>3 DEF SetSnapshot, Publishing
  <2>3. missed' \subseteq board' /\ missed' \cap Stored' = {}
    BY <2>1 DEF Accounted
  <2>4. CASE \E h \in Goroutines : publisher[h].at = "read"
    BY <2>2, <2>3, <2>4 DEF Accounted
  <2>5. ASSUME \A r \in board \ missed : r \in Stored \/ OnItsWay(r),
               NEW r \in board' \ missed'
        PROVE  r \in Stored' \/ OnItsWay(r)'
    <3>1. r \in rows \/ (r \in board \ missed /\ r \notin Stored)
      BY <2>1
    <3>2. r \in rows \/ OnItsWay(r)
      BY <2>5, <3>1
    <3> QED BY <2>1, <2>2, <3>2 DEF OnItsWay
  <2> QED BY <2>3, <2>4, <2>5 DEF Accounted
<1>4. ASSUME NEW g \in Goroutines, Publish(g) PROVE Accounted'
  BY <1>0, <1>4 DEF Accounted, OnItsWay, Publish, Publishing, Stored
<1>5. CASE UNCHANGED storeVars
  BY <1>5 DEF storeVars, Accounted, OnItsWay, Stored
<1>6. ASSUME Pump \/ Hiccup \/ Resubscribe \/ HubStep PROVE UNCHANGED storeVars
  BY <1>6 DEF Pump, Hiccup, Resubscribe, HubStep, Broadcast, FanOut, FanOutFails, Unlock
<1>7. ASSUME NEW c \in Conns, Upgrade(c) \/ HandlerStep(c) \/ SocketDrops(c) PROVE UNCHANGED storeVars
  BY <1>7 DEF Upgrade, HandlerStep, GetSnapshot, WriteSnapshot, Add, ReadFails, Remove, Handler, SocketDrops
<1>8. ASSUME NEW p \in Pages, Ask(p) \/ Render(p) \/ PollFails(p) PROVE UNCHANGED storeVars
  BY <1>8 DEF Ask, Render, PollFails
<1>9. UNCHANGED vars => UNCHANGED storeVars
  BY DEF vars, storeVars
<1>10. CASE Crash
  <2>1. PICK g \in Goroutines : publisher[g].at # "idle"
    BY <1>10 DEF Crash
  <2> QED BY <1>2, <1>10, <2>1
<1> QED BY <1>1, <1>2, <1>3, <1>4, <1>5, <1>6, <1>7, <1>8, <1>9, <1>10 DEF Next, PublisherStep

(* However many goroutines finalize runs and however their publications    *)
(* overlap, once publishSnapshot() is through everywhere the snapshot that *)
(* ws() and the leaderboard handler serve lacks only verdicts that a       *)
(* failed ZREVRANGE or SET, a crash, or an older board stored last kept    *)
(* out, and no publication has stored since.  So PagesCatchUp's exception  *)
(* is the only one.                                                        *)
THEOREM SnapshotIsComplete == Spec => []SnapshotComplete
<1>1. Init => Accounted
  BY DEF Init, Accounted, Stored
<1>2. FeedInv /\ Accounted => SnapshotComplete
  <2> SUFFICES ASSUME FeedInv, Accounted, \A g \in Goroutines : publisher[g].at = "idle"
               PROVE  Stored = board \ missed
    BY DEF SnapshotComplete
  <2>1. Stored \subseteq board
    BY FeedAssumption DEF FeedInv, FromTheBoard, PublisherTypes, Seen, Stored
  <2>2. board \ missed \subseteq Stored
    BY DEF Accounted, OnItsWay
  <2> QED BY <2>1, <2>2 DEF Accounted
<1>3. FeedInv /\ Accounted /\ [Next]_vars => Accounted'
  BY AccountedKept
<1> QED BY <1>1, <1>2, <1>3, FeedStarts, FeedKept, PTL DEF Spec
=============================================================================
