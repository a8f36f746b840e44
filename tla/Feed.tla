-------------------------------- MODULE Feed --------------------------------
(***************************************************************************)
(* From a verdict to the screens: the goroutines of the ingester that may  *)
(* be in publishSnapshot(), the pub/sub channel, pumpEvents(), the hub and *)
(* the websocket handler of the gateway, and the page that renders what it *)
(* is sent or polls.  A board is the set of verdicts it accounts for.      *)
(*                                                                         *)
(*   ended            the runs finalize() was called for;                  *)
(*   board, snapshot  the sorted set "leaderboard" and the stored payload; *)
(*   publisher[g]     where goroutine g is between the verdict and         *)
(*                    PUBLISH, and the rows it has read;                   *)
(*   missed           history: the verdicts on the board that a failed or  *)
(*                    cut off publication left out of the stored payload,  *)
(*                    or that an older payload replaced, until a later one *)
(*                    has them again;                                      *)
(*   channel, subscribed  sub.Channel(), and whether Redis knows of us;    *)
(*   bcast            hub.bcast;                                           *)
(*   clients          hub.clients;                                         *)
(*   fan              the broadcast in progress, which holds hub.mu;       *)
(*   conn[c]          where the handler and then the reader of a websocket *)
(*                    stand, what it read, and whether the socket is up;   *)
(*   shown, asked     what a page shows, and the answer to its last poll.  *)
(***************************************************************************)
EXTENDS Integers, Sequences

CONSTANTS Runs,          \* verdicts
          Goroutines,    \* goroutines that finalize runs: main() and sweep()
          Pages,         \* open pages
          MaxConnects,   \* bound: websockets of one page
          BcastCap,      \* the capacity of hub.bcast (64)
          MaxHiccups,    \* bound: Redis errors, lost subscriptions, failed polls, crashes
          Polling,       \* whether the page polls /api/leaderboard
          None           \* no board yet, nothing shown, nothing asked

ASSUME FeedAssumption == \A B \in SUBSET Runs : None # B

VARIABLES ended, board, snapshot, publisher, missed, channel, subscribed, bcast,
          clients, fan, conn, shown, asked, hiccups

storeVars == <<ended, board, snapshot, publisher, missed>>
relayVars == <<channel, subscribed, bcast, hiccups>>
hubVars   == <<clients, fan, conn>>
vars == <<storeVars, relayVars, hubVars, shown, asked>>

Conns == Pages \X (1 .. MaxConnects)
Quiet == [busy |-> FALSE, msg |-> None, todo |-> {}]

Init ==
    /\ ended = {} /\ board = {}
    /\ snapshot = None /\ missed = {}
    /\ publisher = [g \in Goroutines |-> [at |-> "idle", rows |-> {}]]
    /\ channel = <<>> /\ subscribed = TRUE /\ bcast = <<>> /\ hiccups = 0
    /\ clients = {} /\ fan = Quiet
    /\ conn = [c \in Conns |-> [at |-> "none", snap |-> None, up |-> FALSE]]
    /\ shown = [p \in Pages |-> None]
    /\ asked = [p \in Pages |-> None]

-----------------------------------------------------------------------------
(* The ingester. *)
Publishing(g, from, to, rows) ==
    /\ publisher[g].at = from
    /\ publisher' = [publisher EXCEPT ![g] = [at |-> to, rows |-> rows]]

Fault ==
    /\ hiccups < MaxHiccups
    /\ hiccups' = hiccups + 1

(* What a reader of the snapshot gets: an empty board if none is stored. *)
Stored == IF snapshot = None THEN {} ELSE snapshot

(* finalize(), with ZADD leaderboard if the run beats what the submission  *)
(* has; publishSnapshot() follows in either case.                          *)
Verdict(g) ==
    \E r \in Runs \ ended :
        /\ Publishing(g, "idle", "read", {})
        /\ ended' = ended \cup {r}
        /\ board' \in {board, board \cup {r}}
        /\ UNCHANGED <<snapshot, missed, relayVars, hubVars, shown, asked>>

(* ZREVRANGE and the reads that make rows of it. *)
ReadBoard(g) ==
    /\ Publishing(g, "read", "set", board)
    /\ UNCHANGED <<ended, board, snapshot, missed, relayVars, hubVars, shown, asked>>

(* ZREVRANGE fails: nothing is stored or published. *)
ReadBoardFails(g) ==
    /\ Fault
    /\ Publishing(g, "read", "idle", {})
    /\ missed' = missed \cup (board \ Stored)
    /\ UNCHANGED <<ended, board, snapshot, channel, subscribed, bcast, hubVars, shown, asked>>

(* Mutant of SetSnapshot: only the first snapshot is stored. *)
SetSnapshotOnce(g) ==
    /\ Publishing(g, "set", "publish", publisher[g].rows)
    /\ snapshot' = IF snapshot = None THEN publisher[g].rows ELSE snapshot
    /\ missed' = (missed \cup Stored) \ publisher[g].rows
    /\ UNCHANGED <<ended, board, relayVars, hubVars, shown, asked>>

(* The payload is stored whatever another goroutine stored since the board *)
(* was read.                                                               *)
SetSnapshot(g) ==
    /\ Publishing(g, "set", "publish", publisher[g].rows)
    /\ snapshot' = publisher[g].rows
    /\ missed' = (missed \cup Stored) \ publisher[g].rows
    /\ UNCHANGED <<ended, board, relayVars, hubVars, shown, asked>>

(* The error of SET is dropped, and PUBLISH follows. *)
SetSnapshotFails(g) ==
    /\ Fault
    /\ Publishing(g, "set", "publish", publisher[g].rows)
    /\ missed' = missed \cup (board \ Stored)
    /\ UNCHANGED <<ended, board, snapshot, channel, subscribed, bcast, hubVars, shown, asked>>

(* PUBLISH reaches whoever is subscribed at that moment. *)
Publish(g) ==
    /\ Publishing(g, "publish", "idle", {})
    /\ channel' = IF subscribed THEN Append(channel, publisher[g].rows) ELSE channel
    /\ UNCHANGED <<ended, board, snapshot, missed, subscribed, bcast, hiccups, hubVars, shown, asked>>

(* The ingester dies and is started again: both goroutines begin anew, and *)
(* nobody takes up a publication that was cut off.                         *)
Crash ==
    /\ Fault
    /\ \E g \in Goroutines : publisher[g].at # "idle"
    /\ publisher' = [g \in Goroutines |-> [at |-> "idle", rows |-> {}]]
    /\ missed' = missed \cup (board \ Stored)
    /\ UNCHANGED <<ended, board, snapshot, channel, subscribed, bcast, hubVars, shown, asked>>

-----------------------------------------------------------------------------
(* The gateway. *)
(* pumpEvents(): hub.bcast <- msg blocks while the channel is full. *)
Pump ==
    /\ channel # <<>>
    /\ Len(bcast) < BcastCap
    /\ channel' = Tail(channel)
    /\ bcast' = Append(bcast, Head(channel))
    /\ UNCHANGED <<storeVars, subscribed, hiccups, hubVars, shown, asked>>

Hiccup ==
    /\ subscribed
    /\ Fault
    /\ subscribed' = FALSE
    /\ UNCHANGED <<storeVars, channel, bcast, hubVars, shown, asked>>

Resubscribe ==
    /\ ~subscribed
    /\ subscribed' = TRUE
    /\ UNCHANGED <<storeVars, channel, bcast, hiccups, hubVars, shown, asked>>

(* hub.run() takes a message and the mutex. *)
Broadcast ==
    /\ ~fan.busy
    /\ bcast # <<>>
    /\ bcast' = Tail(bcast)
    /\ fan' = [busy |-> TRUE, msg |-> Head(bcast), todo |-> clients]
    /\ UNCHANGED <<storeVars, channel, subscribed, hiccups, clients, conn, shown, asked>>

Shows(p, b) == shown' = [shown EXCEPT ![p] = b]

(* WriteMessage() succeeds; what is written to a dead socket is lost. *)
FanOut(c) ==
    /\ fan.busy /\ c \in fan.todo
    /\ fan' = [fan EXCEPT !.todo = @ \ {c}]
    /\ IF conn[c].up THEN Shows(c[1], fan.msg) ELSE UNCHANGED shown
    /\ UNCHANGED <<storeVars, relayVars, clients, conn, asked>>

(* The write fails or takes five seconds: Close(), and out of the map. *)
FanOutFails(c) ==
    /\ fan.busy /\ c \in fan.todo
    /\ fan' = [fan EXCEPT !.todo = @ \ {c}]
    /\ clients' = clients \ {c}
    /\ conn' = [conn EXCEPT ![c].up = FALSE]
    /\ UNCHANGED <<storeVars, relayVars, shown, asked>>

Unlock ==
    /\ fan.busy /\ fan.todo = {}
    /\ fan' = Quiet
    /\ UNCHANGED <<storeVars, relayVars, clients, conn, shown, asked>>

Handler(c, from, to) ==
    /\ conn[c].at = from
    /\ conn' = [conn EXCEPT ![c].at = to]
    /\ UNCHANGED <<storeVars, relayVars, fan, asked>>

(* A page connects, or connects again once its socket is closed. *)
Upgrade(c) ==
    /\ conn[c].at = "none"
    /\ c[2] > 1 => conn[<<c[1], c[2] - 1>>].at # "none" /\ ~conn[<<c[1], c[2] - 1>>].up
    /\ conn' = [conn EXCEPT ![c].at = "upgraded", ![c].up = TRUE]
    /\ UNCHANGED <<storeVars, relayVars, clients, fan, shown, asked>>

(* GET leaderboard:snapshot; without one there is nothing to write. *)
GetSnapshot(c) ==
    /\ conn[c].at = "upgraded"
    /\ conn' = [conn EXCEPT ![c].at = IF snapshot = None THEN "written" ELSE "got",
                            ![c].snap = snapshot]
    /\ UNCHANGED <<storeVars, relayVars, clients, fan, shown, asked>>

WriteSnapshot(c) ==
    /\ Handler(c, "got", "written")
    /\ IF conn[c].up THEN Shows(c[1], conn[c].snap) ELSE UNCHANGED shown
    /\ UNCHANGED clients

(* Mutant of Add: the connection joins the hub first. *)
AddFirst(c) ==
    /\ conn[c].at \in {"upgraded", "written"}
    /\ conn' = [conn EXCEPT ![c].at = IF @ = "written" THEN "added" ELSE @]
    /\ ~fan.busy
    /\ clients' = clients \cup {c}
    /\ UNCHANGED <<storeVars, relayVars, fan, shown, asked>>

(* hub.add(), and the reader starts. *)
Add(c) ==
    /\ Handler(c, "written", "added")
    /\ ~fan.busy
    /\ clients' = clients \cup {c}
    /\ UNCHANGED shown

SocketDrops(c) ==
    /\ conn[c].up
    /\ conn' = [conn EXCEPT ![c].up = FALSE]
    /\ UNCHANGED <<storeVars, relayVars, clients, fan, shown, asked>>

(* ReadMessage() returns an error. *)
ReadFails(c) ==
    /\ ~conn[c].up
    /\ Handler(c, "added", "leaving")
    /\ UNCHANGED <<clients, shown>>

(* Mutant of Remove: the reader gives up when the mutex is taken. *)
RemoveIfFree(c) ==
    /\ Handler(c, "leaving", "gone")
    /\ clients' = IF fan.busy THEN clients ELSE clients \ {c}
    /\ UNCHANGED shown

(* The deferred hub.remove() and Close(). *)
Remove(c) ==
    /\ Handler(c, "leaving", "gone")
    /\ ~fan.busy
    /\ clients' = clients \ {c}
    /\ UNCHANGED shown

HandlerStep(c) ==
    GetSnapshot(c) \/ WriteSnapshot(c) \/ Add(c) \/ ReadFails(c) \/ Remove(c)

-----------------------------------------------------------------------------
(* The page: every 2.5 s GET /api/leaderboard, which answers with the      *)
(* stored snapshot, or with an empty board if there is none.  Polls that   *)
(* overlap are one poll here.                                              *)
Ask(p) ==
    /\ Polling
    /\ asked[p] = None
    /\ asked' = [asked EXCEPT ![p] = Stored]
    /\ UNCHANGED <<storeVars, relayVars, hubVars, shown>>

Render(p) ==
    /\ asked[p] # None
    /\ asked' = [asked EXCEPT ![p] = None]
    /\ Shows(p, asked[p])
    /\ UNCHANGED <<storeVars, relayVars, hubVars>>

PollFails(p) ==
    /\ asked[p] # None
    /\ Fault
    /\ asked' = [asked EXCEPT ![p] = None]
    /\ UNCHANGED <<storeVars, channel, subscribed, bcast, hubVars, shown>>

PublisherStep(g) ==
    ReadBoard(g) \/ ReadBoardFails(g) \/ SetSnapshot(g) \/ SetSnapshotFails(g) \/ Publish(g)
HubStep == Broadcast \/ (\E c \in Conns : FanOut(c) \/ FanOutFails(c)) \/ Unlock

Next ==
    \/ \E g \in Goroutines : Verdict(g) \/ PublisherStep(g)
    \/ Crash
    \/ Pump \/ Hiccup \/ Resubscribe
    \/ HubStep
    \/ \E c \in Conns : Upgrade(c) \/ HandlerStep(c) \/ SocketDrops(c)
    \/ \E p \in Pages : Ask(p) \/ Render(p) \/ PollFails(p)

(* Goroutines and timers run on; nothing obliges a run to end, a page to   *)
(* connect, a socket to drop or the ingester to die.                       *)
Fairness ==
    /\ \A g \in Goroutines : WF_vars(PublisherStep(g))
    /\ WF_vars(Pump) /\ WF_vars(Resubscribe) /\ WF_vars(HubStep)
    /\ \A c \in Conns : SF_vars(HandlerStep(c))
    /\ \A p \in Pages : WF_vars(Ask(p)) /\ WF_vars(Render(p))

Spec == Init /\ [][Next]_vars /\ Fairness

-----------------------------------------------------------------------------
(* The websocket library allows one writer at a time per connection.       *)
(* ws() writes without the mutex and hub.run() with it, so a connection    *)
(* must not be in the hub while its handler can still write.               *)
OneWriter == \A c \in clients : conn[c].at \notin {"none", "upgraded", "got"}

(* A closed websocket does not stay in the hub: whoever notices first, the *)
(* reader or a failed write, and whoever holds the mutex.                  *)
ClosedSocketsLeave ==
    \A c \in Conns : conn[c].at = "added" /\ ~conn[c].up ~> c \notin clients

(* Whatever is lost on the way (a hiccup of the subscription, a failed     *)
(* poll, a dead socket, an update between GET and hub.add), every page     *)
(* shows the whole board in the end, but for the verdicts that             *)
(* publishSnapshot() kept out of the stored snapshot: its ZREVRANGE or SET *)
(* failed, the ingester died between ZADD and SET, or one goroutine wrote  *)
(* an older board over the other's, and no later publication made up for   *)
(* it.                                                                     *)
PagesCatchUp == <>[](\A p \in Pages : shown[p] = board \ missed)

(* "WS clients all receive the same pub/sub feed": pages whose sockets     *)
(* stay up end up with the same board, without polling.                    *)
SameFeed ==
    \/ []<>(\E c \in Conns : ~conn[c].up)
    \/ <>[](\A p, q \in Pages : shown[p] = shown[q])

(* Whenever no goroutine is in publishSnapshot(), the snapshot that ws()   *)
(* and the leaderboard handler serve is the board, but for missed verdicts.*)
SnapshotComplete ==
    (\A g \in Goroutines : publisher[g].at = "idle") => Stored = board \ missed

(* "live snapshot pub/sub": once the publishers are done, the stored       *)
(* snapshot is the board.                                                  *)
SnapshotCurrent ==
    (board # {} /\ \A g \in Goroutines : publisher[g].at = "idle") => snapshot = board
=============================================================================
