------------------------------- MODULE PeerToPeer ------------------------------
(* Direct messages between two users: the hybrid transport, its pool of peer   *)
(* connections, the signalling relayed by the gateway to every page of a user, *)
(* and the relay it falls back to.  WebRTC itself is external: a connection    *)
(* with both descriptions may open or not, a frame may be given up, and the    *)
(* close event of a channel closed here or there comes later or, for one closed *)
(* here together with its connection, perhaps never.                           *)
EXTENDS Naturals, FiniteSets, Sequences, SequencesExt

CONSTANTS
    Pages,    \* pages of the two users
    UserOf,
    Messages,
    PageOf,   \* the page a message is written on
    Mode,     \* dmTransportMode when it is written: "auto" or "p2p"
    MaxPcs,   \* bound: RTCPeerConnections made
    NoPage,
    Scopes    \* what an instance may choose: its pages, messages and faults

Pcs == 1 .. MaxPcs

ASSUME PeerAssumption ==
    /\ PageOf \in [Messages -> Pages] /\ Mode \in [Messages -> {"auto", "p2p"}]
    /\ MaxPcs \in Nat /\ NoPage \notin Pages
    /\ Scopes \subseteq [pages : SUBSET Pages, msgs : SUBSET Messages, faults : SUBSET {"net", "leave"}]

VARIABLES
    scope,
    pcs,     \* peer connections, with their data channel
    conn, chan, \* by page, the pool's connections and dataChannels, 0 for none
    cooling, \* by page, a failure less than P2P_RELAY_COOLDOWN_MS ago
    net,     \* by page, the signals on their way
    making,  \* connections whose description is being made
    closes,  \* close events still to come
    wire,    \* by connection, the frames on their way to its page
    send,    \* by message, where sendMessage and submit are
    got,     \* by page, the messages taken from a data channel
    rows,    \* messages the server has stored
    told,    \* by message, how often message.created was announced
    lost,    \* history: frames that went with a channel or were given up
    robbed   \* history: pages whose channel an earlier one's end took away

pool == <<pcs, conn, chan, cooling, making, closes, wire>>
peerVars == <<scope, pool, net, send, got, rows, told, lost, robbed>>
-------------------------------------------------------------------------------
May(f)   == f \in scope.faults
Peers(p) == {q \in scope.pages : UserOf[q] # UserOf[p]}
Blank    == [owner |-> NoPage, side |-> "none", mate |-> 0, live |-> FALSE, dc |-> "none"]
New      == CHOOSE x \in Pcs : pcs[x] = Blank
Spare    == \E x \in Pcs : pcs[x] = Blank
HasOpen(p) == chan[p] # 0 /\ pcs[chan[p]].dc = "open"

PeerInit ==
    /\ scope \in Scopes
    /\ pcs = [x \in Pcs |-> Blank]
    /\ conn = [p \in Pages |-> 0] /\ chan = [p \in Pages |-> 0]
    /\ cooling = [p \in Pages |-> FALSE]
    /\ net = [p \in Pages |-> <<>>] /\ making = {} /\ closes = {}
    /\ wire = [x \in Pcs |-> <<>>]
    /\ send = [m \in Messages |-> [at |-> "idle", pc |-> 0]]
    /\ got = [p \in Pages |-> {}] /\ rows = {} /\ told = [m \in Messages |-> 0]
    /\ lost = {} /\ robbed = {}

Signal(p, e) == net' = [q \in Pages |-> IF q \in Peers(p) THEN Append(net[q], e) ELSE net[q]]
-------------------------------------------------------------------------------
\* Two ends are one channel once each knows of the other.
Mate(x) == LET y == pcs[x].mate IN IF y # 0 /\ pcs[y].mate = x THEN y ELSE 0

\* pool.close: the channel and the connection are closed and forgotten; what
\* was on the wire is lost, and the other end is told.
Shut(x, ps) ==
    [y \in Pcs |-> IF y = x THEN [ps[y] EXCEPT !.live = FALSE, !.dc = IF @ = "none" THEN @ ELSE "closed"]
                   ELSE IF x # 0 /\ y = Mate(x) /\ ps[y].dc = "open" THEN [ps[y] EXCEPT !.dc = "closed"] ELSE ps[y]]
Ends(x) == IF x = 0 THEN {} ELSE {x, Mate(x)} \ {0}
Told(x) == {y \in Ends(x) : y # x /\ pcs[y].dc = "open"}
OwnEnd(x, p) == IF x # 0 /\ chan[p] = x THEN {x} ELSE {}
Lose(x) ==
    /\ wire' = [y \in Pcs |-> IF y \in Ends(x) THEN <<>> ELSE wire[y]]
    /\ lost' = lost \cup UNION {ToSet(wire[y]) : y \in Ends(x)}

\* Mutant: the connection before is not closed.
Replace_LeavesOld(p, side, mate, dc) ==
    /\ Spare
    /\ pcs' = [pcs EXCEPT ![New] =
                 [owner |-> p, side |-> side, mate |-> mate, live |-> TRUE, dc |-> dc]]
    /\ conn' = [conn EXCEPT ![p] = New]
    /\ chan' = [chan EXCEPT ![p] = IF dc = "none" THEN 0 ELSE New]
    /\ making' = making \cup {New}
    /\ UNCHANGED <<closes, wire, lost>>

\* A new connection takes the place of the page's present one.
Replace(p, side, mate, dc) ==
    /\ Spare
    /\ pcs' = [Shut(conn[p], pcs) EXCEPT ![New] =
                 [owner |-> p, side |-> side, mate |-> mate, live |-> TRUE, dc |-> dc]]
    /\ conn' = [conn EXCEPT ![p] = New]
    /\ chan' = [chan EXCEPT ![p] = IF dc = "none" THEN 0 ELSE New]
    /\ making' = making \cup {New}
    /\ \E own \in SUBSET OwnEnd(conn[p], p) : closes' = closes \cup Told(conn[p]) \cup own
    /\ Lose(conn[p])
-------------------------------------------------------------------------------
\* sendViaP2p: ok as soon as the frame is given to the channel.
Give(m, x) ==
    /\ wire' = IF Mate(x) = 0 THEN wire ELSE [wire EXCEPT ![Mate(x)] = Append(@, m)]
    /\ send' = [send EXCEPT ![m] = [at |-> "direct", pc |-> x]]

\* sendMessage up to its first await.
Submit(m) ==
    LET p == PageOf[m]
    IN  /\ m \in scope.msgs /\ send[m].at = "idle"
        /\ \/ HasOpen(p) /\ Give(m, chan[p]) /\ UNCHANGED <<pcs, conn, chan, making, closes, lost, cooling>>
           \/ /\ HasOpen(p) /\ May("net")    \* dc.send throws
              /\ cooling' = [cooling EXCEPT ![p] = TRUE] /\ send' = [send EXCEPT ![m].at = "relaying"]
              /\ UNCHANGED <<pcs, conn, chan, making, closes, wire, lost>>
           \/ /\ ~HasOpen(p) /\ ~cooling[p] /\ Replace(p, "offer", 0, "connecting")
              /\ send' = [send EXCEPT ![m] = [at |-> "offering", pc |-> New]] /\ UNCHANGED cooling
           \/ /\ ~HasOpen(p) /\ cooling[p] /\ send' = [send EXCEPT ![m].at = "relaying"]
              /\ UNCHANGED <<pcs, conn, chan, making, closes, wire, lost, cooling>>
        /\ UNCHANGED <<scope, net, got, rows, told, robbed>>

\* createOffer has resolved; it throws for a connection closed meanwhile.
Offer(m) ==
    LET x == send[m].pc  p == PageOf[m]
    IN  /\ send[m].at = "offering" /\ send' = [send EXCEPT ![m].at = "waiting"]
        /\ making' = making \ {x}
        /\ IF pcs[x].live THEN Signal(p, [t |-> "offer", pc |-> x]) /\ UNCHANGED cooling
                          ELSE cooling' = [cooling EXCEPT ![p] = TRUE] /\ UNCHANGED net
        /\ UNCHANGED <<scope, pcs, conn, chan, closes, wire, got, rows, told, lost, robbed>>

\* Mutant: having sent over the channel, the submit goes on to the relay.
Check_RelaysToo(m) ==
    /\ send[m].at = "waiting" /\ HasOpen(PageOf[m])
    /\ wire' = [wire EXCEPT ![Mate(chan[PageOf[m]])] = Append(@, m)]
    /\ send' = [send EXCEPT ![m] = [at |-> "relaying", pc |-> chan[PageOf[m]]]]
    /\ UNCHANGED <<scope, pcs, conn, chan, cooling, making, closes, net, got, rows, told, lost, robbed>>

\* waitForConnection looks every 100 ms for any open channel ...
Check(m) ==
    /\ send[m].at = "waiting" /\ HasOpen(PageOf[m]) /\ Give(m, chan[PageOf[m]])
    /\ UNCHANGED <<scope, pcs, conn, chan, cooling, making, closes, net, got, rows, told, lost, robbed>>

\* ... and gives up after P2P_CONNECTION_TIMEOUT_MS.
Timeout(m) ==
    /\ send[m].at = "waiting" /\ ~HasOpen(PageOf[m])
    /\ send' = [send EXCEPT ![m].at = "relaying"]
    /\ cooling' = [cooling EXCEPT ![PageOf[m]] = TRUE]
    /\ UNCHANGED <<scope, pcs, conn, chan, making, closes, wire, net, got, rows, told, lost, robbed>>

\* message.send, which stores a message once and announces it every time; it is
\* refused by the limiter or for want of access.  In auto mode submit then says
\* it again, whatever the answer was; in p2p mode it stops there.
Then(m)  == IF send[m].at = "relaying" /\ Mode[m] = "auto" THEN "again" ELSE "relayed"
Relay(m) ==
    /\ send[m].at \in {"relaying", "again"}
    /\ rows' = rows \cup {m} /\ told' = [told EXCEPT ![m] = @ + 1]
    /\ send' = [send EXCEPT ![m].at = Then(m)]
    /\ UNCHANGED <<scope, pool, net, got, lost, robbed>>

RelayRefused(m) ==
    /\ May("net") /\ send[m].at \in {"relaying", "again"}
    /\ send' = [send EXCEPT ![m].at = Then(m)]
    /\ UNCHANGED <<scope, pool, net, got, rows, told, lost, robbed>>
-------------------------------------------------------------------------------
Next1(p) == net' = [net EXCEPT ![p] = Tail(@)]

\* handleOffer, whatever connection the page has.
HandleOffer(p) ==
    /\ net[p] # <<>> /\ Head(net[p]).t = "offer"
    /\ Replace(p, "answer", Head(net[p]).pc, "none") /\ Next1(p)
    /\ UNCHANGED <<scope, cooling, send, got, rows, told, robbed>>

\* handleOffer has resolved.
Answer(x) ==
    LET p == pcs[x].owner
    IN  /\ x \in making /\ pcs[x].side = "answer" /\ making' = making \ {x}
        /\ IF pcs[x].live THEN Signal(p, [t |-> "answer", pc |-> x]) /\ UNCHANGED cooling
                          ELSE cooling' = [cooling EXCEPT ![p] = TRUE] /\ UNCHANGED net
        /\ UNCHANGED <<scope, pcs, conn, chan, closes, wire, send, got, rows, told, lost, robbed>>

\* handleAnswer: setRemoteDescription wants a connection that has offered and
\* has had no answer.
HandleAnswer(p) ==
    LET x == conn[p]  ok == pcs[x].side = "offer" /\ pcs[x].mate = 0 /\ x \notin making
    IN  /\ net[p] # <<>> /\ Head(net[p]).t = "answer" /\ Next1(p)
        /\ pcs' = IF x # 0 /\ ok THEN [pcs EXCEPT ![x].mate = Head(net[p]).pc] ELSE pcs
        /\ cooling' = IF x # 0 /\ ~ok THEN [cooling EXCEPT ![p] = TRUE] ELSE cooling
        /\ UNCHANGED <<scope, conn, chan, making, closes, wire, send, got, rows, told, lost, robbed>>

\* onopen at one end; the answering end learns of its channel only now.
Open(x) ==
    LET y == Mate(x)  p == pcs[x].owner
    IN  /\ y # 0 /\ pcs[x].live /\ pcs[y].live /\ pcs[x].dc \in {"none", "connecting"}
        /\ pcs[y].dc # "closed"
        /\ pcs' = [pcs EXCEPT ![x].dc = "open"]
        /\ chan' = IF pcs[x].side = "answer" THEN [chan EXCEPT ![p] = x] ELSE chan
        /\ cooling' = [cooling EXCEPT ![p] = FALSE]
        /\ UNCHANGED <<scope, conn, making, closes, wire, net, send, got, rows, told, lost, robbed>>

\* onclose deletes the page's channel, whichever it is now, and with the state
\* of the peer the time of its last failure.
OnClose(x) ==
    LET p == pcs[x].owner
    IN  /\ x \in closes /\ closes' = closes \ {x}
        /\ chan' = [chan EXCEPT ![p] = 0] /\ cooling' = [cooling EXCEPT ![p] = FALSE]
        /\ robbed' = IF chan[p] \notin {0, x} THEN robbed \cup {p} ELSE robbed
        /\ UNCHANGED <<scope, pcs, conn, making, wire, net, send, got, rows, told, lost>>

\* onconnectionstatechange and onerror mark a failure and close nothing.
Fail(p) ==
    /\ May("net") /\ conn[p] # 0 /\ ~cooling[p] /\ cooling' = [cooling EXCEPT ![p] = TRUE]
    /\ UNCHANGED <<scope, pcs, conn, chan, making, closes, wire, net, send, got, rows, told, lost, robbed>>

CoolDown(p) ==
    /\ cooling[p] /\ cooling' = [cooling EXCEPT ![p] = FALSE]
    /\ UNCHANGED <<scope, pcs, conn, chan, making, closes, wire, net, send, got, rows, told, lost, robbed>>

\* handleIncomingP2pMessage; its acknowledgement is ignored by the sender.
Receive(x) ==
    /\ wire[x] # <<>> /\ pcs[x].dc = "open"
    /\ wire' = [wire EXCEPT ![x] = Tail(@)]
    /\ got' = [got EXCEPT ![pcs[x].owner] = @ \cup {Head(wire[x])}]
    /\ UNCHANGED <<scope, pcs, conn, chan, cooling, making, closes, net, send, rows, told, lost, robbed>>

\* maxRetransmits: 3 -- the channel gives a frame up.
GiveUp(x) ==
    /\ May("net") /\ wire[x] # <<>>
    /\ wire' = [wire EXCEPT ![x] = Tail(@)] /\ lost' = lost \cup {Head(wire[x])}
    /\ UNCHANGED <<scope, pcs, conn, chan, cooling, making, closes, net, send, got, rows, told, robbed>>

\* The effect is cleaned up and run again: another pool, another transport.
\* What waits for the old socket's answer waits for ever.
Leave(p) ==
    /\ May("leave") /\ conn[p] # 0
    /\ pcs' = Shut(conn[p], pcs) /\ Lose(conn[p]) /\ closes' = closes \cup Told(conn[p])
    /\ conn' = [conn EXCEPT ![p] = 0] /\ chan' = [chan EXCEPT ![p] = 0]
    /\ cooling' = [cooling EXCEPT ![p] = FALSE]
    /\ net' = [net EXCEPT ![p] = <<>>]
    /\ send' = [m \in Messages |-> IF PageOf[m] = p /\ send[m].at \in {"offering", "waiting", "relaying"}
                                   THEN [send[m] EXCEPT !.at = "stuck"] ELSE send[m]]
    /\ UNCHANGED <<scope, making, got, rows, told, robbed>>
-------------------------------------------------------------------------------
PeerNext ==
    \/ \E m \in Messages :
        Submit(m) \/ Offer(m) \/ Check(m) \/ Timeout(m) \/ Relay(m) \/ RelayRefused(m)
    \/ \E p \in scope.pages :
        HandleOffer(p) \/ HandleAnswer(p) \/ Fail(p) \/ CoolDown(p) \/ Leave(p)
    \/ \E x \in Pcs : Answer(x) \/ Open(x) \/ OnClose(x) \/ Receive(x) \/ GiveUp(x)

PeerSpec == PeerInit /\ [][PeerNext]_peerVars
-------------------------------------------------------------------------------
\* pool.ts:24 "One RTCPeerConnection per peer userId (calling createOffer twice
\* closes the old one)": no connection of a page lives beside the one its pool
\* knows, the channel in the pool is that connection's, and an open channel of
\* it is in the pool unless the end of an earlier one took it out.
OneConnection ==
    /\ \A x \in Pcs : pcs[x].live => conn[pcs[x].owner] = x
    /\ \A p \in Pages :
        /\ chan[p] \in {0, conn[p]}
        /\ conn[p] # 0 /\ pcs[conn[p]].dc = "open" /\ chan[p] = 0 => p \in robbed

\* transport.ts:4-10: a message goes by one path.  Given to a channel it is
\* never relayed, and is with a page of the peer, on its way, or gone with the
\* channel; otherwise it is stored once, however often it is announced.
Taken(m) == (\E p \in Pages : m \in got[p]) \/ m \in lost \/ \E x \in Pcs : m \in ToSet(wire[x])
OnePath ==
    \A m \in Messages :
        /\ send[m].at = "direct" => m \notin rows /\ (Taken(m) \/ Mate(send[m].pc) = 0)
        /\ send[m].at # "direct" => ~Taken(m)
        /\ told[m] <= (IF Mode[m] = "auto" THEN 2 ELSE 1)
===============================================================================
