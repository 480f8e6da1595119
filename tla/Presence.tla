------------------------------- MODULE Presence -------------------------------
(* Who is online and who is typing: the connections of ws/socket.ts, their    *)
(* reference count and rooms, the ephemeral events of ws/gateway.ts with its   *)
(* rate limiter, and what the programs attached make of them.                 *)
EXTENDS Naturals, FiniteSets, Sequences, SequencesExt

CONSTANTS
    Users, Workspaces,
    Channels,   \* channels; all but Fresh exist from the start
    Fresh,      \* the channel a program may create
    None,
    Webs, Tuis, \* the programs: web pages and terminals
    Socks,      \* connections; each is made once
    UserOf,     \* the user of a program
    ProgOf,     \* the program of a connection
    Member,     \* by user, the workspaces he is a member of
    MaxEvents,  \* events per window of the limiter
    MaxQueue,   \* bound: events on one connection when another is said
    Scopes      \* the operations, connections and typists an instance may choose

Programs == Webs \cup Tuis

ASSUME PresenceAssumption ==
    /\ Webs \cap Tuis = {} /\ Fresh \in Channels /\ None \notin Channels
    /\ UserOf \in [Programs -> Users] /\ ProgOf \in [Socks -> Programs]
    /\ Member \in [Users -> SUBSET Workspaces]
    /\ Scopes \subseteq [ops : SUBSET {"drop", "create", "window"}, socks : SUBSET Socks, ready : SUBSET Socks, typists : SUBSET Programs]
    /\ \A x \in Scopes : x.ready \subseteq x.socks /\ IsFiniteSet(x.ready)
    /\ \A x \in Scopes : \A s, t \in x.ready : ProgOf[s] = ProgOf[t] => s = t
    /\ MaxEvents \in Nat /\ MaxQueue \in Nat \ {0}
    /\ Workspaces \cap Channels = {} /\ Channels # {Fresh}

VARIABLES
    scope,   \* the operations, connections and typists of this behaviour
    refs,    \* store.onlineConnections, 0 for no entry
    sock,    \* the connection handler of socket.ts:80
    rooms, inbox, outbox,
    updates, \* presence.update events waiting for the list of workspaces
    bucket,  \* by user, the events counted in this window
    chans,   \* channels that exist
    shown,   \* by program, onlineUserIds
    typed,   \* by program, typingUsers
    typing,  \* isTypingRef
    timer,   \* the pending timeout, by the channel its closure was made for
    active,  \* the channel on screen
    stale,   \* history: presence of a user that a program was not told of
    unsaid   \* history: a stop of a user that a program was not told of

server == <<refs, sock, rooms, inbox, outbox, updates, bucket, chans>>
client == <<shown, typed, typing, timer, active>>
vars   == <<scope, server, client, stale, unsaid>>
-------------------------------------------------------------------------------
U(s)     == UserOf[ProgOf[s]]
Here     == {ProgOf[s] : s \in scope.socks}
May(op)  == op \in scope.ops
Alive(p) == {s \in scope.socks : sock[s].alive /\ ProgOf[s] = p}
Connected(p) == Alive(p) # {}
SocketOf(p)  == CHOOSE s \in Alive(p) : TRUE

Presence(u, on)  == [t |-> "presence", u |-> u, on |-> on]
Typing(u, c, on) == [t |-> "typing", u |-> u, c |-> c, on |-> on]

\* io.to(room).emit for several rooms: one socket gets one event for each.
Emit(box, rs, e) ==
    [s \in Socks |-> IF sock[s].alive /\ rooms[s] \cap rs # {} THEN Append(box[s], e) ELSE box[s]]
Deaf(rs) == {p \in Here : ~\E s \in Alive(p) : rooms[s] \cap rs # {}}
\* Programs that may go on showing u when an event of his passes them by.
Shows(p, u) == u \in shown[p] \/ \E s \in Alive(p) : \E i \in DOMAIN inbox[s] : inbox[s][i].u = u

Idle == [at |-> "unused", alive |-> FALSE, first |-> FALSE, ws |-> {}]

\* Connections may be open already, their programs knowing of each other.
Online == {U(s) : s \in scope.ready}

Init ==
    /\ scope \in Scopes
    /\ refs = [u \in Users |-> Cardinality({s \in scope.ready : U(s) = u})]
    /\ sock = [s \in Socks |-> IF s \in scope.ready
                 THEN [at |-> "open", alive |-> TRUE, first |-> FALSE, ws |-> Member[U(s)]] ELSE Idle]
    /\ rooms = [s \in Socks |-> IF s \in scope.ready THEN Member[U(s)] \cup (Channels \ {Fresh}) ELSE {}]
    /\ inbox = [s \in Socks |-> <<>>] /\ outbox = [s \in Socks |-> <<>>]
    /\ updates = {} /\ bucket = [u \in Users |-> 0] /\ chans = Channels \ {Fresh}
    /\ shown = [p \in Programs |-> IF p \in {ProgOf[s] : s \in scope.ready} THEN Online ELSE {}]
    /\ typed = [p \in Programs |-> [u \in Users |-> None]]
    /\ typing = [p \in Programs |-> FALSE] /\ timer = [p \in Programs |-> None]
    /\ active = [p \in Programs |-> CHOOSE c \in Channels \ {Fresh} : TRUE]
    /\ stale = {} /\ unsaid = {}
-------------------------------------------------------------------------------
\* Every program says online once it is connected.
Hello(s) == <<Presence(U(s), TRUE)>>

\* The handler up to its first await.
Connect(s) ==
    /\ s \in scope.socks /\ sock[s] = Idle /\ ~Connected(ProgOf[s])
    /\ refs' = [refs EXCEPT ![U(s)] = @ + 1]
    /\ sock' = [sock EXCEPT ![s] = [@ EXCEPT !.at = "opening", !.alive = TRUE, !.first = refs[U(s)] = 0]]
    /\ outbox' = [outbox EXCEPT ![s] = Hello(s)]
    /\ UNCHANGED <<scope, rooms, inbox, updates, bucket, chans, client, stale, unsaid>>

\* listWorkspaces has answered.
JoinWorkspaces(s) ==
    /\ sock[s].at = "opening"
    /\ sock' = [sock EXCEPT ![s] = [@ EXCEPT !.at = "listed", !.ws = Member[U(s)]]]
    /\ rooms' = IF sock[s].alive THEN [rooms EXCEPT ![s] = Member[U(s)]] ELSE rooms
    /\ UNCHANGED <<scope, refs, inbox, outbox, updates, bucket, chans, client, stale, unsaid>>

\* Mutant: nobody tells a new socket who is online.
Open_NoSnapshot(s) ==
    /\ sock[s].at = "listed"
    /\ sock' = [sock EXCEPT ![s].at = "open"]
    /\ rooms' = IF sock[s].alive THEN [rooms EXCEPT ![s] = @ \cup chans] ELSE rooms
    /\ inbox' = IF sock[s].first THEN Emit(inbox, sock[s].ws, Presence(U(s), TRUE)) ELSE inbox
    /\ UNCHANGED <<scope, refs, outbox, updates, bucket, chans, client, stale, unsaid>>

\* listChannels has answered: the rest of the handler runs whether or not the
\* socket is still there; only now does it listen to events and to the end.
Open(s) ==
    LET others == SetToSeq({u \in Users : refs[u] > 0} \ {U(s)})
        told   == [i \in DOMAIN others |-> Presence(others[i], TRUE)]
        box    == IF sock[s].alive THEN [inbox EXCEPT ![s] = @ \o told] ELSE inbox
    IN  /\ sock[s].at = "listed"
        /\ sock' = [sock EXCEPT ![s].at = "open"]
        /\ rooms' = IF sock[s].alive THEN [rooms EXCEPT ![s] = @ \cup chans] ELSE rooms
        /\ inbox' = IF sock[s].first THEN Emit(box, sock[s].ws, Presence(U(s), TRUE)) ELSE box
        /\ UNCHANGED <<scope, refs, outbox, updates, bucket, chans, client, stale, unsaid>>

\* What a socket that ends takes with it.
Lost(s) ==
    LET stops == {i \in DOMAIN outbox[s] : outbox[s][i].t = "typing"}
        ends  == {inbox[s][i] : i \in DOMAIN inbox[s]}
    IN  /\ stale' = stale \cup {<<ProgOf[s], e.u>> : e \in {x \in ends : x.t = "presence"}}
        /\ unsaid' = unsaid \cup {<<ProgOf[s], e.u>> : e \in {x \in ends : x.t = "typing"}}
                            \cup (IF stops # {} THEN Here \X {U(s)} ELSE {})

\* Mutant: a socket is counted down though its handler was never registered.
Drop_Uncounted(s) ==
    /\ May("drop") /\ sock[s].alive
    /\ refs' = [refs EXCEPT ![U(s)] = @ - 1]
    /\ sock' = [sock EXCEPT ![s] =
                  [@ EXCEPT !.alive = FALSE,
                            !.at = IF sock[s].at # "open" THEN sock[s].at ELSE IF refs[U(s)] <= 1 THEN "leaving" ELSE "gone"]]
    /\ rooms' = [rooms EXCEPT ![s] = {}]
    /\ inbox' = [inbox EXCEPT ![s] = <<>>] /\ outbox' = [outbox EXCEPT ![s] = <<>>]
    /\ Lost(s)
    /\ UNCHANGED <<scope, updates, bucket, chans, client>>

\* The connection ends; a handler that still awaits its lists never knows.
Drop(s) ==
    /\ May("drop") /\ sock[s].alive
    /\ refs' = IF sock[s].at = "open" THEN [refs EXCEPT ![U(s)] = @ - 1] ELSE refs
    /\ sock' = [sock EXCEPT ![s] =
                  [@ EXCEPT !.alive = FALSE,
                            !.at = IF sock[s].at # "open" THEN sock[s].at ELSE IF refs[U(s)] <= 1 THEN "leaving" ELSE "gone"]]
    /\ rooms' = [rooms EXCEPT ![s] = {}]
    /\ inbox' = [inbox EXCEPT ![s] = <<>>] /\ outbox' = [outbox EXCEPT ![s] = <<>>]
    /\ Lost(s)
    /\ UNCHANGED <<scope, updates, bucket, chans, client>>

\* The offline event, after another list of workspaces.
AnnounceOffline(s) ==
    /\ sock[s].at = "leaving"
    /\ sock' = [sock EXCEPT ![s].at = "gone"]
    /\ inbox' = Emit(inbox, Member[U(s)], Presence(U(s), FALSE))
    /\ stale' = stale \cup {<<p, U(s)>> : p \in
                    {q \in Here : refs[U(s)] > 0 \/ (q \in Deaf(Member[U(s)]) /\ Shows(q, U(s)))}}
    /\ UNCHANGED <<scope, refs, rooms, outbox, updates, bucket, chans, client, unsaid>>
-------------------------------------------------------------------------------
\* handleClientEnvelope for what is not stored, in the order it was sent.
Handle(s) ==
    LET e  == Head(outbox[s])
        ok == sock[s].at = "open" /\ bucket[U(s)] < MaxEvents
        rs == IF e.t = "typing" THEN {e.c} ELSE {}
    IN  /\ sock[s].alive /\ outbox[s] # <<>>
        /\ outbox' = [outbox EXCEPT ![s] = Tail(@)]
        /\ bucket' = IF ok THEN [bucket EXCEPT ![U(s)] = @ + 1] ELSE bucket
        /\ inbox' = IF ok /\ e.t = "typing" THEN Emit(inbox, rs, e) ELSE inbox
        /\ updates' = IF ok /\ e.t = "presence" THEN updates \cup {U(s)} ELSE updates
        /\ unsaid' = IF e.t = "typing" /\ ~e.on
                     THEN unsaid \cup ((IF ok THEN Deaf(rs) ELSE Here) \X {U(s)}) ELSE unsaid
        /\ UNCHANGED <<scope, refs, sock, rooms, chans, client, stale>>

\* presence.update is announced after its list of workspaces, whoever has gone.
AnnounceUpdate(u) ==
    /\ u \in updates /\ updates' = updates \ {u}
    /\ inbox' = Emit(inbox, Member[u], Presence(u, TRUE))
    /\ stale' = IF refs[u] = 0 THEN stale \cup (Here \X {u}) ELSE stale
    /\ UNCHANGED <<scope, refs, sock, rooms, outbox, bucket, chans, client, unsaid>>

\* The window of the limiter passes.
NewWindow(u) ==
    /\ May("window") /\ bucket[u] > 0 /\ bucket' = [bucket EXCEPT ![u] = 0]
    /\ UNCHANGED <<scope, refs, sock, rooms, inbox, outbox, updates, chans, client, stale, unsaid>>
-------------------------------------------------------------------------------
Receive(p) ==
    /\ Connected(p) /\ inbox[SocketOf(p)] # <<>>
    /\ LET e == Head(inbox[SocketOf(p)])
       IN  /\ inbox' = [inbox EXCEPT ![SocketOf(p)] = Tail(@)]
           /\ shown' = IF e.t # "presence" THEN shown
                       ELSE [shown EXCEPT ![p] = IF e.on THEN @ \cup {e.u} ELSE @ \ {e.u}]
           /\ typed' = IF e.t = "typing" /\ (p \in Tuis \/ e.u # UserOf[p])
                       THEN [typed EXCEPT ![p][e.u] = IF e.on THEN e.c ELSE None] ELSE typed
    /\ UNCHANGED <<scope, refs, sock, rooms, outbox, updates, bucket, chans, typing, timer, active, stale, unsaid>>

\* useTyping's emitTyping, which says nothing while the socket is away.
Room == \A s \in Socks : Len(outbox[s]) + Len(inbox[s]) < MaxQueue
Say(p, c, on) ==
    /\ Room
    /\ outbox' = IF Connected(p)
                 THEN [outbox EXCEPT ![SocketOf(p)] = Append(@, Typing(UserOf[p], c, on))] ELSE outbox

\* handleTypingChange with a draft that is not empty.
Key(p) ==
    /\ p \in Webs \cap scope.typists
    /\ typing' = [typing EXCEPT ![p] = TRUE] /\ timer' = [timer EXCEPT ![p] = active[p]]
    /\ IF typing[p] THEN UNCHANGED outbox ELSE Say(p, active[p], TRUE)
    /\ UNCHANGED <<scope, refs, sock, rooms, inbox, updates, bucket, chans, shown, typed, active, stale, unsaid>>

\* Mutant: leaving a channel says nothing.
StopTyping_Silent(p, c) ==
    /\ timer' = [timer EXCEPT ![p] = None] /\ typing' = [typing EXCEPT ![p] = FALSE]
    /\ UNCHANGED <<outbox, unsaid>>

\* stopTyping, with the channel of the closure it was called from.
StopTyping(p, c) ==
    /\ timer' = [timer EXCEPT ![p] = None] /\ typing' = [typing EXCEPT ![p] = FALSE]
    /\ IF typing[p] THEN Say(p, c, FALSE) ELSE UNCHANGED outbox
    /\ unsaid' = IF typing[p] /\ ~Connected(p) THEN unsaid \cup (Here \X {UserOf[p]}) ELSE unsaid

\* Three seconds without a key.
Pause(p) ==
    /\ timer[p] # None /\ StopTyping(p, timer[p])
    /\ UNCHANGED <<scope, refs, sock, rooms, inbox, updates, bucket, chans, shown, typed, active, stale>>

\* A cleared draft, a blur, a submit, or another channel selected.
Finish(p, c) ==
    /\ typing[p] /\ c \in chans /\ StopTyping(p, active[p])
    /\ active' = [active EXCEPT ![p] = c]
    /\ UNCHANGED <<scope, refs, sock, rooms, inbox, updates, bucket, chans, shown, typed, stale>>

\* createChannel moves to the new channel and stops nothing.
Create(p) ==
    /\ May("create") /\ p \in Webs \cap scope.typists /\ Fresh \notin chans
    /\ chans' = chans \cup {Fresh} /\ active' = [active EXCEPT ![p] = Fresh]
    /\ UNCHANGED <<scope, refs, sock, rooms, inbox, outbox, updates, bucket, shown, typed, typing, timer, stale, unsaid>>

\* The terminal's event, sent only over a connected socket.
SendTypingEvent(p) == Connected(p) /\ Say(p, active[p], FALSE)

\* A terminal never says that it types, but always that it has stopped.
Submit(p) ==
    /\ p \in Tuis \cap scope.typists /\ SendTypingEvent(p)
    /\ UNCHANGED <<scope, refs, sock, rooms, inbox, updates, bucket, chans, client, stale, unsaid>>
-------------------------------------------------------------------------------
Server(s) == JoinWorkspaces(s) \/ Open(s) \/ AnnounceOffline(s) \/ Handle(s)

Next ==
    \/ \E s \in Socks : Connect(s) \/ Drop(s) \/ Server(s)
    \/ \E u \in Users : AnnounceUpdate(u) \/ NewWindow(u)
    \/ \E p \in Programs :
        \/ Receive(p) \/ Key(p) \/ Pause(p) \/ Create(p) \/ Submit(p)
        \/ \E c \in Channels : Finish(p, c)

Spec == Init /\ [][Next]_vars
-------------------------------------------------------------------------------
\* socket.ts:83-87, 117-126: the count of a user's connections is that of the
\* sockets attached, and of those that ended while their handler still awaited
\* its lists, which stay counted for ever: nobody attached is ever uncounted.
Counted ==
    \A u \in Users :
        refs[u] = Cardinality({s \in Socks : U(s) = u /\ (sock[s].alive \/ sock[s].at \in {"opening", "listed", "open"})})

\* socket.ts:97-108, 118-123: once nothing is under way, a program shows a user
\* of a shared workspace online exactly when he is counted, except where the
\* offline event passed it by, overtook a new connection, or was undone by a
\* presence.update.  (Of his own user a second page is never told.)
Settled ==
    /\ \A s \in Socks : sock[s].at \notin {"opening", "listed", "leaving"} /\ inbox[s] = <<>>
    /\ updates = {}
PresenceRight ==
    Settled => \A p \in Programs : \A v \in Users \ {UserOf[p]} :
        Connected(p) /\ Member[v] \cap Member[UserOf[p]] # {} /\ <<p, v>> \notin stale
            => (v \in shown[p] <=> refs[v] > 0)

\* useTyping.ts:9-12, ChatRoute.tsx:290-300: once every timer has fired and
\* nothing is on its way, nobody is shown typing, unless his last stop was not
\* said (no socket), not taken (the limiter, a handler still opening) or said
\* to a channel that the program has not joined.
TypingEnds ==
    (\A p \in Programs : timer[p] = None) /\ (\A s \in Socks : inbox[s] = <<>> /\ outbox[s] = <<>>) =>
        \A p \in Programs : \A v \in Users : typed[p][v] # None => <<p, v>> \in unsaid
===============================================================================
