--------------------------------- MODULE Feed ---------------------------------
(* What the server tells its clients.  Every request writes first and is      *)
(* announced later, to the sockets in the room, while its answer travels on   *)
(* its own: a client's inbox is ordered, the answers are not.  Rows are       *)
(* reduced to versions; what a request may do is in Messages and Workspaces.  *)
EXTENDS Naturals, FiniteSets, Sequences, SequencesExt

CONSTANTS
    Clients,   \* users with a program of this project attached
    Peer,      \* everybody else
    Messages,
    Channels,  \* channels and direct messages
    Dms,       \* those of them that are direct messages
    MaxVer,    \* bound: versions of a text before its tombstone
    PageSize,  \* messages in one page of history
    IdOrder,   \* the messages in the order of their ids
    Scopes     \* what an instance may choose, with a bound: how many writes are
               \* under way when one that can be repeated is made

Users == Clients \cup {Peer}
Gone  == MaxVer + 1
Kinds == {"boot", "edit", "delete", "react", "forward", "create", "direct", "leave", "ack",
          "members"}

ASSUME FeedAssumption ==
    /\ Peer \notin Clients /\ Dms \subseteq Channels
    /\ IsFiniteSet(Users) /\ IsFiniteSet(Messages) /\ IsFiniteSet(Channels)
    /\ MaxVer \in Nat \ {0} /\ PageSize \in Nat \ {0}
    /\ Messages \cap Channels = {} /\ IdOrder \in Seq(Messages)
    /\ (Messages \X {"marks"}) \cap (Messages \cup Channels) = {}
    /\ Scopes \subseteq [ops : SUBSET Kinds, present : SUBSET Clients,
                         author : [Messages -> Users], home : [Messages -> Channels],
                         chans : (SUBSET Channels) \ {{}}, old : SUBSET Messages, flight : Nat]

VARIABLES
    scope,    \* the operations, authors and channels of this behaviour
    ver,      \* messages: 0 before it is sent, Gone once deleted
    acked,    \* messages whose state an acknowledgement has made "read"
    seen,     \* what a user's lastReadAt covers
    reacts,   \* messageReactions of one emoji: pairs of a message and a user
    chans,    \* channels that exist
    pending,  \* written, not yet announced
    rooms,    \* by client, the channel rooms its socket is in
    online,   \* clients whose socket is connected
    inbox,    \* by client, the events on their way
    answers,  \* by client, the answers on their way
    missed,   \* history: by client, what changed without it being told
    tangled   \* history: messages written while an earlier write was in flight

feedVars == <<scope, ver, acked, seen, reacts, chans, pending, rooms, online,
              inbox, answers, missed, tangled>>
-------------------------------------------------------------------------------
Author(m) == scope.author[m]
Home(m)   == scope.home[m]
May(op)   == op \in scope.ops
Light     == \A c \in Clients : Cardinality(pending) + Len(inbox[c]) < scope.flight
Sent      == {m \in Messages : ver[m] # 0}

Note(t, m, by) == [t |-> t, m |-> m, v |-> ver'[m], by |-> by]
Reaction(t, m, by, on, n) == [t |-> t, m |-> m, by |-> by, on |-> on, n |-> n]
NewChannel(c, by) == [t |-> "channel.created", c |-> c, by |-> by]

\* What is still to be announced or answered about a message.
About(e, m) == ("m" \in DOMAIN e /\ e.m = m) \/ ("rows" \in DOMAIN e /\ m \in DOMAIN e.rows)
InFlight(m) == \/ \E e \in pending : About(e, m)
               \/ \E c \in Clients : \E e \in answers[c] : About(e, m)
Tangles(m)  == tangled' = IF InFlight(m) THEN tangled \cup {m} ELSE tangled

Count(m) == Cardinality({u \in Users : <<m, u>> \in reacts})

FeedInit ==
    /\ scope \in Scopes
    /\ ver = [m \in Messages |-> IF m \in scope.old THEN 1 ELSE 0]
    /\ acked = {} /\ reacts \in {{}, scope.old \X {Peer}} /\ chans = scope.chans /\ pending = {}
    /\ seen = [u \in Users |-> {}]
    /\ online = scope.present
    /\ rooms = [c \in Clients |-> IF c \in scope.present THEN scope.chans ELSE {}]
    /\ inbox = [c \in Clients |-> <<>>] /\ answers = [c \in Clients |-> {}]
    /\ missed = [c \in Clients |->
                   IF "boot" \in scope.ops THEN scope.old \cup scope.chans \cup (scope.old \X {"marks"}) ELSE {}]
    /\ tangled = {}
-------------------------------------------------------------------------------
\* message.send over a socket: the clients show nothing of their own yet.
Send(m) ==
    /\ ver[m] = 0 /\ Home(m) \in chans /\ Author(m) \in online \cup {Peer}
    /\ ver' = [ver EXCEPT ![m] = 1]
    /\ pending' = pending \cup {Note("message.created", m, Author(m))}
    /\ UNCHANGED <<scope, acked, seen, reacts, chans, rooms, online, inbox, answers, missed, tangled>>

Edit(m) ==
    /\ May("edit") /\ ver[m] \in 1 .. MaxVer - 1
    /\ ver' = [ver EXCEPT ![m] = @ + 1]
    /\ pending' = pending \cup {Note("message.updated", m, Author(m))}
    /\ Tangles(m)
    /\ UNCHANGED <<scope, acked, seen, reacts, chans, rooms, online, inbox, answers, missed>>

Delete(m) ==
    /\ May("delete") /\ ver[m] \in 1 .. MaxVer
    /\ ver' = [ver EXCEPT ![m] = Gone]
    /\ pending' = pending \cup {Note("message.deleted", m, Author(m))}
    /\ Tangles(m)
    /\ UNCHANGED <<scope, acked, seen, reacts, chans, rooms, online, inbox, answers, missed>>

\* POST /messages/:id/forward stores a message and announces it to nobody.
Forward(m) ==
    /\ May("forward") /\ ver[m] = 0 /\ Home(m) \in chans
    /\ ver' = [ver EXCEPT ![m] = 1]
    /\ pending' = pending \cup {Note("forwarded", m, Author(m))}
    /\ UNCHANGED <<scope, acked, seen, reacts, chans, rooms, online, inbox, answers, missed, tangled>>

\* A reaction is written, then counted, then announced with that count.
React(m, u, on) ==
    /\ May("react") /\ m \in Sent /\ Light
    /\ reacts' = IF on THEN reacts \cup {<<m, u>>} ELSE reacts \ {<<m, u>>}
    /\ pending' = pending \cup {Reaction("written", m, u, on, 0)}
    /\ Tangles(m)
    /\ UNCHANGED <<scope, ver, acked, seen, chans, rooms, online, inbox, answers, missed>>

CountReaction(e) ==
    /\ e \in pending /\ e.t = "written"
    /\ pending' = (pending \ {e}) \cup {Reaction("message.reaction", e.m, e.by, e.on, Count(e.m))}
    /\ UNCHANGED <<scope, ver, acked, seen, reacts, chans, rooms, online, inbox, answers, missed, tangled>>

\* createChannel, and createOrGetDm, which announces an existing one again.
CreateChannel(c, u) ==
    /\ May("create") /\ (c \in chans => c \in Dms) /\ Light
    /\ \A e \in pending : e.t = "channel.created" => e.c # c
    /\ chans' = chans \cup {c}
    /\ pending' = pending \cup {NewChannel(c, u)}
    /\ UNCHANGED <<scope, ver, acked, seen, reacts, rooms, online, inbox, answers, missed, tangled>>

\* message.ack rewrites the row's state for everybody, its sender's too.
AckRead(u, m) ==
    /\ May("ack") /\ u \in online /\ m \in Sent \ acked
    /\ acked' = acked \cup {m}
    /\ UNCHANGED <<scope, ver, seen, reacts, chans, pending, rooms, online, inbox, answers, missed, tangled>>
-------------------------------------------------------------------------------
Hears(c, e) ==
    /\ c \in online
    /\ \/ e.t = "channel.created"
       \/ e.t \notin {"channel.created", "forwarded"} /\ Home(e.m) \in rooms[c]

Subject(e) ==
    IF e.t = "channel.created" THEN e.c
    ELSE IF e.t = "message.reaction" THEN <<e.m, "marks">> ELSE e.m
Announce(e) ==
    /\ e \in pending /\ e.t # "written"
    /\ pending' = pending \ {e}
    /\ inbox' = [c \in Clients |-> IF Hears(c, e) THEN Append(inbox[c], e) ELSE inbox[c]]
    /\ answers' = IF e.by \in Clients /\ e.t # "message.created"
                  THEN [answers EXCEPT ![e.by] = @ \cup {e}] ELSE answers
    /\ missed' = [c \in Clients |->
                    IF Hears(c, e) THEN missed[c] ELSE missed[c] \cup {Subject(e)}]
    /\ UNCHANGED <<scope, ver, acked, seen, reacts, chans, rooms, online, tangled>>

\* The socket goes, with what was on its way, and comes back into the rooms of
\* the channels there are: the effect runs anew whenever the access token does.
Leave(c) ==
    /\ May("leave") /\ c \in online
    /\ online' = online \ {c} /\ rooms' = [rooms EXCEPT ![c] = {}]
    /\ inbox' = [inbox EXCEPT ![c] = <<>>]
    /\ missed' = [missed EXCEPT ![c] = @ \cup {Subject(inbox[c][i]) : i \in DOMAIN inbox[c]}]
    /\ UNCHANGED <<scope, ver, acked, seen, reacts, chans, pending, answers, tangled>>

Join(c) ==
    /\ c \in scope.present \ online
    /\ online' = online \cup {c} /\ rooms' = [rooms EXCEPT ![c] = chans]
    /\ UNCHANGED <<scope, ver, acked, seen, reacts, chans, pending, inbox, answers, missed, tangled>>

\* What the reads answer.
Unread(u, c) ==
    {m \in Sent : /\ Home(m) = c /\ ver[m] # Gone /\ m \notin acked
                  /\ Author(m) # u /\ m \notin seen[u]}
PageOf(c) ==
    LET here == {i \in DOMAIN IdOrder : Home(IdOrder[i]) = c /\ IdOrder[i] \in Sent}
    IN  {IdOrder[i] : i \in {j \in here : Cardinality({k \in here : k <= j}) <= PageSize}}
Rows(ms)     == [m \in ms |-> ver[m]]
MarkRead(u, c) == seen' = [seen EXCEPT ![u] = {m \in @ : Home(m) # c} \cup {m \in Sent : Home(m) = c}]
===============================================================================
