----------------------------- MODULE ClientsProofs -----------------------------
(* What a client shows of the server, for any messages, channels, users, page    *)
(* size and scope, and for any order in which writes, events and answers reach   *)
(* it.  The invariant has one part for each way a client may fall behind: what   *)
(* is on its way is a version that was stored (Versions); of a message that is   *)
(* not tangled it is the last one, told in order (InOrder); so whoever waits for *)
(* nothing shows it (WebCaught, TuiCaught), has counted it once (BadgeInv) and   *)
(* has every channel listed or still to come (ListInv).  The panel (PanelInv)    *)
(* and the copies that come twice (OneCopy) need only the types.                 *)
EXTENDS Clients, FiniteSetTheorems, SequenceTheorems, TLAPS

-------------------------------------------------------------------------------
(* Types *)

\* What is announced, and what a client is answered.
Texts    == [t : {"message.created", "message.updated", "message.deleted", "forwarded"},
             m : Messages, v : 1 .. Gone, by : Users]
Marks    == [t : {"written", "message.reaction"}, m : Messages, by : Users, on : BOOLEAN, n : Nat]
Opens    == [t : {"channel.created"}, c : Channels, by : Users]
Event    == Texts \cup Marks \cup Opens
IsRead(a) ==
    \/ a \in [t : {"channels"}, cs : (SUBSET Channels) \ {{}}]
    \/ \E cs \in SUBSET Channels : a \in [t : {"unread"}, new : [cs -> SUBSET Messages]]
    \/ \E ms \in SUBSET Messages : a \in [t : {"messages"}, rows : [ms -> 1 .. Gone]]
    \/ \E ms \in SUBSET Messages : a \in [t : {"reactions"}, rows : [ms -> [n : Nat, on : BOOLEAN]]]
    \/ a \in [t : {"page"}, page : {{}}]
Subjects == Messages \cup Channels \cup (Messages \X {"marks"})

FTypes ==
    /\ scope \in Scopes
    /\ ver \in [Messages -> 0 .. Gone]
    /\ seen \in [Users -> SUBSET Messages]
    /\ reacts \subseteq Messages \X Users
    /\ chans \subseteq Channels /\ chans # {}
    /\ pending \subseteq Event
    /\ rooms \in [Clients -> SUBSET Channels] /\ online \subseteq Clients
    /\ inbox \in [Clients -> Seq(Event)]
    /\ DOMAIN answers = Clients /\ \A c \in Clients : \A a \in answers[c] : a \in Event \/ IsRead(a)
    /\ missed \in [Clients -> SUBSET Subjects]
    /\ tangled \subseteq Messages

Rests == {"idle", "channels", "unread", "messages", "reactions", "done"}
WTypes ==
    /\ shown \in [server : [Messages -> 0 .. Gone], p2p : [Messages -> 0 .. Gone]]
    /\ marks \in [Messages -> [n : Nat, on : BOOLEAN]]
    /\ list \in Seq(Channels) /\ active \in Channels \cup {NoChannel}
    /\ badge \in [Channels -> Nat]
    /\ calls \subseteq [c : Channels, over : Seq(Channels)]
    /\ boot \in [at : Rests, todo : SUBSET Channels]
    /\ boot.at \in {"messages", "reactions"} => boot.todo # {}
    /\ direct \subseteq Messages /\ late \subseteq Messages
    /\ news \in [Channels -> SUBSET Messages]
    /\ blurred \subseteq Channels /\ raced \subseteq Channels

TTypes ==
    /\ lines \in [Messages -> 0 .. Gone] /\ tabs \in Seq(Channels)
    /\ open \in Channels \cup {NoTab} /\ loading \in BOOLEAN
    /\ upset \subseteq Channels

\* An event is announced once it is counted, and a forwarded message to nobody;
\* requests are answered to who made them, reads one at a time.
ReadKinds == {"channels", "unread", "messages", "reactions", "page"}
Passed ==
    /\ \A c \in Clients : \A i \in DOMAIN inbox[c] : inbox[c][i].t \notin {"forwarded", "written"}
    /\ \A c \in Clients : \A a \in answers[c] :
         a.t \notin ReadKinds => a.t \notin {"message.created", "written"} /\ a.by = c
    /\ \A a \in answers[Web] : a.t \in ReadKinds => a.t = boot.at
    /\ \A a \in answers[Tui] : a.t \in ReadKinds => a.t = "page" \/ (a.t = "channels" /\ loading)
    /\ \A c \in Clients : \A a, b \in answers[c] : a.t \in ReadKinds /\ a.t = b.t => a = b

CTypes == FTypes /\ WTypes /\ TTypes /\ Passed
-------------------------------------------------------------------------------
(* The panel *)

\* Unless rows were changed beside it, the read under way, or the one edit, is of
\* the channel on screen and what it has been told is so.
ReadsScreen(r) == r.c = active /\ (r.at = "answered" => r.rows = people[active])
Ready(e) ==
    /\ e.c = active
    /\ e.op = "add" /\ e.at = "answered" => e.rows = people[active]
    /\ e.op = "remove" /\ e.at = "asked" => panel = {active} \X people[active]
    /\ e.op = "remove" /\ e.at = "performed" => {p \in panel : p[2] # e.u} = {active} \X people[active]
EditRec == [op : {"add", "remove"}, c : Channels, u : Users, at : {"asked", "performed", "answered"},
            rows : SUBSET Users]
ReadRec == [c : Channels, at : {"asked", "answered"}, rows : SUBSET Users, live : BOOLEAN]
PanelInv ==
    /\ people \in [Channels -> SUBSET Users]
    /\ reads \subseteq ReadRec /\ edits \subseteq EditRec /\ drift \in BOOLEAN
    /\ \A e \in edits : e.at = "answered" => e.op = "add"
    /\ ~May("members") => reads = {} /\ edits = {}
    /\ \A r, s \in Fresh : r = s
    /\ ~drift =>
        /\ \A e, f \in edits : e = f
        /\ Fresh = {} \/ edits = {}
        /\ \A r \in Fresh : ReadsScreen(r)
        /\ \A e \in edits : Ready(e)
    /\ PanelRight
-------------------------------------------------------------------------------
(* Events in order *)

TextKinds == {"message.created", "message.updated", "message.deleted", "forwarded"}
MarkKinds == {"written", "message.reaction"}
AboutKinds == TextKinds \cup MarkKinds
Of(e, m)  == e.t \in AboutKinds /\ e.m = m
Tells(e, m)  == e.t \in TextKinds /\ e.m = m
Counts(e, m) == e.t \in MarkKinds /\ e.m = m
First(e, m)  == e.t \in {"message.created", "forwarded"} /\ e.m = m
Own(c, e, m) == Counts(e, m) /\ e.by = c
Reacted(m, u) == <<m, u>> \in reacts

\* What is told of a message is a version it had, and of an author's own.
Good(e) ==
    /\ e.t \in TextKinds => /\ e.v <= ver[e.m] /\ e.by = Author(e.m)
                            /\ e.t \in {"message.created", "forwarded"} => e.v = 1
    /\ e.t \in MarkKinds => e.m \in Sent
GoodRead(a) ==
    /\ a.t = "messages" => \A m \in DOMAIN a.rows : a.rows[m] <= ver[m]
    /\ a.t = "unread" => \A c \in DOMAIN a.new : \A m \in a.new[c] : m \in Sent /\ Home(m) = c
Versions ==
    /\ \A e \in pending : Good(e)
    /\ \A c \in Clients : \A i \in DOMAIN inbox[c] : Good(inbox[c][i])
    /\ \A c \in Clients : \A a \in answers[c] : Good(a) /\ GoodRead(a)
    /\ \A m \in Messages : shown.server[m] <= ver[m] /\ lines[m] <= ver[m]
    /\ \A c \in Channels : \A m \in news[c] : m \in Sent /\ Home(m) = c

\* Of a message that is not tangled one thing is under way at a time, and it is
\* what the server has.
Current(m) ==
    /\ \A e, f \in pending : Of(e, m) /\ Of(f, m) => e = f
    /\ \A e \in pending : Tells(e, m) => e.v = ver[m]
    /\ \A e \in pending : Counts(e, m) => /\ e.on <=> Reacted(m, e.by)
                                          /\ e.t = "message.reaction" => e.n = Count(m)
    /\ \A c \in Clients : \A a \in answers[c] :
        /\ Tells(a, m) => a.v = ver[m]
        /\ Counts(a, m) => a.n = Count(m) /\ (a.on <=> Reacted(m, c))
        /\ a.t = "messages" /\ m \in DOMAIN a.rows => a.rows[m] = ver[m]
        /\ a.t = "reactions" /\ m \in DOMAIN a.rows => a.rows[m].n = Count(m) /\ (a.rows[m].on <=> Reacted(m, Web))

\* A client is told of the message in order, and last of what it is.
Heeds(c, m) ==
    \A i \in DOMAIN inbox[c] : Of(inbox[c][i], m) => c \in online /\ Home(m) \in rooms[c]
Queued(c, m) ==
    /\ (\A e \in pending : ~Tells(e, m)) => \A i \in DOMAIN inbox[c] :
        Tells(inbox[c][i], m) /\ (\A j \in DOMAIN inbox[c] : Tells(inbox[c][j], m) => j <= i) => inbox[c][i].v = ver[m]
    /\ \A e \in pending : First(e, m) => \A i \in DOMAIN inbox[c] : ~Tells(inbox[c][i], m)
    /\ \A i, j \in DOMAIN inbox[c] : First(inbox[c][i], m) /\ Tells(inbox[c][j], m) => i <= j
Tallied(c, m) ==
    /\ (\A e \in pending : ~Counts(e, m)) => \A i \in DOMAIN inbox[c] :
        Counts(inbox[c][i], m) /\ (\A j \in DOMAIN inbox[c] : Counts(inbox[c][j], m) => j <= i) => inbox[c][i].n = Count(m)
    /\ (\A e \in pending : ~Own(c, e, m)) => \A i \in DOMAIN inbox[c] :
        /\ Own(c, inbox[c][i], m) /\ (\A j \in DOMAIN inbox[c] : Own(c, inbox[c][j], m) => j <= i) =>
             (inbox[c][i].on <=> Reacted(m, c))
        /\ Counts(inbox[c][i], m) /\ inbox[c][i].n = 0 /\ (\A j \in DOMAIN inbox[c] : Own(c, inbox[c][j], m) => j <= i) =>
             ~Reacted(m, c)
InOrder ==
    /\ \A c \in Clients : \A m \in Messages : Heeds(c, m)
    /\ \A m \in Messages \ tangled : Current(m) /\ \A c \in Clients : Queued(c, m) /\ Tallied(c, m)
-------------------------------------------------------------------------------
(* Badges *)

Excused(m) == m \in tangled \/ Home(m) \in blurred

\* A message that is still to be announced to the page is neither shown nor
\* counted there.
NotYet ==
    \A m \in Messages : Author(m) # Web /\ Coming(m) /\ ~Excused(m) =>
        shown.server[m] = 0 /\ m \notin news[Home(m)]

\* Every channel's badge, the one's on screen too.
Counted ==
    \A c \in Channels : badge[c] = Cardinality(news[c]) \/ c \in blurred \cup {Home(m) : m \in tangled}
BadgeInv == NotYet /\ Counted
-------------------------------------------------------------------------------
(* Catching up *)

Silent(c, m) == (\A e \in pending : ~Tells(e, m)) /\ \A i \in DOMAIN inbox[c] : ~Tells(inbox[c][i], m)
Paged(m) == \E a \in answers[Web] : a.t = "messages" /\ m \in DOMAIN a.rows
Tally(m) == \E a \in answers[Web] : a.t = "reactions" /\ m \in DOMAIN a.rows
WebCaught == \A m \in Messages \ tangled :
    /\ m \in Sent \ missed[Web] /\ Silent(Web, m) /\ ~Paged(m) => shown.server[m] = ver[m]
    /\ <<m, "marks">> \notin missed[Web] /\ ~Tally(m) =>
        /\ (\A e \in pending : ~Counts(e, m)) /\ (\A i \in DOMAIN inbox[Web] : ~Counts(inbox[Web][i], m)) =>
             marks[m].n = Count(m)
        /\ (\A e \in pending : ~Own(Web, e, m)) /\ (\A i \in DOMAIN inbox[Web] : ~Own(Web, inbox[Web][i], m)) =>
             (marks[m].on <=> Reacted(m, Web))
TuiCaught == \A m \in Sent \ (tangled \cup missed[Tui]) :
    /\ Silent(Tui, m) => lines[m] = ver[m]
    /\ lines[m] = 0 => (\E e \in pending : First(e, m)) \/ \E i \in DOMAIN inbox[Tui] : First(inbox[Tui][i], m)
-------------------------------------------------------------------------------
(* Lists of channels *)

Announced(c) == \E e \in pending : e.t = "channel.created" /\ e.c = c
Awaits(u, c) == \E i \in DOMAIN inbox[u] : inbox[u][i].t = "channel.created" /\ inbox[u][i].c = c
Listing(u)   == {a \in answers[u] : a.t = "channels"}
Keeps(k, c)  == c = k.c \/ c \in ToSet(k.over) \/ (k.c \in Dms /\ k.c \in ToSet(k.over))

\* Where the page, or the terminal, still has a channel from, or has it.
Held(c) ==
    \/ c \in missed[Web] \cup raced \/ Announced(c) \/ Awaits(Web, c)
    \/ \E a \in Listing(Web) : c \in a.cs
    \/ c \in ToSet(list) /\ (\A k \in calls : Keeps(k, c)) /\ Listing(Web) = {}
TabHeld(c) ==
    \/ c \in missed[Tui] \cup upset \/ Announced(c) \/ Awaits(Tui, c)
    \/ \E a \in Listing(Tui) : c \in a.cs
    \/ c \in ToSet(tabs) /\ Listing(Tui) = {}

NewCalls == \A k \in calls :
    /\ k.c \in chans /\ ToSet(k.over) \subseteq chans /\ NoRepeat(k.over)
    /\ k.c \in Dms \/ k.c \notin ToSet(k.over)
ListInv ==
    /\ ToSet(list) \subseteq chans /\ NoRepeat(list) /\ NewCalls
    /\ \A e \in pending : e.t = "channel.created" => e.c \in chans
    /\ \A u \in {Web, Tui} : \A i \in DOMAIN inbox[u] : inbox[u][i].t = "channel.created" => inbox[u][i].c \in chans
    /\ \A u \in {Web, Tui} : \A a \in answers[u] :
         (a.t = "channel.created" => a.c \in chans) /\ (a.t = "channels" => a.cs \subseteq chans)
    /\ \A c \in chans : Held(c) /\ TabHeld(c)
    /\ \A i, j \in DOMAIN tabs : tabs[i] = tabs[j] /\ tabs[i] \notin upset => i = j
-------------------------------------------------------------------------------
LEMMA WhoIs ==
  /\ Web \in Clients /\ Tui \in Clients /\ Web # Tui /\ Peer \in Users /\ Clients \subseteq Users
  /\ \A m \in Messages : scope \in Scopes => Author(m) \in Users /\ Home(m) \in Channels
  /\ scope \in Scopes => scope.chans \subseteq Channels /\ scope.chans # {} /\ scope.old \subseteq Messages
                         /\ scope.present \subseteq Clients
  /\ Gone \in Nat /\ MaxVer \in Nat /\ MaxVer > 0 /\ Gone = MaxVer + 1
BY FeedAssumption, WebAssumption, TerminalAssumption, ClientsAssumption DEF Users, Author, Home, Gone

LEMMA SeqOfSet ==
  ASSUME NEW S, IsFiniteSet(S)
  PROVE  /\ SetToSeq(S) \in Seq(S) /\ ToSet(SetToSeq(S)) = S
         /\ \A i, j \in DOMAIN SetToSeq(S) : SetToSeq(S)[i] = SetToSeq(S)[j] => i = j
         /\ S # {} => SetToSeq(S)[1] \in S
<1> DEFINE n == Cardinality(S)
           q == SetToSeq(S)
<1>1. n \in Nat /\ ExistsBijection(1 .. n, S)
  BY FS_CardinalityType
<1>2. PICK f \in Bijection(1 .. n, S) : TRUE
  BY <1>1 DEF ExistsBijection
<1>3. f \in [1 .. n -> S] /\ IsInjective(f)
  BY <1>2 DEF Bijection, Injection, IsInjective
<1>4. q \in [1 .. n -> S] /\ IsInjective(q)
  BY <1>3 DEF SetToSeq
<1>5. q \in Injection(1 .. n, S)
  BY <1>4 DEF Injection, IsInjective
<1>6. Cardinality(1 .. n) = n /\ IsFiniteSet(1 .. n)
  BY <1>1, FS_Interval
<1>7. q \in Surjection(1 .. n, S)
  BY <1>5, <1>6, FS_Injection
<1>8. q \in Seq(S) /\ \A x \in S : \E i \in DOMAIN q : q[i] = x
  BY <1>1, <1>4, <1>7 DEF Surjection
<1>9. ToSet(q) = S
  BY <1>4, <1>8 DEF ToSet
<1>10. \A i, j \in DOMAIN q : q[i] = q[j] => i = j
  BY <1>4 DEF IsInjective
<1>11. S # {} => q[1] \in S
  <2>1. HAVE S # {}
  <2>2. n # 0
    BY <1>4, <1>8, <2>1
  <2> QED
    BY <1>1, <1>4, <2>2
<1> QED
  BY <1>8, <1>9, <1>10, <1>11

LEMMA EventsAre ==
  /\ \A e \in Event : e.t \in {"message.created", "message.updated", "message.deleted", "forwarded",
                               "written", "message.reaction", "channel.created"}
                      /\ e.by \in Users
  /\ \A e \in Texts : e.m \in Messages /\ e.v \in 1 .. Gone
  /\ \A e \in Marks : e.m \in Messages /\ e.n \in Nat /\ e.on \in BOOLEAN
  /\ \A e \in Opens : e.c \in Channels
  /\ \A e \in Event :
       /\ e \in Texts <=> e.t \in {"message.created", "message.updated", "message.deleted", "forwarded"}
       /\ e \in Marks <=> e.t \in {"written", "message.reaction"}
       /\ e \in Opens <=> e.t = "channel.created"
BY DEF Event, Texts, Marks, Opens

LEMMA ReadsAre ==
  ASSUME NEW a, IsRead(a)
  PROVE  /\ a.t \in {"channels", "unread", "messages", "reactions", "page"} /\ a \notin Event
         /\ a.t = "channels" => a.cs \subseteq Channels /\ a.cs # {}
         /\ a.t = "unread" => DOMAIN a.new \subseteq Channels /\ \A c \in DOMAIN a.new : a.new[c] \subseteq Messages
         /\ a.t = "messages" => DOMAIN a.rows \subseteq Messages /\ \A m \in DOMAIN a.rows : a.rows[m] \in 1 .. Gone
         /\ a.t = "reactions" => DOMAIN a.rows \subseteq Messages
                                 /\ \A m \in DOMAIN a.rows : a.rows[m] \in [n : Nat, on : BOOLEAN]
BY DEF IsRead, Event, Texts, Marks, Opens

LEMMA CountIs == ASSUME NEW m PROVE Count(m) \in Nat
<1>1. IsFiniteSet({u \in Users : <<m, u>> \in reacts})
  BY FeedAssumption, FS_Subset
<1> QED
  BY <1>1, FS_CardinalityType DEF Count
-------------------------------------------------------------------------------
LEMMA WriteTypes ==
  ASSUME FTypes, NEW m \in Messages, Send(m) \/ Edit(m) \/ Delete(m) \/ Forward(m)
  PROVE  FTypes'
<1>1. /\ ver' \in [Messages -> 0 .. Gone] /\ ver'[m] \in 1 .. Gone /\ tangled' \subseteq Messages
      /\ UNCHANGED <<scope, seen, reacts, chans, rooms, online, inbox, answers, missed>>
  <2>1. CASE Send(m) \/ Forward(m)
    <3>1. ver' = [ver EXCEPT ![m] = 1] /\ 1 \in 0 .. Gone /\ tangled' = tangled
      BY <2>1, WhoIs DEF Send, Forward
    <3> QED
      BY <2>1, <3>1, WhoIs DEF FTypes, Send, Forward
  <2>2. CASE Edit(m)
    <3>1. ver[m] \in 1 .. MaxVer - 1 /\ ver' = [ver EXCEPT ![m] = @ + 1] /\ tangled' \subseteq Messages
      BY <2>2 DEF Edit, Tangles, FTypes
    <3>2. ver[m] + 1 \in 1 .. Gone
      BY <3>1, WhoIs
    <3> QED
      BY <2>2, <3>1, <3>2, WhoIs DEF FTypes, Edit
  <2>3. CASE Delete(m)
    <3>1. ver' = [ver EXCEPT ![m] = Gone] /\ tangled' \subseteq Messages
      BY <2>3 DEF Delete, Tangles, FTypes
    <3> QED
      BY <2>3, <3>1, WhoIs DEF FTypes, Delete
  <2> QED
    BY <2>1, <2>2, <2>3
<1>2. \A t \in {"message.created", "message.updated", "message.deleted", "forwarded"} :
        Note(t, m, Author(m)) \in Event
  BY <1>1, WhoIs DEF Note, Event, Texts, FTypes
<1>3. pending' \subseteq Event
  BY <1>2 DEF FTypes, Send, Edit, Delete, Forward
<1> QED
  BY <1>1, <1>3 DEF FTypes

LEMMA MarkTypes ==
  ASSUME FTypes,
         \/ \E m \in Messages : \E u \in Users, on \in BOOLEAN : React(m, u, on)
         \/ \E e \in pending : CountReaction(e)
         \/ \E c \in Channels : \E u \in Users : CreateChannel(c, u)
         \/ \E m \in Messages : \E u \in Users : AckRead(u, m)
  PROVE  FTypes'
<1>1. ASSUME NEW m \in Messages, NEW u \in Users, NEW on \in BOOLEAN, React(m, u, on) PROVE FTypes'
  <2>1. Reaction("written", m, u, on, 0) \in Event
    BY DEF Reaction, Event, Marks
  <2> QED
    BY <1>1, <2>1 DEF FTypes, React, Tangles
<1>2. ASSUME NEW e \in pending, CountReaction(e) PROVE FTypes'
  <2>1. e \in Event /\ e.t = "written"
    BY <1>2 DEF FTypes, CountReaction
  <2>2. Reaction("message.reaction", e.m, e.by, e.on, Count(e.m)) \in Event
    BY <2>1, CountIs, EventsAre DEF Reaction, Event, Marks
  <2> QED
    BY <1>2, <2>2 DEF FTypes, CountReaction
<1>3. ASSUME NEW c \in Channels, NEW u \in Users, CreateChannel(c, u) PROVE FTypes'
  BY <1>3 DEF FTypes, CreateChannel, NewChannel, Event, Opens
<1>4. ASSUME NEW m \in Messages, NEW u \in Users, AckRead(u, m) PROVE FTypes'
  BY <1>4 DEF FTypes, AckRead
<1> QED
  BY <1>1, <1>2, <1>3, <1>4

LEMMA SubjectIs == \A e \in Event : Subject(e) \in Subjects
  BY EventsAre DEF Subject, Subjects

LEMMA AppendTypes ==
  ASSUME NEW S, NEW q \in Seq(S), NEW e \in S
  PROVE  /\ Append(q, e) \in Seq(S)
         /\ DOMAIN Append(q, e) = DOMAIN q \cup {Len(q) + 1}
         /\ \A i \in DOMAIN q : Append(q, e)[i] = q[i] /\ i < Len(q) + 1
         /\ Append(q, e)[Len(q) + 1] = e
         /\ DOMAIN q = 1 .. Len(q) /\ Len(q) \in Nat
  OBVIOUS

LEMMA TailTypes ==
  ASSUME NEW S, NEW q \in Seq(S), q # <<>>
  PROVE  /\ Tail(q) \in Seq(S) /\ Head(q) = q[1] /\ 1 \in DOMAIN q
         /\ DOMAIN q = 1 .. Len(q) /\ Len(q) \in Nat /\ Len(q) > 0
         /\ DOMAIN Tail(q) = 1 .. Len(q) - 1
         /\ \A i \in DOMAIN Tail(q) : i + 1 \in DOMAIN q /\ Tail(q)[i] = q[i + 1]
         /\ \A i \in DOMAIN q : i = 1 \/ (i - 1 \in DOMAIN Tail(q) /\ Tail(q)[i - 1] = q[i])
  OBVIOUS

LEMMA AnnounceTypes == ASSUME FTypes, NEW e \in pending, Announce(e) PROVE FTypes'
<1>1. e \in Event
  BY DEF FTypes
<1>2. inbox' \in [Clients -> Seq(Event)]
  BY <1>1, AppendTypes DEF FTypes, Announce
<1>3. missed' \in [Clients -> SUBSET Subjects]
  BY <1>1, SubjectIs DEF FTypes, Announce
<1>4. DOMAIN answers' = Clients /\ \A c \in Clients : \A a \in answers'[c] : a \in Event \/ IsRead(a)
  BY <1>1 DEF FTypes, Announce, IsRead
<1> QED
  BY <1>2, <1>3, <1>4 DEF FTypes, Announce

LEMMA SocketTypes == ASSUME FTypes, NEW c \in Clients, Leave(c) \/ Join(c) PROVE FTypes'
<1>1. \A i \in DOMAIN inbox[c] : inbox[c][i] \in Event
  BY DEF FTypes
<1>2. missed' \in [Clients -> SUBSET Subjects]
  <2>1. {Subject(inbox[c][i]) : i \in DOMAIN inbox[c]} \subseteq Subjects
    BY <1>1, SubjectIs
  <2> QED
    BY <2>1 DEF FTypes, Leave, Join
<1>3. inbox' \in [Clients -> Seq(Event)]
  <2>1. <<>> \in Seq(Event)
    OBVIOUS
  <2> QED
    BY <2>1 DEF FTypes, Leave, Join
<1> QED
  BY <1>2, <1>3 DEF FTypes, Leave, Join, IsRead

\* A client takes an event, or an answer, or reads.
LEMMA TakenTypes ==
  ASSUME FTypes, NEW c \in Clients, inbox[c] # <<>>, inbox' = [inbox EXCEPT ![c] = Tail(@)],
         UNCHANGED <<scope, ver, seen, reacts, chans, pending, rooms, online, answers, missed, tangled>>
  PROVE  FTypes'
<1>1. inbox' \in [Clients -> Seq(Event)]
  BY TailTypes DEF FTypes
<1> QED
  BY <1>1 DEF FTypes, IsRead

LEMMA ReadTypes ==
  ASSUME FTypes, NEW a, a \in Event \/ IsRead(a),
         DOMAIN answers' = Clients, \A c \in Clients : answers'[c] \subseteq answers[c] \cup {a},
         missed' \in [Clients -> SUBSET Subjects], seen' \in [Users -> SUBSET Messages],
         UNCHANGED <<scope, ver, reacts, chans, pending, rooms, online, inbox, tangled>>
  PROVE  FTypes'
<1>1. \A d \in Clients : \A b \in answers'[d] : b \in Event \/ IsRead(b)
  BY DEF FTypes
<1> QED
  BY <1>1 DEF FTypes, IsRead
-------------------------------------------------------------------------------
(* The steps *)

Writes(m) == Send(m) \/ Edit(m) \/ Delete(m) \/ Forward(m)

\* What the server does, by itself or for a request, with the clients as they are.
ServerStep ==
    \/ \E m \in Messages : Writes(m)
    \/ \E m \in Messages : \E u \in Users, on \in BOOLEAN : React(m, u, on)
    \/ \E e \in pending : CountReaction(e)
    \/ \E e \in pending : Announce(e)
    \/ \E c \in Channels : \E u \in Users : CreateChannel(c, u)
    \/ \E c \in Clients : Leave(c) \/ Join(c)

WebStep ==
    \/ OnCreated \/ OnRewritten \/ OnReaction \/ OnChannel
    \/ \E m \in Messages : SendCopy(m) \/ OnCopy(m)
    \/ \E m \in Messages : Visible(m)
    \/ \E a \in answers[Web] : OnRewriteAnswer(a) \/ OnReactionAnswer(a) \/ OnForwardAnswer(a)
    \/ \E a \in answers[Web] : OnCreateAnswer(a) \/ ApplyChannels(a)
    \/ \E a \in answers[Web] : ApplyUnread(a) \/ ApplyMessages(a) \/ ApplyReactions(a)
    \/ \E c \in Channels : Create(c) \/ SelectChannel(c)
    \/ Start \/ ServeChannels \/ ServeUnread \/ ServeMessages \/ ServeReactions

TuiStep ==
    \/ TuiMessage \/ TuiChannel \/ TuiServe
    \/ \E a \in answers[Tui] : TuiRewriteAnswer(a) \/ TuiCreateAnswer(a) \/ TuiLoaded(a) \/ Entered(a)
    \/ \E c \in Channels : Enter(c)

LEMMA NextIs ==
  ASSUME FTypes, [Next]_vars
  PROVE  \/ ServerStep /\ UNCHANGED <<webVars, tuiVars>>
         \/ WebStep /\ UNCHANGED tuiVars
         \/ TuiStep /\ UNCHANGED webVars
         \/ UNCHANGED <<feedVars, webVars, tuiVars>>
<1>1. CASE ServerNext /\ UNCHANGED <<webVars, panelVars, tuiVars>>
  <2>1. ServerStep
    BY <1>1, WhoIs DEF ServerNext, ServerStep, Writes, FTypes
  <2> QED
    BY <1>1, <2>1
<1>2. CASE WebNext /\ UNCHANGED tuiVars
  <2>1. CASE \E m \in Messages : WebWrites(m)
    BY <1>2, <2>1 DEF WebWrites, ServerStep, Writes
  <2>2. CASE \E m \in Messages : ToggleReaction(m)
    <3>1. PICK m \in Messages : ToggleReaction(m)
      BY <2>2
    <3>2. UNCHANGED webVars /\ React(m, Web, ~marks[m].on)
      BY <3>1 DEF ToggleReaction
    <3>3. (~marks[m].on) \in BOOLEAN /\ Web \in Users
      BY WhoIs
    <3>4. ServerStep
      BY <3>2, <3>3 DEF ServerStep
    <3> QED
      BY <1>2, <3>2, <3>4
  <2>3. CASE ~\E m \in Messages : WebWrites(m) \/ ToggleReaction(m)
    BY <1>2, <2>3 DEF WebNext, WebStep, Answered
  <2> QED
    BY <2>1, <2>2, <2>3
<1>3. CASE PanelNext /\ UNCHANGED <<feedVars, webVars, tuiVars>>
  BY <1>3
<1>4. CASE TuiNext /\ UNCHANGED <<webVars, panelVars>>
  <2>1. CASE \E m \in Messages : TuiWrites(m)
    BY <1>4, <2>1 DEF TuiWrites, ServerStep, Writes
  <2>2. CASE \E c \in Channels : TuiCreate(c)
    BY <1>4, <2>2, WhoIs DEF TuiCreate, ServerStep
  <2>3. CASE ~(\E m \in Messages : TuiWrites(m)) /\ ~(\E c \in Channels : TuiCreate(c))
    BY <1>4, <2>3 DEF TuiNext, TuiStep
  <2> QED
    BY <2>1, <2>2, <2>3
<1>5. CASE UNCHANGED vars
  BY <1>5 DEF vars
<1> QED
  BY <1>1, <1>2, <1>3, <1>4, <1>5 DEF Next
-------------------------------------------------------------------------------
(* Types *)

LEMMA ServerTypes == ASSUME FTypes, ServerStep PROVE FTypes'
  BY WriteTypes, MarkTypes, AnnounceTypes, SocketTypes DEF ServerStep, Writes

LEMMA HeadIs ==
  ASSUME FTypes, NEW c \in Clients, inbox[c] # <<>>
  PROVE  Head(inbox[c]) \in Event /\ Head(inbox[c]) = inbox[c][1] /\ 1 \in DOMAIN inbox[c]
<1>1. inbox[c] \in Seq(Event)
  BY DEF FTypes
<1> QED
  BY <1>1, TailTypes

LEMMA AnswerIs ==
  ASSUME FTypes, NEW c \in Clients, NEW a \in answers[c]
  PROVE  /\ a.t \in {"message.created", "message.updated", "message.deleted", "forwarded",
                     "written", "message.reaction", "channel.created",
                     "channels", "unread", "messages", "reactions", "page"}
         /\ a.t \in {"message.created", "message.updated", "message.deleted", "forwarded"} =>
              a \in Texts /\ a.m \in Messages /\ a.v \in 1 .. Gone
         /\ a.t \in {"written", "message.reaction"} =>
              a \in Marks /\ a.m \in Messages /\ a.n \in Nat /\ a.on \in BOOLEAN
         /\ a.t = "channel.created" => a \in Opens /\ a.c \in Channels
         /\ a.t \in {"channels", "unread", "messages", "reactions", "page"} <=> IsRead(a)
         /\ a \in Event \/ IsRead(a)
<1>1. a \in Event \/ IsRead(a)
  BY DEF FTypes
<1>2. CASE a \in Event
  <2>1. ~IsRead(a)
    BY <1>2, ReadsAre
  <2> QED
    BY <1>2, <2>1, EventsAre
<1>3. CASE IsRead(a)
  BY <1>3, ReadsAre
<1> QED
  BY <1>1, <1>2, <1>3

LEMMA PageIs == \A c : PageOf(c) \subseteq Sent /\ \A m \in PageOf(c) : Home(m) = c
  BY DEF PageOf

LEMMA ServesAre ==
  ASSUME FTypes, WTypes
  PROVE  /\ IsRead([t |-> "channels", cs |-> chans])
         /\ IsRead([t |-> "unread", new |-> [c \in chans |-> Unread(Web, c)]])
         /\ boot.at = "messages" => IsRead([t |-> "messages", rows |-> Rows(PageOf(Turn))])
         /\ IsRead([t |-> "reactions", rows |-> [m \in Marked |-> [n |-> Count(m), on |-> <<m, Web>> \in reacts]]])
         /\ IsRead([t |-> "page", page |-> {}])
<1>1. IsRead([t |-> "channels", cs |-> chans])
  BY DEF FTypes, IsRead
<1>2. IsRead([t |-> "unread", new |-> [c \in chans |-> Unread(Web, c)]])
  <2>1. [c \in chans |-> Unread(Web, c)] \in [chans -> SUBSET Messages]
    BY DEF Unread, Sent
  <2>2. chans \in SUBSET Channels
    BY DEF FTypes
  <2> QED
    BY <2>1, <2>2 DEF IsRead
<1>3. IsRead([t |-> "messages", rows |-> Rows(PageOf(Turn))])
  <2>1. PageOf(Turn) \in SUBSET Messages /\ \A m \in PageOf(Turn) : ver[m] \in 1 .. Gone
    BY PageIs, WhoIs DEF Sent, FTypes
  <2>2. Rows(PageOf(Turn)) \in [PageOf(Turn) -> 1 .. Gone]
    BY <2>1 DEF Rows
  <2> QED
    BY <2>1, <2>2 DEF IsRead
<1>4. IsRead([t |-> "reactions", rows |-> [m \in Marked |-> [n |-> Count(m), on |-> <<m, Web>> \in reacts]]])
  <2>1. \A m : Count(m) \in Nat
    BY CountIs
  <2>2. [m \in Marked |-> [n |-> Count(m), on |-> <<m, Web>> \in reacts]] \in [Marked -> [n : Nat, on : BOOLEAN]]
    BY <2>1
  <2>3. Marked \in SUBSET Messages
    BY DEF Marked
  <2> QED
    BY <2>2, <2>3 DEF IsRead
<1>5. IsRead([t |-> "page", page |-> {}])
  BY DEF IsRead
<1> QED
  BY <1>1, <1>2, <1>3, <1>4, <1>5

\* An answer taken, or given.
LEMMA TakeTypes ==
  ASSUME FTypes, NEW c \in Clients, NEW a \in answers[c], answers' = [answers EXCEPT ![c] = @ \ {a}],
         missed' \in [Clients -> SUBSET Subjects], seen' \in [Users -> SUBSET Messages],
         UNCHANGED <<scope, ver, reacts, chans, pending, rooms, online, inbox, tangled>>
  PROVE  FTypes'
<1>1. DOMAIN answers' = Clients /\ \A d \in Clients : answers'[d] \subseteq answers[d] \cup {a}
  BY DEF FTypes
<1>2. a \in Event \/ IsRead(a)
  BY DEF FTypes
<1> QED
  BY <1>1, <1>2, ReadTypes

LEMMA GiveTypes ==
  ASSUME FTypes, NEW c \in Clients, NEW a, IsRead(a), answers' = [answers EXCEPT ![c] = @ \cup {a}],
         \/ missed' = missed
         \/ \E told : missed' = [missed EXCEPT ![c] = @ \ told],
         UNCHANGED <<scope, ver, seen, reacts, chans, pending, rooms, online, inbox, tangled>>
  PROVE  FTypes'
<1>1. DOMAIN answers' = Clients /\ \A d \in Clients : answers'[d] \subseteq answers[d] \cup {a}
  BY DEF FTypes
<1>2. missed' \in [Clients -> SUBSET Subjects]
  BY DEF FTypes
<1> QED
  BY <1>1, <1>2, ReadTypes DEF FTypes

LEMMA SeenTypes == ASSUME FTypes, NEW c, MarkRead(Web, c) PROVE seen' \in [Users -> SUBSET Messages]
  BY WhoIs DEF FTypes, MarkRead, Sent

WebTakes(a) == OnRewriteAnswer(a) \/ OnReactionAnswer(a) \/ OnForwardAnswer(a) \/ OnCreateAnswer(a)
WebApplies(a) == ApplyChannels(a) \/ ApplyUnread(a) \/ ApplyMessages(a) \/ ApplyReactions(a)

LEMMA WebFeedTypes == ASSUME CTypes, WebStep PROVE FTypes'
<1> USE DEF CTypes
<1>1. CASE OnCreated \/ OnRewritten \/ OnReaction \/ OnChannel
  <2>1. TakeEvent /\ inbox[Web] # <<>>
    BY <1>1 DEF OnCreated, OnRewritten, OnReaction, OnChannel, Heard
  <2> QED
    BY <2>1, TakenTypes, WhoIs DEF TakeEvent
<1>2. CASE (\E m \in Messages : SendCopy(m) \/ OnCopy(m)) \/ Start
  <2>1. UNCHANGED feedVars
    BY <1>2 DEF SendCopy, OnCopy, Start
  <2> QED
    BY <2>1 DEF FTypes, feedVars, IsRead
<1>3. CASE \E m \in Messages : Visible(m)
  BY <1>3, MarkTypes, WhoIs DEF Visible
<1>4. CASE \E a \in answers[Web] : WebTakes(a) \/ WebApplies(a)
  <2>1. PICK a \in answers[Web] : TakeAnswer(a) /\ (seen' = seen \/ \E c : MarkRead(Web, c))
    BY <1>4 DEF WebTakes, WebApplies, OnRewriteAnswer, OnReactionAnswer, OnForwardAnswer, OnCreateAnswer,
                ApplyChannels, ApplyUnread, ApplyMessages, ApplyReactions, Applying
  <2>2. seen' \in [Users -> SUBSET Messages]
    BY <2>1, SeenTypes DEF FTypes
  <2> QED
    BY <2>1, <2>2, TakeTypes, WhoIs DEF TakeAnswer, FTypes
<1>5. CASE \E c \in Channels : Create(c)
  BY <1>5, MarkTypes, WhoIs DEF Create
<1>6. CASE \E c \in Channels : SelectChannel(c)
  <2>1. seen' \in [Users -> SUBSET Messages]
    BY <1>6, SeenTypes DEF SelectChannel
  <2> QED
    BY <1>6, <2>1 DEF FTypes, SelectChannel, IsRead
<1>7. CASE ServeChannels \/ ServeUnread \/ ServeMessages \/ ServeReactions
  <2>1. PICK a, told : IsRead(a) /\ Serve(a, told)
    BY <1>7, ServesAre DEF ServeChannels, ServeUnread, ServeMessages, ServeReactions, Serving
  <2> QED
    BY <2>1, GiveTypes, WhoIs DEF Serve
<1> QED
  BY <1>1, <1>2, <1>3, <1>4, <1>5, <1>6, <1>7 DEF WebStep, WebTakes, WebApplies

LEMMA UpsertTypes ==
  ASSUME WTypes, NEW m \in Messages, NEW v \in 0 .. Gone, Upsert(m, v)
  PROVE  shown' \in [server : [Messages -> 0 .. Gone], p2p : [Messages -> 0 .. Gone]] /\ late' \subseteq Messages
  BY DEF WTypes, Upsert

LEMMA SetTypes ==
  ASSUME WTypes, NEW m \in Messages, NEW n \in Nat, NEW on \in BOOLEAN, SetReaction(m, n, on)
  PROVE  marks' \in [Messages -> [n : Nat, on : BOOLEAN]]
  BY DEF WTypes, SetReaction, NoMark

LEMMA SelectTypes ==
  ASSUME WTypes, NEW c \in Channels, Select(c)
  PROVE  /\ active' \in Channels \cup {NoChannel} /\ badge' \in [Channels -> Nat]
         /\ news' \in [Channels -> SUBSET Messages]
  BY DEF WTypes, Select

LEMMA AddTypes ==
  ASSUME NEW S, NEW l \in Seq(S), NEW c \in S
  PROVE  /\ Append(l, c) \in Seq(S) /\ Add(l, c) \in Seq(S)
         /\ ToSet(Append(l, c)) = ToSet(l) \cup {c} /\ ToSet(Add(l, c)) = ToSet(l) \cup {c}
         /\ NoRepeat(l) => NoRepeat(Add(l, c))
         /\ NoRepeat(l) /\ c \notin ToSet(l) => NoRepeat(Append(l, c))
<1>1. ToSet(Append(l, c)) = ToSet(l) \cup {c}
  BY AppendTypes DEF ToSet
<1>2. NoRepeat(l) /\ c \notin ToSet(l) => NoRepeat(Append(l, c))
  BY AppendTypes DEF ToSet, NoRepeat
<1> QED
  BY <1>1, <1>2, AppendTypes DEF Add, ToSet

LEMMA PutTypes ==
  ASSUME NEW f \in [Channels -> Nat], NEW g \in [Channels -> SUBSET Messages], NEW c \in Channels,
         NEW m \in Messages
  PROVE  /\ [f EXCEPT ![c] = @ + 1] \in [Channels -> Nat]
         /\ [g EXCEPT ![c] = @ \cup {m}] \in [Channels -> SUBSET Messages]
  OBVIOUS

LEMMA WebEventTypes == ASSUME CTypes, OnCreated \/ OnRewritten \/ OnReaction \/ OnChannel PROVE WTypes'
<1> USE DEF CTypes
<1>1. inbox[Web] # <<>> /\ Head1 \in Event
  BY HeadIs, WhoIs DEF OnCreated, OnRewritten, OnReaction, OnChannel, Heard, Head1
<1>2. CASE OnCreated
  <2> DEFINE m == Head1.m
  <2>1. m \in Messages /\ Head1.v \in 0 .. Gone /\ Home(m) \in Channels
    BY <1>1, <1>2, EventsAre, WhoIs DEF OnCreated, Heard, FTypes
  <2>2. shown' \in [server : [Messages -> 0 .. Gone], p2p : [Messages -> 0 .. Gone]]
    <3>1. CASE shown' = shown
      BY <3>1 DEF WTypes
    <3>2. CASE Replace(Head1.m)
      <4>1. /\ shown' = [shown EXCEPT !.server = [shown.server EXCEPT ![m] = Head1.v],
                                      !.p2p = [shown.p2p EXCEPT ![m] = 0]]
            /\ 0 \in 0 .. Gone
        BY <3>2, WhoIs DEF Replace, WTypes
      <4> QED
        BY <2>1, <4>1 DEF WTypes
    <3> QED
      BY <1>2, <3>1, <3>2 DEF OnCreated
  <2>3. badge' \in [Channels -> Nat] /\ news' \in [Channels -> SUBSET Messages]
    <3>1. news' = news \/ news' = [news EXCEPT ![Home(m)] = @ \cup {m}]
      BY <1>2 DEF OnCreated
    <3>2. badge' = badge \/ badge' = [badge EXCEPT ![Home(m)] = @ + 1]
      BY <1>2 DEF OnCreated
    <3>3. badge \in [Channels -> Nat] /\ news \in [Channels -> SUBSET Messages]
      BY DEF WTypes
    <3> QED
      BY <2>1, <3>1, <3>2, <3>3, PutTypes
  <2> QED
    BY <1>2, <2>2, <2>3 DEF OnCreated, WTypes
<1>3. CASE OnRewritten
  <2>1. Head1.m \in Messages /\ Head1.v \in 0 .. Gone
    BY <1>1, <1>3, EventsAre, WhoIs DEF OnRewritten, Heard
  <2> QED
    BY <1>3, <2>1, UpsertTypes DEF OnRewritten, WTypes
<1>4. CASE OnReaction
  <2>1. Head1.m \in Messages /\ Head1.n \in Nat /\ Head1.on \in BOOLEAN
    BY <1>1, <1>4, EventsAre DEF OnReaction, Heard
  <2>2. (IF Head1.by = Web THEN Head1.on ELSE marks[Head1.m].on) \in BOOLEAN
    BY <2>1 DEF WTypes
  <2> QED
    BY <1>4, <2>1, <2>2, SetTypes DEF OnReaction, WTypes
<1>5. CASE OnChannel
  <2>1. Head1.c \in Channels
    BY <1>1, <1>5, EventsAre DEF OnChannel, Heard
  <2>2. list' \in Seq(Channels)
    BY <1>5, <2>1, AddTypes DEF OnChannel, WTypes
  <2> QED
    BY <1>5, <2>1, <2>2 DEF OnChannel, WTypes
<1> QED
  BY <1>2, <1>3, <1>4, <1>5

LEMMA WebTakesTypes == ASSUME CTypes, NEW a \in answers[Web], WebTakes(a) PROVE WTypes'
<1> USE DEF CTypes
<1>1. Web \in Clients
  BY WhoIs
<1>2. CASE OnRewriteAnswer(a)
  <2>1. a.m \in Messages /\ a.v \in 0 .. Gone
    BY <1>1, <1>2, AnswerIs, WhoIs DEF OnRewriteAnswer
  <2> QED
    BY <1>2, <2>1, UpsertTypes DEF OnRewriteAnswer, WTypes
<1>3. CASE OnReactionAnswer(a)
  <2>1. a.m \in Messages /\ a.n \in Nat /\ a.on \in BOOLEAN
    BY <1>1, <1>3, AnswerIs DEF OnReactionAnswer
  <2> QED
    BY <1>3, <2>1, SetTypes DEF OnReactionAnswer, WTypes
<1>4. CASE OnForwardAnswer(a)
  <2>1. a.m \in Messages /\ a.v \in 0 .. Gone /\ Home(a.m) \in Channels
    BY <1>1, <1>4, AnswerIs, WhoIs DEF OnForwardAnswer, FTypes
  <2> QED
    BY <1>4, <2>1, UpsertTypes, SelectTypes DEF OnForwardAnswer, WTypes
<1>5. CASE OnCreateAnswer(a)
  <2>1. a.c \in Channels
    BY <1>1, <1>5, AnswerIs DEF OnCreateAnswer
  <2>2. PICK k \in calls : k.c = a.c /\ list' = Listed(k) /\ calls' = calls \ {k}
    BY <1>5 DEF OnCreateAnswer
  <2>3. list' \in Seq(Channels)
    <3>1. k.c \in Channels /\ k.over \in Seq(Channels) /\ list \in Seq(Channels)
      BY <2>2 DEF WTypes
    <3> QED
      BY <2>2, <3>1, AppendTypes DEF Listed
  <2> QED
    BY <1>5, <2>1, <2>2, <2>3, SelectTypes DEF OnCreateAnswer, WTypes
<1> QED
  BY <1>2, <1>3, <1>4, <1>5 DEF WebTakes

LEMMA AfterTypes ==
  ASSUME NEW todo \in SUBSET Channels, After(todo)
  PROVE  boot' \in [at : Rests, todo : SUBSET Channels] /\ (boot'.at \in {"messages", "reactions"} => boot'.todo # {})
  BY DEF After, Rests

LEMMA ChannelsFinite == \A cs \in SUBSET Channels : IsFiniteSet(cs)
  BY FeedAssumption, FS_Subset
LEMMA MessagesFinite == \A ms \in SUBSET Messages : IsFiniteSet(ms) /\ Cardinality(ms) \in Nat
  BY FeedAssumption, FS_Subset, FS_CardinalityType

LEMMA WebAppliesTypes ==
  ASSUME CTypes, NEW a \in answers[Web], WebApplies(a)
  PROVE  WTypes'
<1> USE DEF CTypes
<1>1. Web \in Clients
  BY WhoIs
<1>2. CASE ApplyChannels(a)
  <2>1. a.cs \subseteq Channels /\ a.cs # {}
    BY <1>1, <1>2, AnswerIs, ReadsAre DEF ApplyChannels
  <2>2. list' \in Seq(Channels) /\ list'[1] \in Channels
    <3>1. SetToSeq(a.cs) \in Seq(a.cs) /\ SetToSeq(a.cs)[1] \in a.cs
      BY <2>1, SeqOfSet, ChannelsFinite
    <3>2. SetToSeq(a.cs) \in Seq(Channels)
      BY <2>1, <3>1
    <3> QED
      BY <1>2, <2>1, <3>1, <3>2 DEF ApplyChannels
  <2>3. active' \in Channels \cup {NoChannel} /\ badge' \in [Channels -> Nat]
         /\ news' \in [Channels -> SUBSET Messages]
    BY <1>2, <2>2, SelectTypes DEF ApplyChannels
  <2> QED
    BY <1>2, <2>1, <2>2, <2>3 DEF ApplyChannels, WTypes, Rests
<1>3. CASE ApplyUnread(a)
  <2>1. DOMAIN a.new \subseteq Channels /\ \A c \in DOMAIN a.new : a.new[c] \subseteq Messages
    BY <1>1, <1>3, AnswerIs, ReadsAre DEF ApplyUnread
  <2> DEFINE some == {c \in DOMAIN a.new : a.new[c] # {}}
  <2>2. badge' \in [Channels -> Nat]
    <3>1. badge' = [c \in Channels |-> IF c \in some THEN Cardinality(a.new[c]) ELSE badge[c]]
      BY <1>3 DEF ApplyUnread
    <3>2. \A c \in some : Cardinality(a.new[c]) \in Nat
      BY <2>1, MessagesFinite
    <3> QED
      BY <3>1, <3>2 DEF WTypes
  <2>3. news' \in [Channels -> SUBSET Messages] /\ blurred' \subseteq Channels
    BY <1>3, <2>1 DEF ApplyUnread, WTypes
  <2>4. boot' \in [at : Rests, todo : SUBSET Channels] /\ (boot'.at \in {"messages", "reactions"} => boot'.todo # {})
    BY <1>3, AfterTypes DEF ApplyUnread, WTypes
  <2> QED
    BY <1>3, <2>2, <2>3, <2>4 DEF ApplyUnread, WTypes
<1>4. CASE ApplyMessages(a)
  <2>1. DOMAIN a.rows \subseteq Messages /\ \A m \in DOMAIN a.rows : a.rows[m] \in 1 .. Gone
    BY <1>1, <1>4, AnswerIs, ReadsAre DEF ApplyMessages
  <2>2. shown' \in [server : [Messages -> 0 .. Gone], p2p : [Messages -> 0 .. Gone]]
    <3>1. shown' = [shown EXCEPT !.server = [m \in Messages |->
                      IF m \in DOMAIN a.rows THEN a.rows[m] ELSE shown.server[m]]]
      BY <1>4 DEF ApplyMessages, WTypes
    <3>2. [m \in Messages |-> IF m \in DOMAIN a.rows THEN a.rows[m] ELSE shown.server[m]]
            \in [Messages -> 0 .. Gone]
      BY <2>1, WhoIs DEF WTypes
    <3> QED
      BY <3>1, <3>2 DEF WTypes
  <2>3. blurred' \subseteq Channels /\ late' \subseteq Messages
    BY <1>4, <2>1, WhoIs DEF ApplyMessages, WTypes, FTypes
  <2>4. boot.todo # {} /\ boot' = [boot EXCEPT !.at = "reactions"]
    BY <1>4 DEF ApplyMessages, WTypes, Applying
  <2>5. boot' \in [at : Rests, todo : SUBSET Channels] /\ boot'.todo # {}
    BY <2>4 DEF WTypes, Rests
  <2> QED
    BY <1>4, <2>2, <2>3, <2>5 DEF ApplyMessages, WTypes
<1>5. CASE ApplyReactions(a)
  <2>1. DOMAIN a.rows \subseteq Messages /\ \A m \in DOMAIN a.rows : a.rows[m] \in [n : Nat, on : BOOLEAN]
    BY <1>1, <1>5, AnswerIs, ReadsAre DEF ApplyReactions
  <2>2. marks' \in [Messages -> [n : Nat, on : BOOLEAN]]
    BY <1>5, <2>1 DEF ApplyReactions, WTypes
  <2>3. boot.todo \ {Turn} \in SUBSET Channels
    BY DEF WTypes
  <2>4. boot' \in [at : Rests, todo : SUBSET Channels] /\ (boot'.at \in {"messages", "reactions"} => boot'.todo # {})
    BY <1>5, <2>3, AfterTypes DEF ApplyReactions
  <2> QED
    BY <1>5, <2>2, <2>4 DEF ApplyReactions, WTypes
<1> QED
  BY <1>2, <1>3, <1>4, <1>5 DEF WebApplies

LEMMA WebOtherTypes ==
  ASSUME CTypes,
         \/ \E m \in Messages : SendCopy(m) \/ OnCopy(m) \/ Visible(m)
         \/ \E c \in Channels : Create(c) \/ SelectChannel(c)
         \/ Start \/ ServeChannels \/ ServeUnread \/ ServeMessages \/ ServeReactions
  PROVE  WTypes'
<1> USE DEF CTypes
<1>1. ASSUME NEW m \in Messages, SendCopy(m) \/ Visible(m) PROVE WTypes'
  BY <1>1 DEF WTypes, SendCopy, Visible
<1>2. ASSUME NEW m \in Messages, OnCopy(m) PROVE WTypes'
  <2>1. shown' \in [server : [Messages -> 0 .. Gone], p2p : [Messages -> 0 .. Gone]]
    <3>1. shown' = [shown EXCEPT !.p2p = [shown.p2p EXCEPT ![m] = 1]] /\ 1 \in 0 .. Gone
      BY <1>2, WhoIs DEF OnCopy, WTypes
    <3> QED
      BY <3>1 DEF WTypes
  <2> QED
    BY <1>2, <2>1 DEF WTypes, OnCopy
<1>3. ASSUME NEW c \in Channels, Create(c) PROVE WTypes'
  <2>1. [c |-> c, over |-> list] \in [c : Channels, over : Seq(Channels)]
    BY DEF WTypes
  <2> QED
    BY <1>3, <2>1 DEF WTypes, Create
<1>4. ASSUME NEW c \in Channels, SelectChannel(c) PROVE WTypes'
  BY <1>4, SelectTypes DEF WTypes, SelectChannel
<1>5. CASE Start
  BY <1>5 DEF WTypes, Start, Rests
<1>6. CASE ServeChannels \/ ServeUnread \/ ServeMessages \/ ServeReactions
  <2>1. UNCHANGED webVars
    BY <1>6 DEF ServeChannels, ServeUnread, ServeMessages, ServeReactions, Serve
  <2> QED
    BY <2>1 DEF WTypes, webVars
<1> QED
  BY <1>1, <1>2, <1>3, <1>4, <1>5, <1>6

LEMMA WebTypes == ASSUME CTypes, WebStep PROVE WTypes'
  BY WebEventTypes, WebTakesTypes, WebAppliesTypes, WebOtherTypes DEF WebStep, WebTakes, WebApplies
-------------------------------------------------------------------------------
TuiTakes(a) == TuiRewriteAnswer(a) \/ TuiCreateAnswer(a) \/ TuiLoaded(a) \/ Entered(a)

LEMMA TuiFeedTypes == ASSUME CTypes, TuiStep PROVE FTypes'
<1> USE DEF CTypes
<1>1. CASE TuiMessage \/ TuiChannel
  <2>1. TuiEvent /\ inbox[Tui] # <<>>
    BY <1>1 DEF TuiMessage, TuiChannel, TuiHeard
  <2> QED
    BY <2>1, TakenTypes, WhoIs DEF TuiEvent
<1>2. CASE TuiServe \/ \E c \in Channels : Enter(c)
  <2>1. PICK a : /\ IsRead(a) /\ answers' = [answers EXCEPT ![Tui] = @ \cup {a}]
                 /\ missed' = missed \/ \E told : missed' = [missed EXCEPT ![Tui] = @ \ told]
    BY <1>2, ServesAre DEF TuiServe, Enter
  <2>2. UNCHANGED <<scope, ver, seen, reacts, chans, pending, rooms, online, inbox, tangled>>
    BY <1>2 DEF TuiServe, Enter
  <2> QED
    BY <2>1, <2>2, GiveTypes, WhoIs
<1>3. CASE \E a \in answers[Tui] : TuiTakes(a)
  <2>1. PICK a \in answers[Tui] : TuiTakes(a)
    BY <1>3
  <2>2. TuiAnswer(a) /\ (missed' = missed \/ missed' = [missed EXCEPT ![Tui] = @ \cup {m \in Messages : lines[m] # 0}])
    BY <2>1 DEF TuiTakes, TuiRewriteAnswer, TuiCreateAnswer, TuiLoaded, Entered
  <2>3. missed' \in [Clients -> SUBSET Subjects]
    BY <2>2, WhoIs DEF FTypes, Subjects
  <2> QED
    BY <2>2, <2>3, TakeTypes, WhoIs DEF TuiAnswer, FTypes
<1> QED
  BY <1>1, <1>2, <1>3 DEF TuiStep, TuiTakes

LEMMA TuiTypes == ASSUME CTypes, TuiStep PROVE TTypes'
<1> USE DEF CTypes
<1>1. CASE TuiMessage
  <2>1. TuiHead \in Event
    BY <1>1, HeadIs, WhoIs DEF TuiMessage, TuiHead
  <2>2. TuiHead.t \in {"message.created", "message.updated", "message.deleted"} =>
          TuiHead.m \in Messages /\ TuiHead.v \in 0 .. Gone
    BY <2>1, EventsAre, WhoIs
  <2>3. lines' \in [Messages -> 0 .. Gone]
    BY <1>1, <2>2 DEF TuiMessage, Appended, Rewritten, TTypes
  <2> QED
    BY <1>1, <2>3 DEF TuiMessage, TTypes
<1>2. CASE TuiChannel
  <2>1. TuiHead \in Event /\ TuiHead.t = "channel.created"
    BY <1>2, HeadIs, WhoIs DEF TuiChannel, TuiHead, TuiHeard
  <2>2. TuiHead.c \in Channels
    BY <2>1, EventsAre
  <2>3. tabs' \in Seq(Channels)
    BY <1>2, <2>2, AddTypes DEF TuiChannel, TTypes
  <2> QED
    BY <1>2, <2>2, <2>3 DEF TuiChannel, TTypes
<1>3. CASE TuiServe \/ \E c \in Channels : Enter(c)
  BY <1>3 DEF TuiServe, Enter, tuiVars, TTypes
<1>4. CASE \E a \in answers[Tui] : TuiTakes(a)
  <2>1. PICK a \in answers[Tui] : TuiTakes(a)
    BY <1>4
  <2>2. CASE TuiRewriteAnswer(a)
    <3>1. a.m \in Messages /\ a.v \in 0 .. Gone
      BY <2>2, AnswerIs, WhoIs DEF TuiRewriteAnswer
    <3> QED
      BY <2>2, <3>1 DEF TuiRewriteAnswer, Rewritten, TTypes
  <2>3. CASE TuiCreateAnswer(a)
    <3>1. a.c \in Channels
      BY <2>3, AnswerIs, WhoIs DEF TuiCreateAnswer
    <3>2. tabs' \in Seq(Channels)
      BY <2>3, <3>1, AddTypes DEF TuiCreateAnswer, TTypes
    <3> QED
      BY <2>3, <3>1, <3>2 DEF TuiCreateAnswer, TTypes
  <2>4. CASE TuiLoaded(a)
    <3>1. a.cs \in SUBSET Channels
      BY <2>4, AnswerIs, ReadsAre, WhoIs DEF TuiLoaded
    <3>2. SetToSeq(a.cs) \in Seq(a.cs)
      BY <3>1, SeqOfSet, ChannelsFinite
    <3>3. SetToSeq(a.cs) \in Seq(Channels)
      BY <3>1, <3>2
    <3> QED
      BY <2>4, <3>3 DEF TuiLoaded, TTypes
  <2>5. CASE Entered(a)
    BY <2>5, WhoIs DEF Entered, TTypes
  <2> QED
    BY <2>1, <2>2, <2>3, <2>4, <2>5 DEF TuiTakes
<1> QED
  BY <1>1, <1>2, <1>3, <1>4 DEF TuiStep, TuiTakes
-------------------------------------------------------------------------------
LEMMA AnnounceIs ==
  ASSUME FTypes, NEW e \in pending, Announce(e), NEW c \in Clients
  PROVE  /\ e \in Event /\ e.t # "written" /\ pending' = pending \ {e} /\ inbox[c] \in Seq(Event)
         /\ Hears(c, e) => /\ DOMAIN inbox'[c] = DOMAIN inbox[c] \cup {Len(inbox[c]) + 1}
                           /\ \A i \in DOMAIN inbox[c] : inbox'[c][i] = inbox[c][i] /\ i < Len(inbox[c]) + 1
                           /\ inbox'[c][Len(inbox[c]) + 1] = e
                           /\ DOMAIN inbox[c] = 1 .. Len(inbox[c]) /\ Len(inbox[c]) \in Nat
         /\ ~Hears(c, e) => inbox'[c] = inbox[c]
         /\ \A i \in DOMAIN inbox'[c] : \/ i \in DOMAIN inbox[c] /\ inbox'[c][i] = inbox[c][i]
                                        \/ Hears(c, e) /\ inbox'[c][i] = e
         /\ answers'[c] = IF e.by = c /\ e.t # "message.created" THEN answers[c] \cup {e} ELSE answers[c]
         /\ missed'[c] = IF Hears(c, e) THEN missed[c] ELSE missed[c] \cup {Subject(e)}
<1>1. inbox[c] \in Seq(Event) /\ e \in Event
  BY DEF FTypes
<1>2. inbox'[c] = IF Hears(c, e) THEN Append(inbox[c], e) ELSE inbox[c]
  BY DEF Announce
<1>3. answers'[c] = IF e.by = c /\ e.t # "message.created" THEN answers[c] \cup {e} ELSE answers[c]
  BY DEF Announce, FTypes
<1>4. missed'[c] = IF Hears(c, e) THEN missed[c] ELSE missed[c] \cup {Subject(e)}
  BY DEF Announce
<1>5. pending' = pending \ {e} /\ e.t # "written"
  BY DEF Announce
<1>6. CASE Hears(c, e)
  <2>1. inbox'[c] = Append(inbox[c], e)
    BY <1>2, <1>6
  <2> QED
    BY <1>1, <1>3, <1>4, <1>5, <1>6, <2>1, AppendTypes
<1> QED
  BY <1>1, <1>2, <1>3, <1>4, <1>5, <1>6

\* Nothing that was queued goes.
LEMMA AnnounceKeeps ==
  ASSUME FTypes, NEW e \in pending, Announce(e), NEW c \in Clients
  PROVE  /\ \A i \in DOMAIN inbox[c] : i \in DOMAIN inbox'[c] /\ inbox'[c][i] = inbox[c][i]
         /\ \A i \in DOMAIN inbox'[c] : (i \in DOMAIN inbox[c] /\ inbox'[c][i] = inbox[c][i]) \/ inbox'[c][i] = e
         /\ missed[c] \subseteq missed'[c]
<1>1. Hears(c, e) =>
        /\ DOMAIN inbox'[c] = DOMAIN inbox[c] \cup {Len(inbox[c]) + 1}
        /\ \A i \in DOMAIN inbox[c] : inbox'[c][i] = inbox[c][i]
        /\ missed'[c] = missed[c]
  BY AnnounceIs
<1>2. ~Hears(c, e) => inbox'[c] = inbox[c] /\ missed'[c] = missed[c] \cup {Subject(e)}
  BY AnnounceIs
<1>3. \A i \in DOMAIN inbox'[c] : (i \in DOMAIN inbox[c] /\ inbox'[c][i] = inbox[c][i]) \/ inbox'[c][i] = e
  BY AnnounceIs
<1> QED
  BY <1>1, <1>2, <1>3

LEMMA TakeIs ==
  ASSUME FTypes, NEW c \in Clients, inbox[c] # <<>>, inbox' = [inbox EXCEPT ![c] = Tail(@)]
  PROVE  /\ inbox[c] \in Seq(Event) /\ Head(inbox[c]) = inbox[c][1] /\ Head(inbox[c]) \in Event
         /\ DOMAIN inbox[c] = 1 .. Len(inbox[c]) /\ 1 \in DOMAIN inbox[c] /\ Len(inbox[c]) \in Nat
         /\ \A i \in DOMAIN inbox'[c] : i \in Nat /\ i + 1 \in DOMAIN inbox[c] /\ inbox'[c][i] = inbox[c][i + 1]
         /\ \A i \in DOMAIN inbox[c] : i \in Nat /\ (i = 1 \/ (i - 1 \in DOMAIN inbox'[c] /\ inbox'[c][i - 1] = inbox[c][i]))
         /\ \A d \in Clients : d # c => inbox'[d] = inbox[d]
<1>1. inbox[c] \in Seq(Event)
  BY DEF FTypes
<1>2. inbox'[c] = Tail(inbox[c]) /\ \A d \in Clients : d # c => inbox'[d] = inbox[d]
  BY DEF FTypes
<1>3. /\ Tail(inbox[c]) \in Seq(Event) /\ Head(inbox[c]) = inbox[c][1] /\ 1 \in DOMAIN inbox[c]
      /\ DOMAIN inbox[c] = 1 .. Len(inbox[c]) /\ Len(inbox[c]) \in Nat
      /\ DOMAIN Tail(inbox[c]) = 1 .. Len(inbox[c]) - 1
      /\ \A i \in DOMAIN Tail(inbox[c]) : i + 1 \in DOMAIN inbox[c] /\ Tail(inbox[c])[i] = inbox[c][i + 1]
      /\ \A i \in DOMAIN inbox[c] : i = 1 \/ (i - 1 \in DOMAIN Tail(inbox[c]) /\ Tail(inbox[c])[i - 1] = inbox[c][i])
  BY <1>1, TailTypes
<1>4. Head(inbox[c]) \in Event
  BY <1>1, <1>3
<1>5. /\ \A i \in DOMAIN Tail(inbox[c]) : i \in Nat
      /\ \A i \in DOMAIN inbox[c] : i \in Nat
  BY <1>3
<1>6. inbox'[c] = Tail(inbox[c])
  BY <1>2
<1> QED
  BY <1>1, <1>2, <1>3, <1>4, <1>5, <1>6

LEMMA PassedServer ==
  ASSUME CTypes, ServerStep, UNCHANGED <<webVars, tuiVars>>
  PROVE  Passed'
<1> USE DEF CTypes
<1>1. UNCHANGED <<boot, loading>>
  BY DEF webVars, tuiVars
<1>2. CASE UNCHANGED <<inbox, answers>>
  BY <1>1, <1>2 DEF Passed
<1>3. ASSUME NEW e \in pending, Announce(e) PROVE Passed'
  <2>1. e \in Event /\ e.t # "written" /\ e.t \notin ReadKinds
    BY <1>3, EventsAre DEF Announce, FTypes, ReadKinds
  <2>2. \A c \in Clients : \A i \in DOMAIN inbox'[c] : inbox'[c][i].t \notin {"forwarded", "written"}
    <3>1. ASSUME NEW c \in Clients, Hears(c, e) PROVE e.t # "forwarded"
      BY <3>1 DEF Hears
    <3>4. \A c \in Clients : \A i \in DOMAIN inbox'[c] :
            \/ i \in DOMAIN inbox[c] /\ inbox'[c][i] = inbox[c][i]
            \/ Hears(c, e) /\ inbox'[c][i] = e
      BY <1>3, AnnounceIs
    <3> QED
      BY <2>1, <3>1, <3>4 DEF Passed
  <2>3. \A c \in Clients : \A a \in answers'[c] : a \in answers[c] \/ (a = e /\ e.by = c /\ e.t # "message.created")
    BY <1>3 DEF Announce, FTypes
  <2> QED
    BY <1>1, <2>1, <2>2, <2>3, WhoIs DEF Passed
<1>4. ASSUME NEW c \in Clients, Leave(c) \/ Join(c) PROVE Passed'
  <2>1. answers' = answers /\ \A d \in Clients : inbox'[d] = inbox[d] \/ inbox'[d] = <<>>
    BY <1>4 DEF Leave, Join, FTypes
  <2>2. DOMAIN <<>> = {}
    OBVIOUS
  <2> QED
    BY <1>1, <2>1, <2>2 DEF Passed
<1> QED
  BY <1>2, <1>3, <1>4 DEF ServerStep, Writes, Send, Edit, Delete, Forward, React, CountReaction, CreateChannel

LEMMA FewerPass ==
  ASSUME FTypes, Passed, NEW c \in Clients, inbox[c] # <<>>, inbox' = [inbox EXCEPT ![c] = Tail(@)]
  PROVE  \A d \in Clients : \A i \in DOMAIN inbox'[d] : inbox'[d][i].t \notin {"forwarded", "written"}
<1>1. \A i \in DOMAIN inbox'[c] : \E j \in DOMAIN inbox[c] : inbox'[c][i] = inbox[c][j]
  BY TakeIs
<1>2. \A d \in Clients : d # c => inbox'[d] = inbox[d]
  BY TakeIs
<1> QED
  BY <1>1, <1>2 DEF Passed

LEMMA PassedWeb ==
  ASSUME CTypes, WebStep, UNCHANGED tuiVars
  PROVE  Passed'
<1> USE DEF CTypes
<1>1. loading' = loading /\ Web \in Clients /\ Tui \in Clients /\ Web # Tui
  BY WhoIs DEF tuiVars
<1>2. CASE OnCreated \/ OnRewritten \/ OnReaction \/ OnChannel
  <2>1. TakeEvent /\ inbox[Web] # <<>> /\ boot' = boot
    BY <1>2 DEF OnCreated, OnRewritten, OnReaction, OnChannel, Heard
  <2>2. \A d \in Clients : \A i \in DOMAIN inbox'[d] : inbox'[d][i].t \notin {"forwarded", "written"}
    BY <1>1, <2>1, FewerPass DEF TakeEvent
  <2> QED
    BY <1>1, <2>1, <2>2 DEF Passed, TakeEvent
<1>3. CASE UNCHANGED <<inbox, answers, boot>>
  BY <1>1, <1>3 DEF Passed
<1>4. ASSUME NEW a \in answers[Web], WebTakes(a) \/ WebApplies(a) PROVE Passed'
  <2>1. TakeAnswer(a)
    BY <1>4 DEF WebTakes, WebApplies, OnRewriteAnswer, OnReactionAnswer, OnForwardAnswer, OnCreateAnswer,
                ApplyChannels, ApplyUnread, ApplyMessages, ApplyReactions, Applying
  <2>2. answers'[Web] = answers[Web] \ {a} /\ inbox' = inbox
        /\ \A d \in Clients : d # Web => answers'[d] = answers[d]
    BY <1>1, <2>1 DEF TakeAnswer, FTypes
  <2>3. CASE WebTakes(a)
    <3>1. boot' = boot
      BY <2>3 DEF WebTakes, OnRewriteAnswer, OnReactionAnswer, OnForwardAnswer, OnCreateAnswer
    <3> QED
      BY <1>1, <2>2, <3>1 DEF Passed
  <2>4. CASE WebApplies(a)
    <3>1. a.t = boot.at /\ a.t \in ReadKinds
      BY <2>4 DEF WebApplies, ApplyChannels, ApplyUnread, ApplyMessages, ApplyReactions, Applying, ReadKinds
    <3>2. \A b \in answers'[Web] : b.t \notin ReadKinds
      BY <2>2, <3>1, <1>1 DEF Passed
    <3> QED
      BY <1>1, <2>2, <3>2 DEF Passed
  <2> QED
    BY <1>4, <2>3, <2>4
<1>5. CASE Start
  <2>1. boot.at = "idle" /\ UNCHANGED <<inbox, answers>>
    BY <1>5 DEF Start, feedVars
  <2>2. \A b \in answers[Web] : b.t \notin ReadKinds
    BY <2>1 DEF Passed, ReadKinds
  <2> QED
    BY <1>1, <2>1, <2>2 DEF Passed
<1>6. CASE ServeChannels \/ ServeUnread \/ ServeMessages \/ ServeReactions
  <2>1. PICK a, told : a.t = boot.at /\ ~Waiting(a.t) /\ a.t \in ReadKinds /\ Serve(a, told)
    BY <1>6 DEF ServeChannels, ServeUnread, ServeMessages, ServeReactions, Serving, ReadKinds
  <2>2. answers'[Web] = answers[Web] \cup {a} /\ inbox' = inbox /\ boot' = boot
        /\ \A d \in Clients : d # Web => answers'[d] = answers[d]
    BY <2>1, <1>1 DEF Serve, FTypes, webVars
  <2>3. \A b \in answers[Web] : b.t # a.t
    BY <2>1 DEF Waiting
  <2> QED
    BY <1>1, <2>1, <2>2, <2>3 DEF Passed
<1>7. ASSUME NEW m \in Messages, SendCopy(m) \/ OnCopy(m) \/ Visible(m) PROVE Passed'
  BY <1>3, <1>7 DEF SendCopy, OnCopy, Visible, feedVars, AckRead
<1>8. ASSUME NEW c \in Channels, Create(c) \/ SelectChannel(c) PROVE Passed'
  BY <1>3, <1>8 DEF Create, SelectChannel, CreateChannel
<1> QED
  BY <1>2, <1>4, <1>5, <1>6, <1>7, <1>8 DEF WebStep, WebTakes, WebApplies

LEMMA PassedTui ==
  ASSUME CTypes, TuiStep, UNCHANGED webVars
  PROVE  Passed'
<1> USE DEF CTypes
<1>1. boot' = boot /\ Web \in Clients /\ Tui \in Clients /\ Web # Tui
  BY WhoIs DEF webVars
<1>2. CASE TuiMessage \/ TuiChannel
  <2>1. TuiEvent /\ inbox[Tui] # <<>> /\ loading' = loading
    BY <1>2 DEF TuiMessage, TuiChannel, TuiHeard
  <2>2. \A d \in Clients : \A i \in DOMAIN inbox'[d] : inbox'[d][i].t \notin {"forwarded", "written"}
    BY <1>1, <2>1, FewerPass DEF TuiEvent
  <2> QED
    BY <1>1, <2>1, <2>2 DEF Passed, TuiEvent
<1>3. CASE TuiServe \/ \E c \in Channels : Enter(c)
  <2> DEFINE Given(a) == /\ answers' = [answers EXCEPT ![Tui] = @ \cup {a}]
                         /\ inbox' = inbox /\ loading' = loading
  <2>1. ASSUME NEW a, a.t \in ReadKinds, a.t = "page" \/ (a.t = "channels" /\ loading),
               \A b \in answers[Tui] : b.t # a.t, Given(a)
        PROVE  Passed'
    <3>1. answers'[Tui] = answers[Tui] \cup {a} /\ \A d \in Clients : d # Tui => answers'[d] = answers[d]
      BY <1>1, <2>1 DEF FTypes
    <3> QED
      BY <1>1, <2>1, <3>1 DEF Passed
  <2>2. CASE TuiServe
    <3>1. Given([t |-> "channels", cs |-> chans]) /\ loading /\ \A b \in answers[Tui] : b.t # "channels"
      BY <2>2 DEF TuiServe, tuiVars
    <3>2. [t |-> "channels", cs |-> chans].t = "channels"
      OBVIOUS
    <3> HIDE DEF Given
    <3> QED
      BY <2>1, <3>1, <3>2 DEF ReadKinds
  <2>3. CASE \E c \in Channels : Enter(c)
    <3>1. Given([t |-> "page", page |-> {}]) /\ \A b \in answers[Tui] : b.t # "page"
      BY <2>3 DEF Enter
    <3>2. [t |-> "page", page |-> {}].t = "page"
      OBVIOUS
    <3> HIDE DEF Given
    <3> QED
      BY <2>1, <3>1, <3>2 DEF ReadKinds
  <2> QED
    BY <1>3, <2>2, <2>3
<1>4. ASSUME NEW a \in answers[Tui], TuiTakes(a) PROVE Passed'
  <2>1. TuiAnswer(a)
    BY <1>4 DEF TuiTakes, TuiRewriteAnswer, TuiCreateAnswer, TuiLoaded, Entered
  <2>2. answers'[Tui] = answers[Tui] \ {a} /\ inbox' = inbox
        /\ \A d \in Clients : d # Tui => answers'[d] = answers[d]
    BY <2>1, <1>1 DEF TuiAnswer, FTypes
  <2>3. loading' = loading \/ a.t = "channels"
    BY <1>4 DEF TuiTakes, TuiRewriteAnswer, TuiCreateAnswer, TuiLoaded, Entered
  <2>4. \A b \in answers'[Tui] : a.t = "channels" => b.t # "channels"
    BY <1>1, <2>2 DEF Passed, ReadKinds
  <2> QED
    BY <1>1, <2>2, <2>3, <2>4 DEF Passed
<1> QED
  BY <1>2, <1>3, <1>4 DEF TuiStep, TuiTakes

LEMMA TypesKept == ASSUME CTypes, [Next]_vars PROVE CTypes'
<1> USE DEF CTypes
<1>1. CASE ServerStep /\ UNCHANGED <<webVars, tuiVars>>
  <2>1. FTypes' /\ Passed'
    BY <1>1, ServerTypes, PassedServer
  <2> QED
    BY <1>1, <2>1 DEF WTypes, TTypes, webVars, tuiVars
<1>2. CASE WebStep /\ UNCHANGED tuiVars
  <2>1. FTypes' /\ WTypes' /\ Passed'
    BY <1>2, WebFeedTypes, WebTypes, PassedWeb
  <2> QED
    BY <1>2, <2>1 DEF TTypes, tuiVars
<1>3. CASE TuiStep /\ UNCHANGED webVars
  <2>1. FTypes' /\ TTypes' /\ Passed'
    BY <1>3, TuiFeedTypes, TuiTypes, PassedTui
  <2> QED
    BY <1>3, <2>1 DEF WTypes, webVars
<1>4. CASE UNCHANGED <<feedVars, webVars, tuiVars>>
  BY <1>4 DEF FTypes, WTypes, TTypes, Passed, feedVars, webVars, tuiVars, IsRead
<1> QED
  BY <1>1, <1>2, <1>3, <1>4, NextIs
-------------------------------------------------------------------------------
LEMMA TypesInit == ASSUME Init PROVE CTypes
<1> USE DEF Init
<1>1. scope \in Scopes /\ scope.chans \subseteq Channels /\ scope.chans # {} /\ scope.old \subseteq Messages
      /\ scope.present \subseteq Clients
  BY WhoIs DEF FeedInit
<1>2. \A c \in Clients : DOMAIN inbox[c] = {} /\ inbox[c] \in Seq(Event) /\ answers[c] = {}
  BY DEF FeedInit
<1>3. Passed
  BY <1>2, WhoIs DEF Passed
<1>4. FTypes
  <2>1. ver \in [Messages -> 0 .. Gone]
    BY WhoIs DEF FeedInit
  <2>2. reacts \subseteq Messages \X Users
    BY <1>1, WhoIs DEF FeedInit
  <2>3. inbox \in [Clients -> Seq(Event)] /\ DOMAIN answers = Clients
    BY <1>2 DEF FeedInit
  <2>4. missed \in [Clients -> SUBSET Subjects]
    BY <1>1 DEF FeedInit, Subjects
  <2>5. seen \in [Users -> SUBSET Messages] /\ rooms \in [Clients -> SUBSET Channels]
    BY <1>1 DEF FeedInit
  <2> QED
    BY <1>1, <1>2, <2>1, <2>2, <2>3, <2>4, <2>5 DEF FeedInit, FTypes
<1>5. SetToSeq(scope.chans) \in Seq(Channels) /\ SetToSeq(scope.chans)[1] \in Channels
  <2>1. SetToSeq(scope.chans) \in Seq(scope.chans) /\ SetToSeq(scope.chans)[1] \in scope.chans
    BY <1>1, ChannelsFinite, SeqOfSet
  <2> QED
    BY <1>1, <2>1
<1>6. None \in [Messages -> 0 .. Gone] /\ ver \in [Messages -> 0 .. Gone]
  BY <1>4, WhoIs DEF None, FTypes
<1>7. WTypes
  <2>1. shown \in [server : [Messages -> 0 .. Gone], p2p : [Messages -> 0 .. Gone]]
    BY <1>6 DEF WebInit
  <2>2. marks \in [Messages -> [n : Nat, on : BOOLEAN]]
    BY CountIs DEF WebInit, NoMark
  <2>3. list \in Seq(Channels) /\ active \in Channels \cup {NoChannel}
    BY <1>5 DEF WebInit
  <2> QED
    BY <2>1, <2>2, <2>3 DEF WebInit, WTypes, Rests
<1>8. TTypes
  <2>1. lines \in [Messages -> 0 .. Gone]
    BY <1>6, WhoIs DEF TuiInit, FTypes
  <2>2. tabs \in Seq(Channels) /\ loading \in BOOLEAN
    BY <1>5 DEF TuiInit, May
  <2> QED
    BY <2>1, <2>2 DEF TuiInit, TTypes
<1> QED
  BY <1>3, <1>4, <1>7, <1>8 DEF CTypes
-------------------------------------------------------------------------------
(* The panel *)

LEMMA ScopeStays == ASSUME FTypes, [Next]_vars PROVE scope' = scope
<1>1. CASE ServerStep
  BY <1>1 DEF ServerStep, Writes, Send, Edit, Delete, Forward, React, CountReaction, CreateChannel, Announce, Leave, Join
<1>2. CASE WebStep
  <2>1. CASE \E m \in Messages : SendCopy(m) \/ OnCopy(m) \/ Visible(m)
    BY <2>1 DEF SendCopy, OnCopy, Visible, AckRead, feedVars
  <2>2. CASE OnCreated \/ OnRewritten \/ OnReaction \/ OnChannel
    BY <2>2 DEF OnCreated, OnRewritten, OnReaction, OnChannel, TakeEvent
  <2>3. CASE \E a \in answers[Web] : WebTakes(a) \/ WebApplies(a)
    BY <2>3 DEF WebTakes, WebApplies, OnRewriteAnswer, OnReactionAnswer, OnForwardAnswer, OnCreateAnswer,
                ApplyChannels, ApplyUnread, ApplyMessages, ApplyReactions, Applying, TakeAnswer
  <2>4. CASE \E c \in Channels : Create(c) \/ SelectChannel(c)
    BY <2>4 DEF Create, CreateChannel, SelectChannel
  <2>5. CASE Start \/ ServeChannels \/ ServeUnread \/ ServeMessages \/ ServeReactions
    BY <2>5 DEF Start, ServeChannels, ServeUnread, ServeMessages, ServeReactions, Serve, feedVars
  <2> QED
    BY <1>2, <2>1, <2>2, <2>3, <2>4, <2>5 DEF WebStep, WebTakes, WebApplies
<1>3. CASE TuiStep
  BY <1>3 DEF TuiStep, TuiMessage, TuiChannel, TuiEvent, TuiServe, Enter, TuiRewriteAnswer, TuiCreateAnswer,
              TuiLoaded, Entered, TuiAnswer
<1> QED
  BY <1>1, <1>2, <1>3, NextIs DEF feedVars

\* Another channel is only put on screen by a selection of one.
LEMMA Opening == ASSUME CTypes, WebStep, active' # active PROVE active' \in Channels
<1>1. CASE \E a \in answers[Web] : WebTakes(a) \/ WebApplies(a)
  <2>1. PICK a \in answers[Web] : WebTakes(a) \/ WebApplies(a)
    BY <1>1
  <2>2. CASE OnForwardAnswer(a)
    <3>1. Home(a.m) \in Channels /\ active' = Home(a.m)
      BY <2>2, AnswerIs, WhoIs DEF OnForwardAnswer, Select, CTypes, FTypes
    <3> QED
      BY <3>1
  <2>3. CASE OnCreateAnswer(a)
    BY <2>3, AnswerIs, WhoIs DEF OnCreateAnswer, Select, CTypes
  <2>4. CASE ApplyChannels(a)
    <3>1. a.cs \in SUBSET Channels /\ a.cs # {}
      BY <2>4, AnswerIs, ReadsAre, WhoIs DEF ApplyChannels, CTypes
    <3>2. SetToSeq(a.cs)[1] \in a.cs
      BY <3>1, SeqOfSet, ChannelsFinite
    <3> QED
      BY <2>4, <3>1, <3>2 DEF ApplyChannels, Select
  <2>5. CASE ~OnForwardAnswer(a) /\ ~OnCreateAnswer(a) /\ ~ApplyChannels(a)
    BY <2>1, <2>5 DEF WebTakes, WebApplies, OnRewriteAnswer, OnReactionAnswer,
                ApplyUnread, ApplyMessages, ApplyReactions
  <2> QED
    BY <2>2, <2>3, <2>4, <2>5
<1>2. CASE \E c \in Channels : SelectChannel(c)
  BY <1>2 DEF SelectChannel, Select
<1>3. CASE ~(\E a \in answers[Web] : WebTakes(a) \/ WebApplies(a)) /\ ~(\E c \in Channels : SelectChannel(c))
  <2>1. active' = active
    BY <1>3 DEF WebStep, WebTakes, WebApplies, OnCreated, OnRewritten, OnReaction, OnChannel, SendCopy, OnCopy, Visible,
                Create, Start, ServeChannels, ServeUnread, ServeMessages, ServeReactions, Serve, webVars
  <2> QED
    BY <2>1
<1> QED
  BY <1>1, <1>2, <1>3

PanelTypes ==
    /\ people \in [Channels -> SUBSET Users]
    /\ reads \subseteq ReadRec /\ edits \subseteq EditRec /\ drift \in BOOLEAN
    /\ \A e \in edits : e.at = "answered" => e.op = "add"
    /\ ~May("members") => reads = {} /\ edits = {}
    /\ \A r, s \in Fresh : r = s
PanelTrue ==
    /\ \A e, f \in edits : e = f
    /\ Fresh = {} \/ edits = {}
    /\ \A r \in Fresh : ReadsScreen(r)
    /\ \A e \in edits : Ready(e)
    /\ Fresh = {} /\ edits = {} /\ May("members") /\ active # NoChannel => panel = {active} \X people[active]

LEMMA PanelIs == PanelInv <=> PanelTypes /\ (~drift => PanelTrue)
  BY DEF PanelInv, PanelTypes, PanelTrue, PanelRight

LEMMA EffectRight ==
  ASSUME PanelInv, NEW c \in Channels, Effect(c), May("members"), active' = c, scope' = scope
  PROVE  PanelInv'
<1>1. PanelTypes
  BY PanelIs
<1>2. Fresh' = {Read(c, TRUE)}
  <2>1. \A r \in Cancelled : ~r.live
    BY <1>1 DEF PanelTypes, ReadRec, Cancelled
  <2> QED
    BY <2>1 DEF Effect, Fresh, Read
<1>3. PanelTypes'
  <2>1. Read(c, TRUE) \in ReadRec /\ Cancelled \subseteq ReadRec
    BY <1>1 DEF Read, ReadRec, Cancelled, PanelTypes
  <2> QED
    BY <1>1, <1>2, <2>1 DEF PanelTypes, Effect, May
<1>4. ~drift' => PanelTrue'
  <2>1. ASSUME ~drift' PROVE edits' = {}
    BY <2>1 DEF Effect
  <2>2. Read(c, TRUE).c = c /\ Read(c, TRUE).at = "asked"
    BY DEF Read
  <2>3. \A r \in Fresh' : ReadsScreen(r)'
    BY <1>2, <2>2 DEF ReadsScreen
  <2> QED
    BY <1>2, <2>1, <2>3 DEF PanelTrue
<1> QED
  BY <1>3, <1>4, PanelIs DEF PanelInv, PanelTypes, PanelTrue, PanelRight

LEMMA ReadsRight ==
  ASSUME PanelInv, NEW r \in reads, ServeRead(r) \/ TakeRead(r) \/ LoseRead(r), UNCHANGED <<active, scope>>
  PROVE  PanelInv'
<1>1. PanelTypes /\ (~drift => PanelTrue)
  BY PanelIs
<1>2. r \in ReadRec /\ May("members") /\ May("members")' = May("members")
  BY <1>1 DEF PanelTypes, May
<1>3. CASE ServeRead(r)
  <2>0. PICK s : s = [r EXCEPT !.at = "answered", !.rows = people[r.c]]
    OBVIOUS
  <2>1. s \in ReadRec /\ s.live = r.live /\ s.c = r.c /\ s.rows = people[r.c] /\ s.at = "answered"
    BY <1>1, <1>2, <2>0 DEF ReadRec, PanelTypes
  <2>2. reads' = (reads \ {r}) \cup {s} /\ UNCHANGED <<people, panel, edits, drift>>
    BY <1>3, <2>0 DEF ServeRead
  <2>3. Fresh' = IF r.live THEN {s} ELSE Fresh
    BY <1>1, <2>1, <2>2 DEF Fresh, PanelTypes
  <2>4. PanelTypes'
    BY <1>1, <1>2, <2>1, <2>2, <2>3 DEF PanelTypes
  <2>5. ASSUME ~drift' PROVE PanelTrue'
    <3>1. PanelTrue
      BY <1>1, <2>2, <2>5
    <3>2. r.live => ReadsScreen(s)'
      BY <2>1, <2>2, <3>1 DEF PanelTrue, ReadsScreen, Fresh
    <3>3. \A e \in edits' : Ready(e)'
      BY <2>2, <3>1 DEF PanelTrue, Ready
    <3>4. \A q \in Fresh' : ReadsScreen(q)'
      BY <2>2, <2>3, <3>1, <3>2 DEF PanelTrue, ReadsScreen
    <3>5. r.live => Fresh # {}
      BY DEF Fresh
    <3> QED
      BY <1>2, <2>2, <2>3, <3>1, <3>3, <3>4, <3>5 DEF PanelTrue
  <2> QED
    BY <2>4, <2>5 DEF PanelInv, PanelTypes, PanelTrue, PanelRight
<1>4. CASE TakeRead(r)
  <2>1. reads' = reads \ {r} /\ UNCHANGED <<people, edits, drift>> /\ r.at = "answered"
        /\ panel' = IF r.live THEN {r.c} \X r.rows ELSE panel
    BY <1>4 DEF TakeRead, Taken
  <2>2. Fresh' = IF r.live THEN {} ELSE Fresh
    BY <1>1, <2>1 DEF Fresh, PanelTypes
  <2>3. PanelTypes'
    BY <1>1, <1>2, <2>1, <2>2 DEF PanelTypes
  <2>4. ASSUME ~drift' PROVE PanelTrue'
    <3>1. PanelTrue
      BY <1>1, <2>1, <2>4
    <3>2. CASE r.live
      <4>1. ReadsScreen(r) /\ edits = {}
        BY <3>1, <3>2 DEF PanelTrue, Fresh
      <4> QED
        BY <2>1, <2>2, <3>2, <4>1 DEF PanelTrue, ReadsScreen
    <3>3. CASE ~r.live
      <4>1. UNCHANGED <<panel, people, edits>> /\ Fresh' = Fresh
        BY <2>1, <2>2, <3>3
      <4> QED
        BY <1>2, <3>1, <4>1 DEF PanelTrue, ReadsScreen, Ready
    <3> QED
      BY <3>2, <3>3
  <2> QED
    BY <2>3, <2>4 DEF PanelInv, PanelTypes, PanelTrue, PanelRight
<1>5. CASE LoseRead(r)
  <2>1. reads' = reads \ {r} /\ UNCHANGED <<people, edits>> /\ drift' = (drift \/ r.live)
        /\ (~r.live => panel' = panel)
    BY <1>5 DEF LoseRead
  <2>2. Fresh' = Fresh \ {r} /\ drift' \in BOOLEAN
    BY <1>1, <1>2, <2>1 DEF Fresh, PanelTypes, ReadRec
  <2>3. PanelTypes'
    BY <1>1, <1>2, <2>1, <2>2 DEF PanelTypes
  <2>4. ASSUME ~drift' PROVE PanelTrue'
    <3>1. PanelTrue /\ ~r.live
      BY <1>1, <2>1, <2>4
    <3>2. UNCHANGED <<panel, people, edits>> /\ Fresh' = Fresh
      BY <2>1, <2>2, <3>1 DEF Fresh
    <3> QED
      BY <1>2, <3>1, <3>2 DEF PanelTrue, ReadsScreen, Ready
  <2> QED
    BY <2>3, <2>4 DEF PanelInv, PanelTypes, PanelTrue, PanelRight
<1> QED
  BY <1>3, <1>4, <1>5

LEMMA EditsRight ==
  ASSUME PanelInv, active \in Channels \cup {NoChannel}, NEW op \in {"add", "remove"}, NEW u \in Users, Edits(op, u),
         UNCHANGED <<active, scope>>
  PROVE  PanelInv'
<1>1. PanelTypes /\ (~drift => PanelTrue)
  BY PanelIs
<1>2. PICK f : f = [op |-> op, c |-> active, u |-> u, at |-> "asked", rows |-> {}]
  OBVIOUS
<1>3. f \in EditRec /\ f.at = "asked" /\ f.c = active /\ f.u = u /\ May("members")' /\ May("members")
  BY <1>2 DEF EditRec, Edits, May
<1>4. edits' = edits \cup {f} /\ UNCHANGED <<people, panel, reads>> /\ Fresh' = Fresh
      /\ drift' = (drift \/ edits # {} \/ Fresh # {})
  BY <1>2 DEF Edits, Fresh
<1>5. PanelTypes'
  BY <1>1, <1>3, <1>4 DEF PanelTypes
<1>6. ASSUME ~drift' PROVE PanelTrue'
  <2>1. PanelTrue /\ edits = {} /\ Fresh = {} /\ active # NoChannel
    BY <1>1, <1>4, <1>6 DEF Edits
  <2>2. panel = {active} \X people[active]
    BY <1>3, <2>1 DEF PanelTrue
  <2>3. Ready(f)'
    BY <1>3, <1>4, <2>2 DEF Ready
  <2> QED
    BY <1>4, <2>1, <2>3 DEF PanelTrue
<1> QED
  BY <1>5, <1>6 DEF PanelInv, PanelTypes, PanelTrue, PanelRight

LEMMA PerformRight ==
  ASSUME PanelInv, NEW e \in edits, Perform(e) \/ ReadBack(e), UNCHANGED <<active, scope>>
  PROVE  PanelInv'
<1>1. PanelTypes /\ (~drift => PanelTrue)
  BY PanelIs
<1>2. e \in EditRec /\ May("members") /\ May("members")' = May("members") /\ Fresh' = Fresh
  BY <1>1 DEF PanelTypes, May, Fresh, Perform, ReadBack
<1>3. PICK f : f = IF Perform(e) THEN [e EXCEPT !.at = "performed"] ELSE [e EXCEPT !.at = "answered", !.rows = people[e.c]]
  OBVIOUS
<1>4. f \in EditRec /\ f.op = e.op /\ f.c = e.c /\ f.u = e.u
      /\ (Perform(e) => f.at = "performed")
      /\ (~Perform(e) => f.at = "answered" /\ f.rows = people[e.c] /\ e.op = "add")
  BY <1>1, <1>2, <1>3 DEF EditRec, PanelTypes, ReadBack
<1>5. edits' = (edits \ {e}) \cup {f} /\ UNCHANGED <<panel, reads>>
  BY <1>3 DEF Perform, ReadBack, Become
<1>6. people' = people \/ people' = [people EXCEPT ![e.c] = IF e.op = "add" THEN @ \cup {e.u} ELSE @ \ {e.u}]
  BY DEF Perform, ReadBack
<1>7. people' \in [Channels -> SUBSET Users] /\ drift' \in BOOLEAN
  <2>1. people \in [Channels -> SUBSET Users] /\ e.u \in Users /\ e.c \in Channels
    BY <1>1, <1>2 DEF PanelTypes, EditRec
  <2>2. people' \in [Channels -> SUBSET Users]
    BY <1>6, <2>1
  <2>3. drift' = drift \/ drift' = (drift \/ e.op = "remove")
    BY DEF Perform, ReadBack
  <2>4. drift' \in BOOLEAN
    BY <1>1, <2>3 DEF PanelTypes
  <2> QED
    BY <2>2, <2>4
<1>8. PanelTypes'
  BY <1>1, <1>2, <1>4, <1>5, <1>7 DEF PanelTypes
<1>9. ASSUME ~drift' PROVE PanelTrue'
  <2>1. ~drift /\ PanelTrue
    <3>1. drift' = drift \/ drift' = (drift \/ e.op = "remove")
      BY DEF Perform, ReadBack
    <3>2. ~drift
      BY <1>9, <3>1
    <3> QED
      BY <1>1, <3>2
  <2>2. edits' = {f} /\ Fresh = {} /\ Ready(e)
    BY <1>5, <2>1 DEF PanelTrue
  <2>3. e.c = active /\ active \in Channels
    BY <1>2, <2>2 DEF Ready, EditRec
  <2>4. Ready(f)'
    <3>1. CASE Perform(e) /\ e.op = "remove"
      <4>1. e.at = "asked" /\ people' = [people EXCEPT ![e.c] = @ \ {e.u}]
        BY <1>9, <3>1 DEF Perform
      <4>2. panel = {active} \X people[active]
        BY <2>2, <3>1, <4>1 DEF Ready
      <4>3. people'[active] = people[active] \ {e.u}
        BY <1>1, <2>3, <4>1 DEF PanelTypes
      <4>4. {p \in panel : p[2] # e.u} = {active} \X people'[active]
        BY <4>2, <4>3
      <4> QED
        BY <1>4, <1>5, <2>3, <3>1, <4>4 DEF Ready
    <3>2. CASE Perform(e) /\ e.op # "remove"
      BY <1>4, <2>3, <3>2 DEF Ready
    <3>3. CASE ~Perform(e)
      <4>1. people' = people
        BY <3>3 DEF ReadBack
      <4> QED
        BY <1>4, <2>3, <3>3, <4>1 DEF Ready
    <3> QED
      BY <3>1, <3>2, <3>3
  <2> QED
    BY <1>2, <2>2, <2>4 DEF PanelTrue
<1> QED
  BY <1>8, <1>9 DEF PanelInv, PanelTypes, PanelTrue, PanelRight

LEMMA ShowsRight ==
  ASSUME PanelInv, NEW e \in edits, ShowAdded(e) \/ ShowRemoved(e) \/ LoseEdit(e), UNCHANGED <<active, scope>>
  PROVE  PanelInv'
<1>1. PanelTypes /\ (~drift => PanelTrue)
  BY PanelIs
<1>2. e \in EditRec /\ May("members") /\ May("members")' = May("members") /\ Fresh' = Fresh
  BY <1>1 DEF PanelTypes, May, Fresh, ShowAdded, ShowRemoved, LoseEdit
<1>3. edits' = edits \ {e} /\ UNCHANGED <<people, reads>> /\ drift' \in BOOLEAN
  BY <1>1 DEF PanelTypes, ShowAdded, ShowRemoved, LoseEdit
<1>4. PanelTypes'
  BY <1>1, <1>2, <1>3 DEF PanelTypes
<1>5. ASSUME ~drift' PROVE PanelTrue'
  <2>1. ~drift /\ PanelTrue /\ (ShowAdded(e) \/ ShowRemoved(e))
    BY <1>1, <1>5 DEF ShowAdded, ShowRemoved, LoseEdit
  <2>2. edits' = {} /\ Fresh = {} /\ Ready(e)
    BY <1>3, <2>1 DEF PanelTrue
  <2>3. panel' = {active} \X people[active]
    <3>1. CASE ShowAdded(e)
      BY <1>1, <2>2, <3>1 DEF ShowAdded, Ready, PanelTypes
    <3>2. CASE ShowRemoved(e)
      BY <2>2, <3>2 DEF ShowRemoved, Ready
    <3> QED
      BY <2>1, <3>1, <3>2
  <2> QED
    BY <1>2, <1>3, <2>2, <2>3 DEF PanelTrue
<1> QED
  BY <1>4, <1>5 DEF PanelInv, PanelTypes, PanelTrue, PanelRight

LEMMA OthersRight ==
  ASSUME PanelInv, NEW c \in Channels, NEW u \in Users, Others(c, u), UNCHANGED <<active, scope>>,
         active \in Channels \cup {NoChannel}
  PROVE  PanelInv'
<1>1. PanelTypes /\ (~drift => PanelTrue)
  BY PanelIs
<1>2. UNCHANGED <<panel, reads, edits>> /\ Fresh' = Fresh /\ May("members")' = May("members") /\ May("members")
  BY DEF Others, Fresh, May
<1>3. people' \in [Channels -> SUBSET Users] /\ \A d \in Channels : d # c => people'[d] = people[d]
  BY <1>1 DEF Others, PanelTypes
<1>4. drift' \in BOOLEAN
  BY <1>1 DEF Others, PanelTypes
<1>5. PanelTypes'
  BY <1>1, <1>2, <1>3, <1>4 DEF PanelTypes
<1>6. ASSUME ~drift' PROVE PanelTrue'
  <2>1. ~drift /\ edits = {} /\ (c = active => \E r \in Fresh : r.at = "asked")
    BY <1>6 DEF Others
  <2>2. PanelTrue
    BY <1>1, <2>1
  <2>3. CASE c = active
    <3>1. PICK r \in Fresh : r.at = "asked"
      BY <2>1, <2>3
    <3>2. Fresh' = {r} /\ r.c = active
      BY <1>1, <1>2, <2>2, <3>1 DEF PanelTypes, PanelTrue, ReadsScreen
    <3>3. \A q \in Fresh' : ReadsScreen(q)'
      BY <3>1, <3>2 DEF ReadsScreen
    <3> QED
      BY <1>2, <2>1, <3>2, <3>3 DEF PanelTrue
  <2>4. CASE c # active
    <3>1. active \in Channels => people'[active] = people[active]
      BY <1>3, <2>4
    <3>2. \A r \in Fresh : r.c \in Channels
      BY <1>1 DEF Fresh, PanelTypes, ReadRec
    <3>3. \A q \in Fresh' : ReadsScreen(q)'
      BY <1>2, <2>2, <3>1, <3>2 DEF ReadsScreen, PanelTrue
    <3> QED
      BY <1>2, <2>1, <2>2, <3>1, <3>3 DEF PanelTrue
  <2> QED
    BY <2>3, <2>4
<1> QED
  BY <1>5, <1>6 DEF PanelInv, PanelTypes, PanelTrue, PanelRight

LEMMA PanelStays == ASSUME PanelInv, UNCHANGED <<panelVars, active, scope>> PROVE PanelInv'
<1>1. Fresh' = Fresh /\ May("members")' = May("members") /\ UNCHANGED <<people, panel, reads, edits, drift, active>>
  BY DEF panelVars, Fresh, May
<1>2. PanelRight'
  BY <1>1 DEF PanelInv, PanelRight
<1> QED
  BY <1>1, <1>2 DEF PanelInv, ReadsScreen, Ready

LEMMA PanelKept == ASSUME CTypes, PanelInv, [Next]_vars PROVE PanelInv'
<1>1. scope' = scope
  BY ScopeStays DEF CTypes
<1>2. CASE UNCHANGED <<webVars, panelVars>>
  BY <1>1, <1>2, PanelStays DEF webVars
<1>3. CASE WebNext /\ Opened /\ UNCHANGED tuiVars
  <2>1. CASE May("members") /\ active' # active
    <3>1. WebStep
      <4>1. ~UNCHANGED webVars
        BY <2>1 DEF webVars
      <4> QED
        BY <1>3, <4>1 DEF WebNext, WebStep, Answered, WebWrites, ToggleReaction
    <3>2. active' \in Channels /\ Effect(active')
      BY <1>3, <2>1, <3>1, Opening DEF Opened
    <3>3. PICK c \in Channels : c = active' /\ Effect(c)
      BY <3>2
    <3> QED
      BY <1>1, <2>1, <3>3, EffectRight
  <2>2. CASE ~May("members")
    <3>1. UNCHANGED panelVars /\ reads = {} /\ edits = {} /\ May("members")' = May("members")
      BY <1>1, <1>3, <2>2 DEF Opened, PanelInv, May
    <3>2. Fresh = {} /\ Fresh' = {} /\ reads' = {} /\ edits' = {} /\ people' = people /\ drift' = drift
      BY <3>1 DEF Fresh, panelVars
    <3> QED
      BY <2>2, <3>1, <3>2 DEF PanelInv, PanelRight
  <2>3. CASE active' = active /\ May("members")
    <3>1. UNCHANGED panelVars
      BY <1>3, <2>3 DEF Opened
    <3> QED
      BY <1>1, <2>3, <3>1, PanelStays
  <2> QED
    BY <2>1, <2>2, <2>3
<1>4. CASE PanelNext /\ UNCHANGED <<feedVars, webVars, tuiVars>>
  <2>1. UNCHANGED <<active, scope>> /\ active \in Channels \cup {NoChannel}
    BY <1>1, <1>4 DEF webVars, CTypes, WTypes
  <2>2. CASE Refreshed
    <3>1. active \in Channels /\ Effect(active) /\ May("members")
      BY <2>1, <2>2 DEF Refreshed
    <3>2. PICK c \in Channels : c = active /\ Effect(c)
      BY <3>1
    <3> QED
      BY <2>1, <3>1, <3>2, EffectRight
  <2>3. CASE \E c \in scope.chans : \E u \in Users \ Clients : Others(c, u)
    BY <2>1, <2>3, OthersRight, WhoIs DEF CTypes, FTypes
  <2>4. CASE \E u \in Users \ Clients : \E op \in {"add", "remove"} : Edits(op, u)
    BY <2>1, <2>4, EditsRight
  <2>5. CASE (\E r \in reads : ServeRead(r) \/ TakeRead(r) \/ LoseRead(r))
             \/ \E e \in edits : Perform(e) \/ ReadBack(e) \/ ShowAdded(e) \/ ShowRemoved(e) \/ LoseEdit(e)
    BY <2>1, <2>5, ReadsRight, PerformRight, ShowsRight
  <2> QED
    BY <1>4, <2>2, <2>3, <2>4, <2>5 DEF PanelNext
<1> QED
  BY <1>2, <1>3, <1>4 DEF Next, vars

LEMMA PanelStarts == ASSUME Init PROVE PanelInv
<1>1. CTypes
  BY TypesInit
<1>2. people \in [Channels -> SUBSET Users] /\ edits = {} /\ drift = FALSE
  BY WhoIs DEF Init, PanelInit
<1>3. CASE May("members") /\ active # NoChannel
  <2>1. Read(active, TRUE) \in ReadRec
    BY <1>1, <1>3 DEF CTypes, WTypes, Read, ReadRec
  <2>2. reads = {Read(active, TRUE)} /\ Fresh = {Read(active, TRUE)}
    BY <1>3 DEF Init, PanelInit, Fresh, Read
  <2>3. ReadsScreen(Read(active, TRUE))
    BY DEF ReadsScreen, Read
  <2> QED
    BY <1>2, <1>3, <2>1, <2>2, <2>3 DEF PanelInv, PanelRight
<1>4. CASE ~(May("members") /\ active # NoChannel)
  <2>1. reads = {} /\ Fresh = {}
    BY <1>4 DEF Init, PanelInit, Fresh
  <2> QED
    BY <1>2, <1>4, <2>1 DEF PanelInv, PanelRight
<1> QED
  BY <1>3, <1>4
-------------------------------------------------------------------------------
(* Copies *)

LEMMA UpsertOne ==
  ASSUME WTypes, OneCopy, NEW m \in Messages, NEW v, Upsert(m, v)
  PROVE  OneCopy'
<1>1. shown'.p2p = shown.p2p /\ \A x \in Messages : x # m => shown'.server[x] = shown.server[x]
  BY DEF Upsert, WTypes
<1>2. late \subseteq late' /\ (shown.p2p[m] # 0 /\ shown.server[m] = 0 => m \in late')
  BY DEF Upsert
<1> QED
  BY <1>1, <1>2 DEF OneCopy

LEMMA OneCopyKept == ASSUME CTypes, OneCopy, [Next]_vars PROVE OneCopy'
<1> USE DEF CTypes
<1>1. CASE UNCHANGED <<shown, late>>
  BY <1>1 DEF OneCopy
<1>2. CASE OnCreated
  <2>1. Head1.m \in Messages
    BY <1>2, HeadIs, EventsAre, WhoIs DEF OnCreated, Heard, Head1
  <2>2. CASE Replace(Head1.m)
    <3>1. shown'.p2p[Head1.m] = 0 /\ late' = late
          /\ \A x \in Messages : x # Head1.m => shown'.server[x] = shown.server[x] /\ shown'.p2p[x] = shown.p2p[x]
      BY <1>2, <2>1, <2>2 DEF OnCreated, Replace, WTypes
    <3> QED
      BY <3>1 DEF OneCopy
  <2>3. CASE UNCHANGED <<shown, late>>
    BY <1>1, <2>3
  <2> QED
    BY <1>2, <2>2, <2>3 DEF OnCreated
<1>3. CASE OnRewritten
  <2>1. Head1.m \in Messages
    BY <1>3, HeadIs, EventsAre, WhoIs DEF OnRewritten, Heard, Head1
  <2> QED
    BY <1>3, <2>1, UpsertOne DEF OnRewritten
<1>4. ASSUME NEW a \in answers[Web], OnRewriteAnswer(a) \/ OnForwardAnswer(a) PROVE OneCopy'
  <2>1. a.m \in Messages
    BY <1>4, AnswerIs, WhoIs DEF OnRewriteAnswer, OnForwardAnswer
  <2> QED
    BY <1>4, <2>1, UpsertOne DEF OnRewriteAnswer, OnForwardAnswer
<1>5. ASSUME NEW m \in Messages, OnCopy(m) PROVE OneCopy'
  <2>1. shown'.server = shown.server /\ \A x \in Messages : x # m => shown'.p2p[x] = shown.p2p[x]
    BY <1>5 DEF OnCopy, WTypes
  <2>2. late \subseteq late' /\ (shown.server[m] # 0 => m \in late')
    BY <1>5 DEF OnCopy
  <2> QED
    BY <2>1, <2>2 DEF OneCopy
<1>6. ASSUME NEW a \in answers[Web], ApplyMessages(a) PROVE OneCopy'
  <2>1. shown'.p2p = shown.p2p
        /\ \A x \in Messages : x \notin DOMAIN a.rows => shown'.server[x] = shown.server[x]
    BY <1>6 DEF ApplyMessages, WTypes
  <2>2. late' = late \cup {m \in DOMAIN a.rows : shown.p2p[m] # 0}
    BY <1>6 DEF ApplyMessages
  <2> QED
    BY <2>1, <2>2 DEF OneCopy
<1>7. CASE WebStep
  <2>1. ASSUME NEW a \in answers[Web],
               OnReactionAnswer(a) \/ OnCreateAnswer(a) \/ ApplyChannels(a) \/ ApplyUnread(a) \/ ApplyReactions(a)
        PROVE  UNCHANGED <<shown, late>>
    BY <2>1 DEF OnReactionAnswer, OnCreateAnswer, ApplyChannels, ApplyUnread, ApplyReactions
  <2>2. CASE (\E m \in Messages : SendCopy(m) \/ Visible(m)) \/ (\E c \in Channels : Create(c) \/ SelectChannel(c))
    BY <1>1, <2>2 DEF SendCopy, Visible, Create, SelectChannel
  <2>3. CASE OnReaction \/ OnChannel \/ Start \/ ServeChannels \/ ServeUnread \/ ServeMessages \/ ServeReactions
    BY <1>1, <2>3 DEF OnReaction, OnChannel, Start, ServeChannels, ServeUnread, ServeMessages, ServeReactions,
                      Serve, webVars
  <2> QED
    BY <1>1, <1>2, <1>3, <1>4, <1>5, <1>6, <1>7, <2>1, <2>2, <2>3 DEF WebStep
<1> QED
  BY <1>1, <1>7, NextIs DEF webVars

LEMMA OneCopyStarts == ASSUME Init PROVE OneCopy
  BY DEF Init, WebInit, None, OneCopy
-------------------------------------------------------------------------------
(* Lists of channels *)

Both == {Web, Tui}
OpenedFirst ==
    /\ \A e \in pending : e.t = "channel.created" => e.c \in chans
    /\ \A u \in Both : \A i \in DOMAIN inbox[u] : inbox[u][i].t = "channel.created" => inbox[u][i].c \in chans
    /\ \A u \in Both : \A a \in answers[u] :
         (a.t = "channel.created" => a.c \in chans) /\ (a.t = "channels" => a.cs \subseteq chans)
Comes(u, c) == c \in missed[u] \/ Announced(c) \/ Awaits(u, c)
ListsOwn ==
    /\ ToSet(list) \subseteq chans /\ NoRepeat(list) /\ NewCalls
    /\ \A i, j \in DOMAIN tabs : tabs[i] = tabs[j] /\ tabs[i] \notin upset => i = j
WebHas(c) ==
    \/ c \in raced \/ \E a \in Listing(Web) : c \in a.cs
    \/ c \in ToSet(list) /\ (\A k \in calls : Keeps(k, c)) /\ Listing(Web) = {}
TuiHas(c) ==
    \/ c \in upset \/ \E a \in Listing(Tui) : c \in a.cs
    \/ c \in ToSet(tabs) /\ Listing(Tui) = {}
Lists == /\ OpenedFirst /\ ListsOwn
         /\ \A c \in chans : (Comes(Web, c) \/ WebHas(c)) /\ (Comes(Tui, c) \/ TuiHas(c))

LEMMA ListsAre == ListInv <=> Lists
<1>1. \A c : (Held(c) <=> Comes(Web, c) \/ WebHas(c)) /\ (TabHeld(c) <=> Comes(Tui, c) \/ TuiHas(c))
  BY DEF Held, TabHeld, Comes, WebHas, TuiHas
<1>2. ListInv <=> OpenedFirst /\ ListsOwn /\ \A c \in chans : Held(c) /\ TabHeld(c)
  BY DEF ListInv, OpenedFirst, ListsOwn, Both
<1> QED
  BY <1>1, <1>2 DEF Lists

\* Nothing a request or the socket does loses an announcement.
Moved(u) == Listing(u)' = Listing(u) /\ \A c \in chans' : Comes(u, c)' \/ (c \in chans /\ ~Comes(u, c))

LEMMA ServerLists ==
  ASSUME CTypes, OpenedFirst, ServerStep
  PROVE  OpenedFirst' /\ chans \subseteq chans' /\ \A u \in Both : Moved(u)
<1> USE DEF CTypes
<1>1. Both \subseteq Clients
  BY WhoIs DEF Both
<1>2. ASSUME UNCHANGED <<chans, inbox, answers, missed>>,
             \A e \in pending' : e.t = "channel.created" => e \in pending,
             \A e \in pending : e.t = "channel.created" => e \in pending'
      PROVE  OpenedFirst' /\ chans \subseteq chans' /\ \A u \in Both : Moved(u)
  <2>1. \A c : Announced(c)' = Announced(c)
    BY <1>2 DEF Announced
  <2> QED
    BY <1>2, <2>1 DEF OpenedFirst, Moved, Listing, Comes, Awaits
<1>3. ASSUME NEW m \in Messages, Writes(m) PROVE OpenedFirst' /\ chans \subseteq chans' /\ \A u \in Both : Moved(u)
  <2>1. PICK t \in {"message.created", "message.updated", "message.deleted", "forwarded"} :
          pending' = pending \cup {Note(t, m, Author(m))}
    BY <1>3 DEF Writes, Send, Edit, Delete, Forward
  <2>2. Note(t, m, Author(m)).t # "channel.created"
    BY DEF Note
  <2>3. UNCHANGED <<chans, inbox, answers, missed>>
    BY <1>3 DEF Writes, Send, Edit, Delete, Forward
  <2> QED
    BY <1>2, <2>1, <2>2, <2>3
<1>4. ASSUME NEW m \in Messages, NEW u \in Users, NEW on \in BOOLEAN, React(m, u, on)
      PROVE OpenedFirst' /\ chans \subseteq chans' /\ \A v \in Both : Moved(v)
  <2>1. Reaction("written", m, u, on, 0).t # "channel.created"
    BY DEF Reaction
  <2> QED
    BY <1>2, <1>4, <2>1 DEF React
<1>5. ASSUME NEW e \in pending, CountReaction(e)
      PROVE OpenedFirst' /\ chans \subseteq chans' /\ \A v \in Both : Moved(v)
  <2>1. Reaction("message.reaction", e.m, e.by, e.on, Count(e.m)).t # "channel.created"
    BY DEF Reaction
  <2> QED
    BY <1>2, <1>5, <2>1 DEF CountReaction
<1>6. ASSUME NEW d \in Channels, NEW u \in Users, CreateChannel(d, u)
      PROVE OpenedFirst' /\ chans \subseteq chans' /\ \A v \in Both : Moved(v)
  <2>1. NewChannel(d, u).t = "channel.created" /\ NewChannel(d, u).c = d
    BY DEF NewChannel
  <2>2. pending' = pending \cup {NewChannel(d, u)} /\ chans' = chans \cup {d}
        /\ UNCHANGED <<inbox, answers, missed>>
    BY <1>6 DEF CreateChannel
  <2>3. \A c : Announced(c)' <=> Announced(c) \/ c = d
    BY <2>1, <2>2 DEF Announced
  <2>4. OpenedFirst'
    BY <2>1, <2>2 DEF OpenedFirst
  <2> QED
    BY <2>2, <2>3, <2>4 DEF Moved, Listing, Comes, Awaits
<1>7. ASSUME NEW e \in pending, Announce(e)
      PROVE OpenedFirst' /\ chans \subseteq chans' /\ \A v \in Both : Moved(v)
  <2>1. chans' = chans /\ e \in Event /\ pending' = pending \ {e}
    BY <1>7, AnnounceIs, WhoIs DEF Announce, FTypes
  <2>0. ASSUME NEW u \in Both
        PROVE  /\ \A a \in answers'[u] : a \in answers[u] \/ a = e
               /\ \A a \in answers[u] : a \in answers'[u]
               /\ ~Hears(u, e) => Subject(e) \in missed'[u]
               /\ \A i \in DOMAIN inbox'[u] : (i \in DOMAIN inbox[u] /\ inbox'[u][i] = inbox[u][i]) \/ inbox'[u][i] = e
    <3>1. u \in Clients
      BY <1>1
    <3>2. /\ answers'[u] = IF e.by = u /\ e.t # "message.created" THEN answers[u] \cup {e} ELSE answers[u]
          /\ missed'[u] = IF Hears(u, e) THEN missed[u] ELSE missed[u] \cup {Subject(e)}
      BY <1>7, <3>1, AnnounceIs
    <3>3. \A i \in DOMAIN inbox'[u] : (i \in DOMAIN inbox[u] /\ inbox'[u][i] = inbox[u][i]) \/ inbox'[u][i] = e
      BY <1>7, <3>1, AnnounceKeeps
    <3> QED
      BY <3>2, <3>3
  <2>2. OpenedFirst'
    <3>1. \A u \in Both : \A i \in DOMAIN inbox'[u] : inbox'[u][i].t = "channel.created" => inbox'[u][i].c \in chans
      BY <2>0 DEF OpenedFirst
    <3>2. \A u \in Both : \A a \in answers'[u] : a \in answers[u] \/ a = e
      BY <2>0
    <3>3. e.t # "channels"
      BY <2>1, EventsAre
    <3> QED
      BY <2>1, <3>1, <3>2, <3>3 DEF OpenedFirst
  <2>3. ASSUME NEW u \in Both PROVE Moved(u)
    <3>1. Listing(u)' = Listing(u)
      <4>1. e.t # "channels"
        BY <2>1, EventsAre
      <4> QED
        BY <2>0, <4>1 DEF Listing
    <3>2. ASSUME NEW c \in chans, Comes(u, c) PROVE Comes(u, c)'
      <4>1. CASE c \in missed[u]
        BY <1>1, <1>7, <4>1, AnnounceKeeps DEF Comes
      <4>2. CASE Awaits(u, c)
        <5>1. PICK i \in DOMAIN inbox[u] : inbox[u][i].t = "channel.created" /\ inbox[u][i].c = c
          BY <4>2 DEF Awaits
        <5>2. i \in DOMAIN inbox'[u] /\ inbox'[u][i] = inbox[u][i]
          BY <1>1, <1>7, AnnounceKeeps
        <5> QED
          BY <5>1, <5>2 DEF Comes, Awaits
      <4>3. ASSUME NEW f \in pending, f.t = "channel.created", f.c = c PROVE Comes(u, c)'
        <5>1. CASE f # e
          BY <2>1, <4>3, <5>1 DEF Comes, Announced
        <5>2. CASE f = e /\ Hears(u, e)
          <6>1. Len(inbox[u]) + 1 \in DOMAIN inbox'[u] /\ inbox'[u][Len(inbox[u]) + 1] = e
            BY <1>1, <1>7, <5>2, AnnounceIs
          <6> QED
            BY <4>3, <5>2, <6>1 DEF Comes, Awaits
        <5>3. CASE f = e /\ ~Hears(u, e)
          <6>1. Subject(e) = c
            BY <4>3, <5>3 DEF Subject
          <6>2. c \in missed'[u]
            BY <2>0, <5>3, <6>1
          <6> QED
            BY <6>2 DEF Comes
        <5> QED
          BY <5>1, <5>2, <5>3
      <4> QED
        BY <3>2, <4>1, <4>2, <4>3 DEF Comes, Announced
    <3> QED
      BY <2>1, <3>1, <3>2 DEF Moved
  <2> QED
    BY <2>1, <2>2, <2>3
<1>8. ASSUME NEW d \in Clients, Leave(d) \/ Join(d)
      PROVE OpenedFirst' /\ chans \subseteq chans' /\ \A v \in Both : Moved(v)
  <2>1. UNCHANGED <<chans, pending, answers>>
    BY <1>8 DEF Leave, Join
  <2>2. ASSUME NEW u \in Both
        PROVE  \/ inbox'[u] = inbox[u] /\ missed'[u] = missed[u]
               \/ inbox'[u] = <<>> /\ missed'[u] = missed[u] \cup {Subject(inbox[u][i]) : i \in DOMAIN inbox[u]}
    BY <1>1, <1>8 DEF Leave, Join, FTypes
  <2>3. DOMAIN <<>> = {}
    OBVIOUS
  <2>4. OpenedFirst'
    BY <2>1, <2>2, <2>3 DEF OpenedFirst
  <2>5. ASSUME NEW u \in Both PROVE Moved(u)
    <3>1. \A c : Awaits(u, c) => c \in {Subject(inbox[u][i]) : i \in DOMAIN inbox[u]}
      BY DEF Awaits, Subject
    <3>2. \A c : Comes(u, c) => Comes(u, c)'
      BY <2>1, <2>2, <3>1 DEF Comes, Awaits, Announced
    <3> QED
      BY <2>1, <3>2 DEF Moved, Listing
  <2> QED
    BY <2>1, <2>4, <2>5
<1> QED
  BY <1>3, <1>4, <1>5, <1>6, <1>7, <1>8 DEF ServerStep

LEMMA TakenLists ==
  ASSUME CTypes, OpenedFirst, NEW u \in Both, inbox[u] # <<>>, inbox' = [inbox EXCEPT ![u] = Tail(@)],
         UNCHANGED <<chans, pending, answers, missed>>
  PROVE  /\ OpenedFirst'
         /\ \A v \in Both : Listing(v)' = Listing(v)
         /\ \A v \in Both : \A c : Comes(v, c) =>
              Comes(v, c)' \/ (v = u /\ Head(inbox[u]).t = "channel.created" /\ Head(inbox[u]).c = c)
         /\ Head(inbox[u]).t = "channel.created" => Head(inbox[u]).c \in chans
<1> USE DEF CTypes
<1>1. u \in Clients /\ Both \subseteq Clients
  BY WhoIs DEF Both
<1>2. Head(inbox[u]) = inbox[u][1] /\ 1 \in DOMAIN inbox[u]
  BY <1>1, TakeIs
<1>3. OpenedFirst'
  <2>1. \A v \in Both : \A i \in DOMAIN inbox'[v] : \E j \in DOMAIN inbox[v] : inbox'[v][i] = inbox[v][j]
    BY <1>1, TakeIs
  <2>2. \A v \in Both : \A i \in DOMAIN inbox'[v] : inbox'[v][i].t = "channel.created" => inbox'[v][i].c \in chans'
    BY <2>1 DEF OpenedFirst
  <2> QED
    BY <2>2 DEF OpenedFirst
<1>4. ASSUME NEW v \in Both, NEW c, Awaits(v, c)
      PROVE  Awaits(v, c)' \/ (v = u /\ Head(inbox[u]).t = "channel.created" /\ Head(inbox[u]).c = c)
  <2>1. PICK i \in DOMAIN inbox[v] : inbox[v][i].t = "channel.created" /\ inbox[v][i].c = c
    BY <1>4 DEF Awaits
  <2>2. CASE v # u
    BY <1>1, <2>1, <2>2, TakeIs DEF Awaits
  <2>3. CASE v = u /\ i = 1
    BY <1>2, <2>1, <2>3
  <2>4. CASE v = u /\ i # 1
    <3>1. i - 1 \in DOMAIN inbox'[u] /\ inbox'[u][i - 1] = inbox[u][i]
      BY <1>1, <2>4, <2>1, TakeIs
    <3> QED
      BY <2>1, <2>4, <3>1 DEF Awaits
  <2> QED
    BY <2>2, <2>3, <2>4
<1>5. \A c : Announced(c)' = Announced(c)
  BY DEF Announced
<1> QED
  BY <1>2, <1>3, <1>4, <1>5 DEF Comes, Listing, OpenedFirst

LEMMA AnsweredLists ==
  ASSUME CTypes, OpenedFirst, NEW u \in Both, NEW a \in answers[u], answers' = [answers EXCEPT ![u] = @ \ {a}],
         \A v \in Both : missed[v] \subseteq missed'[v],
         UNCHANGED <<chans, pending, inbox>>
  PROVE  /\ OpenedFirst'
         /\ \A v \in Both : Listing(v)' = IF v = u THEN Listing(v) \ {a} ELSE Listing(v)
         /\ \A v \in Both : \A c : Comes(v, c) => Comes(v, c)'
         /\ (a.t = "channel.created" => a.c \in chans) /\ (a.t = "channels" => a.cs \subseteq chans)
<1>1. u \in Clients /\ Both \subseteq Clients
  BY WhoIs DEF Both
<1>2. answers'[u] = answers[u] \ {a} /\ \A v \in Both : v # u => answers'[v] = answers[v]
  BY <1>1 DEF CTypes, FTypes
<1>3. \A c : Announced(c)' = Announced(c)
  BY DEF Announced
<1>4. \A v \in Both : Listing(v)' = IF v = u THEN Listing(v) \ {a} ELSE Listing(v)
  BY <1>2 DEF Listing
<1>5. OpenedFirst'
  BY <1>2 DEF OpenedFirst
<1> QED
  BY <1>3, <1>4, <1>5 DEF Comes, Awaits, OpenedFirst
-------------------------------------------------------------------------------
WebSide == <<list, calls, raced>>
TuiSide == <<tabs, upset>>

LEMMA OwnStays ==
  ASSUME ListsOwn, chans \subseteq chans', UNCHANGED <<list, calls, tabs, upset>>
  PROVE  ListsOwn'
  BY DEF ListsOwn, NewCalls

LEMMA HasStays ==
  /\ UNCHANGED WebSide /\ Listing(Web)' = Listing(Web) => \A c : WebHas(c) => WebHas(c)'
  /\ UNCHANGED TuiSide /\ Listing(Tui)' = Listing(Tui) => \A c : TuiHas(c) => TuiHas(c)'
<1>1. ASSUME UNCHANGED WebSide, Listing(Web)' = Listing(Web), NEW c, WebHas(c) PROVE WebHas(c)'
  BY <1>1 DEF WebSide, WebHas, Keeps
<1>2. ASSUME UNCHANGED TuiSide, Listing(Tui)' = Listing(Tui), NEW c, TuiHas(c) PROVE TuiHas(c)'
  BY <1>2 DEF TuiSide, TuiHas
<1> QED
  BY <1>1, <1>2

LEMMA ServerKeeps ==
  ASSUME CTypes, Lists, ServerStep, UNCHANGED <<webVars, tuiVars>>
  PROVE  Lists'
<1>1. OpenedFirst' /\ chans \subseteq chans' /\ Moved(Web) /\ Moved(Tui)
  BY ServerLists DEF Lists, Both
<1>2. UNCHANGED WebSide /\ UNCHANGED TuiSide
  BY DEF WebSide, TuiSide, webVars, tuiVars
<1>3. ListsOwn'
  BY <1>1, <1>2, OwnStays DEF Lists, WebSide, TuiSide
<1>4. \A c \in chans' : (Comes(Web, c)' \/ WebHas(c)') /\ (Comes(Tui, c)' \/ TuiHas(c)')
  BY <1>1, <1>2, HasStays DEF Moved, Lists
<1> QED
  BY <1>1, <1>3, <1>4 DEF Lists

LEMMA ListsSame ==
  ASSUME Lists, UNCHANGED <<chans, pending, inbox, answers, missed>>, UNCHANGED WebSide, UNCHANGED TuiSide
  PROVE  Lists'
<1>1. \A u : Listing(u)' = Listing(u) /\ \A c : Comes(u, c)' = Comes(u, c)
  BY DEF Listing, Comes, Announced, Awaits
<1>2. OpenedFirst'
  BY DEF Lists, OpenedFirst
<1>3. ListsOwn'
  BY OwnStays DEF Lists, WebSide, TuiSide
<1> QED
  BY <1>1, <1>2, <1>3, HasStays DEF Lists

LEMMA CreateKeeps ==
  ASSUME CTypes, Lists, NEW d \in Channels, Create(d), UNCHANGED tuiVars
  PROVE  Lists'
<1>1. CreateChannel(d, Web) /\ ServerStep
  BY WhoIs DEF Create, ServerStep
<1>2. OpenedFirst' /\ chans \subseteq chans' /\ Moved(Web) /\ Moved(Tui)
  BY <1>1, ServerLists DEF Lists, Both
<1>3. UNCHANGED TuiSide /\ list' = list /\ raced' = raced /\ calls' = calls \cup {[c |-> d, over |-> list]}
  BY DEF TuiSide, tuiVars, Create
<1>4. PICK k : k = [c |-> d, over |-> list]
  OBVIOUS
<1>5. k.c = d /\ k.over = list /\ calls' = calls \cup {k} /\ d \in chans' /\ (d \in chans => d \in Dms)
  BY <1>1, <1>3, <1>4 DEF CreateChannel
<1>6. ListsOwn'
  <2>1. NewCalls'
    BY <1>2, <1>5 DEF Lists, ListsOwn, NewCalls
  <2> QED
    BY <1>2, <1>3, <2>1 DEF Lists, ListsOwn, TuiSide
<1>7. \A c : WebHas(c) => WebHas(c)'
  <2>1. \A c \in ToSet(list) : Keeps(k, c)'
    BY <1>5 DEF Keeps
  <2>2. \A j \in calls : \A c : Keeps(j, c)' = Keeps(j, c)
    BY DEF Keeps
  <2> QED
    BY <1>2, <1>3, <1>5, <2>1, <2>2 DEF WebHas, Moved
<1>8. \A c : TuiHas(c) => TuiHas(c)'
  BY <1>2, <1>3, HasStays DEF Moved
<1> QED
  BY <1>2, <1>6, <1>7, <1>8 DEF Lists, Moved

LEMMA WebEventKeeps ==
  ASSUME CTypes, Lists, OnCreated \/ OnRewritten \/ OnReaction \/ OnChannel, UNCHANGED tuiVars
  PROVE  Lists'
<1>1. Web \in Both /\ inbox[Web] # <<>> /\ TakeEvent /\ UNCHANGED TuiSide /\ UNCHANGED <<calls, boot>> /\ OpenedFirst
  BY DEF Both, OnCreated, OnRewritten, OnReaction, OnChannel, Heard, TuiSide, tuiVars, Lists
<1>2. /\ OpenedFirst' /\ \A v \in Both : Listing(v)' = Listing(v)
      /\ \A v \in Both : \A c : Comes(v, c) => Comes(v, c)' \/ (v = Web /\ Head1.t = "channel.created" /\ Head1.c = c)
      /\ Head1.t = "channel.created" => Head1.c \in chans
  BY <1>1, TakenLists DEF TakeEvent, Head1
<1>3. chans' = chans /\ Listing(Web)' = Listing(Web) /\ Listing(Tui)' = Listing(Tui)
  BY <1>1, <1>2 DEF TakeEvent, Both
<1>4. \A c : Comes(Tui, c) \/ TuiHas(c) => Comes(Tui, c)' \/ TuiHas(c)'
  BY <1>1, <1>2, <1>3, HasStays, WhoIs DEF Both
<1>5. CASE ~OnChannel
  <2>1. UNCHANGED WebSide /\ Head1.t # "channel.created"
    BY <1>5 DEF WebSide, OnCreated, OnRewritten, OnReaction, Heard
  <2>2. ListsOwn'
    BY <1>1, <1>3, <2>1, OwnStays DEF Lists, WebSide, TuiSide
  <2>3. \A c : Comes(Web, c) \/ WebHas(c) => Comes(Web, c)' \/ WebHas(c)'
    BY <1>2, <1>3, <2>1, HasStays DEF Both
  <2> QED
    BY <1>2, <1>3, <1>4, <2>2, <2>3 DEF Lists
<1>6. CASE OnChannel
  <2>0. PICK d : d = Head1.c
    OBVIOUS
  <2>1. Head1.t = "channel.created" /\ d \in chans /\ d \in Channels /\ list \in Seq(Channels)
    BY <1>2, <1>6, <2>0 DEF OnChannel, Heard, CTypes, FTypes, WTypes
  <2>2. list' = Add(list, d) /\ raced' = IF calls # {} \/ boot.at = "channels" THEN raced \cup {d} ELSE raced
    BY <1>6, <2>0 DEF OnChannel
  <2>3. ToSet(list') = ToSet(list) \cup {d} /\ NoRepeat(list')
    BY <2>1, <2>2, AddTypes DEF Lists, ListsOwn
  <2>4. ListsOwn'
    BY <1>1, <1>3, <2>1, <2>3 DEF Lists, ListsOwn, TuiSide, NewCalls
  <2>5. \A c : WebHas(c) => WebHas(c)'
    BY <1>1, <1>3, <2>2, <2>3 DEF WebHas, Keeps
  <2>6. d \in raced' \/ (d \in ToSet(list') /\ calls' = {} /\ Listing(Web)' = {})
    <3>1. boot.at # "channels" => Listing(Web) = {}
      BY DEF Listing, CTypes, Passed, ReadKinds
    <3> QED
      BY <1>1, <1>3, <2>2, <2>3, <3>1
  <2>7. WebHas(d)'
    BY <2>6 DEF WebHas
  <2>8. \A c \in chans : Comes(Web, c)' \/ WebHas(c)'
    BY <1>1, <1>2, <2>0, <2>5, <2>7 DEF Lists
  <2> QED
    BY <1>2, <1>3, <1>4, <2>4, <2>8 DEF Lists
<1> QED
  BY <1>5, <1>6

LEMMA WebAnswerKeeps ==
  ASSUME CTypes, Lists, NEW a \in answers[Web], WebTakes(a) \/ WebApplies(a), UNCHANGED tuiVars
  PROVE  Lists'
<1>1. Web \in Both /\ TakeAnswer(a) /\ UNCHANGED TuiSide /\ OpenedFirst
  BY DEF Both, WebTakes, WebApplies, OnRewriteAnswer, OnReactionAnswer, OnForwardAnswer, OnCreateAnswer,
         ApplyChannels, ApplyUnread, ApplyMessages, ApplyReactions, Applying, TuiSide, tuiVars, Lists
<1>2. /\ OpenedFirst' /\ \A v \in Both : Listing(v)' = IF v = Web THEN Listing(v) \ {a} ELSE Listing(v)
      /\ \A v \in Both : \A c : Comes(v, c) => Comes(v, c)'
      /\ (a.t = "channel.created" => a.c \in chans) /\ (a.t = "channels" => a.cs \subseteq chans)
  BY <1>1, AnsweredLists DEF TakeAnswer
<1>3. chans' = chans /\ Listing(Tui)' = Listing(Tui) /\ Listing(Web)' = Listing(Web) \ {a}
  BY <1>1, <1>2, WhoIs DEF TakeAnswer, Both
<1>4. \A c : Comes(Tui, c) \/ TuiHas(c) => Comes(Tui, c)' \/ TuiHas(c)'
  BY <1>1, <1>2, <1>3, HasStays DEF Both
<1>5. CASE UNCHANGED WebSide /\ a.t # "channels"
  <2>1. Listing(Web)' = Listing(Web)
    BY <1>3, <1>5 DEF Listing
  <2>2. ListsOwn'
    BY <1>1, <1>3, <1>5, OwnStays DEF Lists, WebSide, TuiSide
  <2>3. \A c : Comes(Web, c) \/ WebHas(c) => Comes(Web, c)' \/ WebHas(c)'
    BY <1>1, <1>2, <1>5, <2>1, HasStays
  <2> QED
    BY <1>2, <1>3, <1>4, <2>2, <2>3 DEF Lists
<1>6. CASE OnCreateAnswer(a)
  <2>1. PICK k \in calls : k.c = a.c /\ list' = Listed(k) /\ calls' = calls \ {k}
    BY <1>6 DEF OnCreateAnswer
  <2>2. a.t = "channel.created" /\ raced' = raced
    BY <1>6 DEF OnCreateAnswer
  <2>3. Listing(Web)' = Listing(Web)
    BY <1>3, <2>2 DEF Listing
  <2>4. /\ k.c \in chans /\ k.c \in Channels /\ k.over \in Seq(Channels) /\ ToSet(k.over) \subseteq chans
        /\ NoRepeat(k.over) /\ (k.c \in Dms \/ k.c \notin ToSet(k.over))
    BY <2>1 DEF Lists, ListsOwn, NewCalls, CTypes, WTypes
  <2>5. ToSet(list') \subseteq chans /\ NoRepeat(list') /\ \A c \in ToSet(list) : Keeps(k, c) => c \in ToSet(list')
    <3>1. CASE k.c \in Dms /\ k.c \in ToSet(k.over)
      BY <2>1, <3>1 DEF Listed, Lists, ListsOwn
    <3>2. CASE k.c \notin ToSet(k.over)
      <4>1. list' = Append(k.over, k.c)
        BY <2>1, <3>2 DEF Listed
      <4>2. ToSet(list') = ToSet(k.over) \cup {k.c} /\ NoRepeat(list')
        BY <2>4, <3>2, <4>1, AddTypes
      <4> QED
        BY <2>4, <3>2, <4>2 DEF Keeps
    <3> QED
      BY <2>4, <3>1, <3>2
  <2>6. ListsOwn'
    BY <1>1, <1>3, <2>1, <2>5 DEF Lists, ListsOwn, TuiSide, NewCalls
  <2>7. \A c : WebHas(c) => WebHas(c)'
    BY <2>1, <2>2, <2>3, <2>5 DEF WebHas, Keeps
  <2> QED
    BY <1>1, <1>2, <1>3, <1>4, <2>6, <2>7 DEF Lists
<1>7. CASE ApplyChannels(a)
  <2>1. a.t = "channels" /\ list' = SetToSeq(a.cs) /\ calls' = calls
        /\ raced' = IF calls # {} THEN raced \cup a.cs ELSE raced
    BY <1>7 DEF ApplyChannels
  <2>2. Listing(Web)' = {} /\ Listing(Web) = {a}
    BY <1>3, <2>1, WhoIs DEF Listing, CTypes, Passed, ReadKinds
  <2>3. ToSet(list') = a.cs /\ NoRepeat(list') /\ a.cs \subseteq chans
    <3>1. a.cs \in SUBSET Channels
      BY <1>2, <2>1 DEF CTypes, FTypes
    <3> QED
      BY <1>2, <2>1, <3>1, SeqOfSet, ChannelsFinite DEF NoRepeat
  <2>4. ListsOwn'
    BY <1>1, <1>3, <2>1, <2>3 DEF Lists, ListsOwn, TuiSide, NewCalls
  <2>5. \A c : WebHas(c) => WebHas(c)'
    BY <2>1, <2>2, <2>3 DEF WebHas, Keeps
  <2> QED
    BY <1>1, <1>2, <1>3, <1>4, <2>4, <2>5 DEF Lists
<1>8. CASE ~OnCreateAnswer(a) /\ ~ApplyChannels(a)
  <2>1. UNCHANGED WebSide /\ a.t # "channels"
    BY <1>8 DEF WebSide, WebTakes, WebApplies, OnRewriteAnswer, OnReactionAnswer, OnForwardAnswer,
                ApplyUnread, ApplyMessages, ApplyReactions
  <2> QED
    BY <1>5, <2>1
<1> QED
  BY <1>6, <1>7, <1>8

\* A read is put on its way: what it is told of is no longer missed.
LEMMA ServeKeeps ==
  ASSUME CTypes, Lists, ServeChannels \/ ServeUnread \/ ServeMessages \/ ServeReactions, UNCHANGED tuiVars
  PROVE  Lists'
<1>1. Web \in Clients /\ Tui \in Clients /\ Web # Tui
  BY WhoIs
<1>2. ASSUME NEW a, NEW told, Serve(a, told), a.t \in ReadKinds,
             a.t = "channels" => a.cs = chans /\ told = chans /\ Listing(Web) = {},
             a.t # "channels" => told \cap chans = {}
      PROVE  Lists'
  <2>1. /\ answers'[Web] = answers[Web] \cup {a} /\ answers'[Tui] = answers[Tui]
        /\ missed'[Web] = missed[Web] \ told /\ missed'[Tui] = missed[Tui]
        /\ UNCHANGED <<chans, pending, inbox>> /\ UNCHANGED WebSide /\ UNCHANGED TuiSide
    BY <1>1, <1>2 DEF Serve, CTypes, FTypes, webVars, tuiVars, WebSide, TuiSide
  <2>2. OpenedFirst'
    <3>1. a.t # "channel.created"
      BY <1>2 DEF ReadKinds
    <3> QED
      BY <1>2, <2>1, <3>1 DEF Lists, OpenedFirst, Both
  <2>3. ListsOwn'
    BY <2>1, OwnStays DEF Lists, WebSide, TuiSide
  <2>4. \A c : Comes(Tui, c) \/ TuiHas(c) => Comes(Tui, c)' \/ TuiHas(c)'
    <3>1. Listing(Tui)' = Listing(Tui) /\ \A c : Comes(Tui, c)' = Comes(Tui, c)
      BY <2>1 DEF Listing, Comes, Announced, Awaits
    <3> QED
      BY <2>1, <3>1, HasStays
  <2>5. CASE a.t = "channels"
    <3>1. \A c \in chans : WebHas(c)'
      BY <1>2, <2>1, <2>5 DEF WebHas, Listing
    <3> QED
      BY <2>1, <2>2, <2>3, <2>4, <3>1 DEF Lists
  <2>6. CASE a.t # "channels"
    <3>1. Listing(Web)' = Listing(Web)
      BY <2>1, <2>6 DEF Listing
    <3>2. \A c \in chans : Comes(Web, c) => Comes(Web, c)'
      BY <1>2, <2>1, <2>6 DEF Comes, Announced, Awaits
    <3>3. \A c \in chans : Comes(Web, c) \/ WebHas(c) => Comes(Web, c)' \/ WebHas(c)'
      BY <2>1, <3>1, <3>2, HasStays
    <3> QED
      BY <2>1, <2>2, <2>3, <2>4, <3>3 DEF Lists
  <2> QED
    BY <2>5, <2>6
<1>3. CASE ServeChannels
  <2>1. PICK a : a = [t |-> "channels", cs |-> chans]
    OBVIOUS
  <2>2. a.t = "channels" /\ a.cs = chans /\ Serve(a, chans) /\ Listing(Web) = {}
    BY <1>3, <2>1 DEF ServeChannels, Serving, Waiting, Listing
  <2>3. PICK told : told = chans
    OBVIOUS
  <2>4. Serve(a, told)
    BY <2>2, <2>3
  <2> QED
    BY <1>2, <2>2, <2>3, <2>4 DEF ReadKinds
<1>4. CASE ServeUnread
  <2>1. PICK a, told : a.t = "unread" /\ told = {} /\ Serve(a, told)
    BY <1>4 DEF ServeUnread
  <2> QED
    BY <1>2, <2>1 DEF ReadKinds
<1>5. CASE ServeMessages
  <2>1. PICK a, told : a.t = "messages" /\ told = PageOf(Turn) /\ Serve(a, told)
    BY <1>5 DEF ServeMessages
  <2>2. told \cap chans = {}
    BY <2>1, PageIs, FeedAssumption DEF CTypes, FTypes, Sent
  <2> QED
    BY <1>2, <2>1, <2>2 DEF ReadKinds
<1>6. CASE ServeReactions
  <2>1. PICK a, told : a.t = "reactions" /\ told = Marked \X {"marks"} /\ Serve(a, told)
    BY <1>6 DEF ServeReactions
  <2>2. told \cap chans = {}
    BY <2>1, FeedAssumption DEF CTypes, FTypes, Marked
  <2> QED
    BY <1>2, <2>1, <2>2 DEF ReadKinds
<1> QED
  BY <1>3, <1>4, <1>5, <1>6

LEMMA WebKeeps == ASSUME CTypes, Lists, WebStep, UNCHANGED tuiVars PROVE Lists'
<1>1. UNCHANGED TuiSide
  BY DEF tuiVars, TuiSide
<1>2. CASE \E m \in Messages : SendCopy(m) \/ OnCopy(m) \/ Visible(m)
  <2>1. UNCHANGED <<chans, pending, inbox, answers, missed>> /\ UNCHANGED WebSide
    BY <1>2 DEF SendCopy, OnCopy, Visible, AckRead, feedVars, WebSide
  <2> QED
    BY <1>1, <2>1, ListsSame
<1>3. CASE Start \/ \E c \in Channels : SelectChannel(c)
  <2>1. UNCHANGED <<chans, pending, inbox, answers, missed>> /\ UNCHANGED WebSide
    BY <1>3 DEF Start, SelectChannel, feedVars, WebSide
  <2> QED
    BY <1>1, <2>1, ListsSame
<1> QED
  BY <1>2, <1>3, CreateKeeps, WebEventKeeps, WebAnswerKeeps, ServeKeeps DEF WebStep, WebTakes, WebApplies
-------------------------------------------------------------------------------
NoTwice == \A i, j \in DOMAIN tabs : tabs[i] = tabs[j] /\ tabs[i] \notin upset => i = j

LEMMA TuiEventKeeps ==
  ASSUME CTypes, Lists, TuiMessage \/ TuiChannel, UNCHANGED webVars
  PROVE  Lists'
<1>1. Tui \in Both /\ inbox[Tui] # <<>> /\ TuiEvent /\ UNCHANGED WebSide /\ loading' = loading /\ OpenedFirst
  BY DEF Both, TuiMessage, TuiChannel, TuiHeard, WebSide, webVars, Lists
<1>2. /\ OpenedFirst' /\ \A v \in Both : Listing(v)' = Listing(v)
      /\ \A v \in Both : \A c : Comes(v, c) => Comes(v, c)' \/ (v = Tui /\ TuiHead.t = "channel.created" /\ TuiHead.c = c)
      /\ TuiHead.t = "channel.created" => TuiHead.c \in chans
  BY <1>1, TakenLists DEF TuiEvent, TuiHead
<1>3. chans' = chans /\ Listing(Web)' = Listing(Web) /\ Listing(Tui)' = Listing(Tui)
  BY <1>1, <1>2 DEF TuiEvent, Both
<1>4. \A c : Comes(Web, c) \/ WebHas(c) => Comes(Web, c)' \/ WebHas(c)'
  BY <1>1, <1>2, <1>3, HasStays, WhoIs DEF Both
<1>5. CASE TuiMessage
  <2>1. UNCHANGED TuiSide /\ TuiHead.t # "channel.created"
    BY <1>5 DEF TuiSide, TuiMessage
  <2>2. ListsOwn'
    BY <1>1, <1>3, <2>1, OwnStays DEF Lists, WebSide, TuiSide
  <2>3. \A c : Comes(Tui, c) \/ TuiHas(c) => Comes(Tui, c)' \/ TuiHas(c)'
    BY <1>1, <1>2, <1>3, <2>1, HasStays
  <2> QED
    BY <1>2, <1>3, <1>4, <2>2, <2>3 DEF Lists
<1>6. CASE TuiChannel
  <2>0. PICK d : d = TuiHead.c
    OBVIOUS
  <2>1. TuiHead.t = "channel.created" /\ d \in chans /\ d \in Channels /\ tabs \in Seq(Channels)
    BY <1>2, <1>6, <2>0 DEF TuiChannel, TuiHeard, CTypes, FTypes, TTypes
  <2>2. tabs' = (IF d \in ToSet(tabs) THEN tabs ELSE Append(tabs, d))
        /\ upset' = IF loading THEN upset \cup {d} ELSE upset
    BY <1>6, <2>0 DEF TuiChannel, Told
  <2>3. ToSet(tabs') = ToSet(tabs) \cup {d}
    BY <2>1, <2>2, AddTypes
  <2>4. NoTwice'
    <3>1. CASE d \in ToSet(tabs)
      BY <2>2, <3>1 DEF Lists, ListsOwn, NoTwice
    <3>2. CASE d \notin ToSet(tabs)
      <4>1. /\ DOMAIN tabs' = DOMAIN tabs \cup {Len(tabs) + 1} /\ tabs'[Len(tabs) + 1] = d
            /\ \A i \in DOMAIN tabs : tabs'[i] = tabs[i]
        BY <2>1, <2>2, <3>2, AppendTypes
      <4>2. \A i \in DOMAIN tabs : tabs[i] # d
        BY <3>2 DEF ToSet
      <4> QED
        BY <2>2, <4>1, <4>2 DEF Lists, ListsOwn, NoTwice
    <3> QED
      BY <3>1, <3>2
  <2>5. ListsOwn'
    BY <1>1, <1>3, <2>4 DEF Lists, ListsOwn, WebSide, NewCalls, NoTwice
  <2>6. \A c : TuiHas(c) => TuiHas(c)'
    BY <1>3, <2>2, <2>3 DEF TuiHas
  <2>7. TuiHas(d)'
    <3>1. ~loading => Listing(Tui) = {}
      BY DEF Listing, CTypes, Passed, ReadKinds
    <3> QED
      BY <1>3, <2>2, <2>3, <3>1 DEF TuiHas
  <2>8. \A c \in chans : Comes(Tui, c)' \/ TuiHas(c)'
    BY <1>1, <1>2, <2>0, <2>6, <2>7 DEF Lists
  <2> QED
    BY <1>2, <1>3, <1>4, <2>5, <2>8 DEF Lists
<1> QED
  BY <1>5, <1>6

LEMMA TuiAnswerKeeps ==
  ASSUME CTypes, Lists, NEW a \in answers[Tui], TuiTakes(a), UNCHANGED webVars
  PROVE  Lists'
<1>1. Tui \in Both /\ TuiAnswer(a) /\ UNCHANGED WebSide /\ OpenedFirst /\ \A v \in Both : missed[v] \subseteq missed'[v]
  <2>1. missed' = missed \/ missed' = [missed EXCEPT ![Tui] = @ \cup {m \in Messages : lines[m] # 0}]
    BY DEF TuiTakes, TuiRewriteAnswer, TuiCreateAnswer, TuiLoaded, Entered
  <2>2. \A v \in Both : missed[v] \subseteq missed'[v]
    BY <2>1, WhoIs DEF CTypes, FTypes, Both
  <2> QED
    BY <2>2 DEF Both, TuiTakes, TuiRewriteAnswer, TuiCreateAnswer, TuiLoaded, Entered, WebSide, webVars, Lists
<1>2. /\ OpenedFirst' /\ \A v \in Both : Listing(v)' = IF v = Tui THEN Listing(v) \ {a} ELSE Listing(v)
      /\ \A v \in Both : \A c : Comes(v, c) => Comes(v, c)'
      /\ (a.t = "channel.created" => a.c \in chans) /\ (a.t = "channels" => a.cs \subseteq chans)
  BY <1>1, AnsweredLists DEF TuiAnswer
<1>3. chans' = chans /\ Listing(Web)' = Listing(Web) /\ Listing(Tui)' = Listing(Tui) \ {a}
  BY <1>1, <1>2, WhoIs DEF TuiAnswer, Both
<1>4. \A c : Comes(Web, c) \/ WebHas(c) => Comes(Web, c)' \/ WebHas(c)'
  BY <1>1, <1>2, <1>3, HasStays DEF Both
<1>5. CASE TuiRewriteAnswer(a) \/ Entered(a)
  <2>1. UNCHANGED TuiSide /\ a.t # "channels"
    BY <1>5 DEF TuiSide, TuiRewriteAnswer, Entered
  <2>2. Listing(Tui)' = Listing(Tui)
    BY <1>3, <2>1 DEF Listing
  <2>3. ListsOwn'
    BY <1>1, <1>3, <2>1, OwnStays DEF Lists, WebSide, TuiSide
  <2>4. \A c : Comes(Tui, c) \/ TuiHas(c) => Comes(Tui, c)' \/ TuiHas(c)'
    BY <1>1, <1>2, <2>1, <2>2, HasStays
  <2> QED
    BY <1>2, <1>3, <1>4, <2>3, <2>4 DEF Lists
<1>6. CASE TuiCreateAnswer(a)
  <2>1. a.t = "channel.created" /\ a.c \in Channels /\ tabs \in Seq(Channels) /\ tabs' = Append(tabs, a.c)
        /\ upset' = IF loading \/ a.c \in ToSet(tabs) THEN upset \cup {a.c} ELSE upset
    BY <1>2, <1>6 DEF TuiCreateAnswer, Told, CTypes, FTypes, TTypes
  <2>2. Listing(Tui)' = Listing(Tui)
    BY <1>3, <2>1 DEF Listing
  <2>3. ToSet(tabs') = ToSet(tabs) \cup {a.c}
    BY <2>1, AddTypes
  <2>4. NoTwice'
    <3>1. /\ DOMAIN tabs' = DOMAIN tabs \cup {Len(tabs) + 1} /\ tabs'[Len(tabs) + 1] = a.c
          /\ \A i \in DOMAIN tabs : tabs'[i] = tabs[i]
      BY <2>1, AppendTypes
    <3>2. \A i \in DOMAIN tabs : tabs[i] = a.c => a.c \in upset'
      BY <2>1 DEF ToSet
    <3>3. upset \subseteq upset'
      BY <2>1
    <3> QED
      BY <3>1, <3>2, <3>3 DEF Lists, ListsOwn, NoTwice
  <2>5. ListsOwn'
    BY <1>1, <1>3, <2>4 DEF Lists, ListsOwn, WebSide, NewCalls, NoTwice
  <2>6. \A c : TuiHas(c) => TuiHas(c)'
    BY <2>1, <2>2, <2>3 DEF TuiHas
  <2> QED
    BY <1>1, <1>2, <1>3, <1>4, <2>5, <2>6 DEF Lists
<1>7. CASE TuiLoaded(a)
  <2>1. a.t = "channels" /\ tabs' = SetToSeq(a.cs) /\ upset' = upset
    BY <1>7 DEF TuiLoaded
  <2>2. Listing(Tui)' = {} /\ Listing(Tui) = {a}
    BY <1>3, <2>1, WhoIs DEF Listing, CTypes, Passed, ReadKinds
  <2>3. ToSet(tabs') = a.cs /\ NoTwice'
    <3>1. a.cs \in SUBSET Channels
      BY <1>2, <2>1 DEF CTypes, FTypes
    <3> QED
      BY <2>1, <3>1, SeqOfSet, ChannelsFinite DEF NoTwice
  <2>4. ListsOwn'
    BY <1>1, <1>3, <2>3 DEF Lists, ListsOwn, WebSide, NewCalls, NoTwice
  <2>5. \A c : TuiHas(c) => TuiHas(c)'
    BY <2>1, <2>2, <2>3 DEF TuiHas
  <2> QED
    BY <1>1, <1>2, <1>3, <1>4, <2>4, <2>5 DEF Lists
<1> QED
  BY <1>5, <1>6, <1>7 DEF TuiTakes

LEMMA TuiReadKeeps ==
  ASSUME CTypes, Lists, TuiServe \/ \E c \in Channels : Enter(c), UNCHANGED webVars
  PROVE  Lists'
<1>1. Web \in Clients /\ Tui \in Clients /\ Web # Tui
  BY WhoIs
<1>2. ASSUME NEW a, NEW told, answers' = [answers EXCEPT ![Tui] = @ \cup {a}],
             missed' = [missed EXCEPT ![Tui] = @ \ told], a.t \in ReadKinds,
             UNCHANGED <<chans, pending, inbox>>, UNCHANGED TuiSide,
             a.t = "channels" => a.cs = chans /\ told = chans /\ Listing(Tui) = {},
             a.t # "channels" => told \cap chans = {}
      PROVE  Lists'
  <2>1. /\ answers'[Tui] = answers[Tui] \cup {a} /\ answers'[Web] = answers[Web]
        /\ missed'[Tui] = missed[Tui] \ told /\ missed'[Web] = missed[Web]
        /\ UNCHANGED WebSide
    BY <1>1, <1>2 DEF CTypes, FTypes, webVars, WebSide
  <2>2. OpenedFirst'
    <3>1. a.t # "channel.created"
      BY <1>2 DEF ReadKinds
    <3> QED
      BY <1>2, <2>1, <3>1 DEF Lists, OpenedFirst, Both
  <2>3. ListsOwn'
    BY <1>2, <2>1, OwnStays DEF Lists, WebSide, TuiSide
  <2>4. \A c : Comes(Web, c) \/ WebHas(c) => Comes(Web, c)' \/ WebHas(c)'
    <3>1. Listing(Web)' = Listing(Web) /\ \A c : Comes(Web, c)' = Comes(Web, c)
      BY <1>2, <2>1 DEF Listing, Comes, Announced, Awaits
    <3> QED
      BY <2>1, <3>1, HasStays
  <2>5. CASE a.t = "channels"
    <3>1. \A c \in chans : TuiHas(c)'
      BY <1>2, <2>1, <2>5 DEF TuiHas, Listing
    <3> QED
      BY <1>2, <2>1, <2>2, <2>3, <2>4, <3>1 DEF Lists
  <2>6. CASE a.t # "channels"
    <3>1. Listing(Tui)' = Listing(Tui)
      BY <2>1, <2>6 DEF Listing
    <3>2. \A c \in chans : Comes(Tui, c) => Comes(Tui, c)'
      BY <1>2, <2>1, <2>6 DEF Comes, Announced, Awaits
    <3>3. \A c \in chans : Comes(Tui, c) \/ TuiHas(c) => Comes(Tui, c)' \/ TuiHas(c)'
      BY <1>2, <3>1, <3>2, HasStays
    <3> QED
      BY <1>2, <2>1, <2>2, <2>3, <2>4, <3>3 DEF Lists
  <2> QED
    BY <2>5, <2>6
<1>3. CASE TuiServe
  <2>1. PICK a, told : a = [t |-> "channels", cs |-> chans] /\ told = chans
    OBVIOUS
  <2>2. a.t = "channels" /\ a.cs = chans /\ Listing(Tui) = {} /\ answers' = [answers EXCEPT ![Tui] = @ \cup {a}]
        /\ missed' = [missed EXCEPT ![Tui] = @ \ told] /\ UNCHANGED <<chans, pending, inbox>> /\ UNCHANGED TuiSide
    BY <1>3, <2>1 DEF TuiServe, Listing, TuiSide, tuiVars
  <2> QED
    BY <1>2, <2>1, <2>2 DEF ReadKinds
<1>4. CASE \E c \in Channels : Enter(c)
  <2>1. PICK a, told : a = [t |-> "page", page |-> {}] /\ told = {}
    OBVIOUS
  <2>2. a.t = "page" /\ answers' = [answers EXCEPT ![Tui] = @ \cup {a}]
        /\ UNCHANGED <<chans, pending, inbox, missed>> /\ UNCHANGED TuiSide
    BY <1>4, <2>1 DEF Enter, TuiSide
  <2>3. missed' = [missed EXCEPT ![Tui] = @ \ told]
    BY <1>1, <2>1, <2>2 DEF CTypes, FTypes
  <2> QED
    BY <1>2, <2>1, <2>2, <2>3 DEF ReadKinds
<1> QED
  BY <1>3, <1>4

LEMMA ListsKept == ASSUME CTypes, Lists, [Next]_vars PROVE Lists'
<1>1. CASE TuiStep /\ UNCHANGED webVars
  BY <1>1, TuiEventKeeps, TuiAnswerKeeps, TuiReadKeeps DEF TuiStep, TuiTakes
<1>2. CASE UNCHANGED <<feedVars, webVars, tuiVars>>
  BY <1>2, ListsSame DEF feedVars, webVars, tuiVars, WebSide, TuiSide
<1> QED
  BY <1>1, <1>2, ServerKeeps, WebKeeps, NextIs DEF CTypes

LEMMA ListsStart == ASSUME Init PROVE Lists
<1>1. scope.chans \in SUBSET Channels /\ scope.chans = chans /\ chans # {}
      /\ \A u \in Both : DOMAIN inbox[u] = {} /\ answers[u] = {} /\ Listing(u) = {}
  BY WhoIs DEF Init, FeedInit, Both, Listing
<1>2. pending = {} /\ calls = {}
  BY DEF Init, FeedInit, WebInit
<1>3. ToSet(SetToSeq(chans)) = chans
      /\ \A i, j \in DOMAIN SetToSeq(chans) : SetToSeq(chans)[i] = SetToSeq(chans)[j] => i = j
  BY <1>1, SeqOfSet, ChannelsFinite
<1>4. OpenedFirst
  BY <1>1, <1>2 DEF OpenedFirst
<1>5. CASE May("boot")
  <2>1. list = <<>> /\ tabs = <<>> /\ DOMAIN <<>> = {}
    BY <1>5 DEF Init, WebInit, TuiInit
  <2>2. \A u \in Both : chans \subseteq missed[u]
    BY <1>1, <1>5, WhoIs DEF Init, FeedInit, Both, May
  <2>3. ListsOwn
    BY <1>2, <2>1 DEF ListsOwn, NewCalls, NoRepeat, ToSet
  <2> QED
    BY <1>4, <2>2, <2>3 DEF Lists, Comes, Both
<1>6. CASE ~May("boot")
  <2>1. list = SetToSeq(chans) /\ tabs = SetToSeq(chans)
    BY <1>1, <1>6 DEF Init, WebInit, TuiInit
  <2>2. ListsOwn
    BY <1>2, <1>3, <2>1 DEF ListsOwn, NewCalls, NoRepeat
  <2>3. \A c \in chans : WebHas(c) /\ TuiHas(c)
    BY <1>1, <1>2, <1>3, <2>1 DEF WebHas, TuiHas, Both
  <2> QED
    BY <1>4, <2>2, <2>3 DEF Lists
<1> QED
  BY <1>5, <1>6

LEMMA ListsRight == ASSUME CTypes, Lists PROVE ChannelLists
<1>1. ASSUME NEW u \in Both, Quiet(u) PROVE DOMAIN inbox[u] = {} /\ pending = {} /\ Listing(u) = {}
  BY <1>1 DEF Quiet, Listing
<1>2. WebSettled => chans \subseteq ToSet(list) \cup missed[Web] \cup raced
  BY <1>1 DEF Lists, WebSettled, Comes, WebHas, Announced, Awaits, Both
<1>3. TuiSettled => chans \subseteq ToSet(tabs) \cup missed[Tui] \cup upset
  BY <1>1 DEF Lists, TuiSettled, Comes, TuiHas, Announced, Awaits, Both
<1> QED
  BY <1>2, <1>3 DEF Lists, ListsOwn, ChannelLists
-------------------------------------------------------------------------------
(* Versions *)

VerUp == scope' = scope /\ \A m \in Messages : ver[m] <= ver'[m]
FeedGood ==
    /\ \A e \in pending : Good(e)
    /\ \A c \in Clients : \A i \in DOMAIN inbox[c] : Good(inbox[c][i])
    /\ \A c \in Clients : \A a \in answers[c] : Good(a) /\ GoodRead(a)
ShownGood ==
    /\ \A m \in Messages : shown.server[m] <= ver[m]
    /\ \A c \in Channels : \A m \in news[c] : m \in Sent /\ Home(m) = c
LinesGood == \A m \in Messages : lines[m] <= ver[m]

LEMMA VersionsAre == Versions <=> FeedGood /\ ShownGood /\ LinesGood
  BY DEF Versions, FeedGood, ShownGood, LinesGood

LEMMA VerIs == FTypes => \A m \in Messages : ver[m] \in Nat /\ ver[m] \in 0 .. Gone /\ (m \in Sent <=> ver[m] # 0)
  BY WhoIs DEF FTypes, Sent

LEMMA VersOf == ASSUME FTypes, NEW e \in Event, e.t \in TextKinds PROVE e.m \in Messages /\ e.v \in Nat /\ e.v >= 1
  BY EventsAre, WhoIs DEF TextKinds
LEMMA MarkOf == ASSUME FTypes, NEW e \in Event, e.t \in MarkKinds PROVE e.m \in Messages /\ e.n \in Nat /\ e.on \in BOOLEAN
  BY EventsAre DEF MarkKinds

LEMMA GoodStays ==
  ASSUME FTypes, FTypes', VerUp
  PROVE  /\ \A e \in Event : Good(e) => Good(e)'
         /\ \A a : IsRead(a) /\ GoodRead(a) => GoodRead(a)'
         /\ \A a : IsRead(a) => Good(a) /\ Good(a)'
         /\ \A e \in Event : GoodRead(e) /\ GoodRead(e)'
         /\ Sent \subseteq Sent'
<1>1. \A m \in Messages : ver[m] \in Nat /\ ver'[m] \in Nat /\ ver[m] <= ver'[m]
  BY VerIs, WhoIs DEF VerUp, FTypes
<1>2. Sent \subseteq Sent'
  BY <1>1 DEF Sent
<1>3. \A m : Author(m)' = Author(m) /\ Home(m)' = Home(m)
  BY DEF Author, Home, VerUp
<1>4. ASSUME NEW e \in Event, Good(e) PROVE Good(e)'
  <2>1. CASE e.t \in TextKinds
    <3>1. e.m \in Messages /\ e.v \in Nat
      BY <2>1, VersOf
    <3>2. e.v <= ver[e.m] /\ e.t \notin MarkKinds
      BY <1>4, <2>1 DEF Good, TextKinds, MarkKinds
    <3>3. e.v <= ver'[e.m]
      BY <1>1, <3>1, <3>2
    <3> QED
      BY <1>3, <1>4, <3>2, <3>3 DEF Good
  <2>2. CASE e.t \notin TextKinds
    BY <1>2, <1>4, <2>2 DEF Good
  <2> QED
    BY <2>1, <2>2
<1>5. ASSUME NEW a, IsRead(a), GoodRead(a) PROVE GoodRead(a)'
  <2>1. a.t = "messages" => \A m \in DOMAIN a.rows : a.rows[m] <= ver'[m]
    <3>1. HAVE a.t = "messages"
    <3>2. DOMAIN a.rows \subseteq Messages /\ \A m \in DOMAIN a.rows : a.rows[m] \in 1 .. Gone
      BY <1>5, <3>1, ReadsAre
    <3> QED
      BY <1>1, <1>5, <3>1, <3>2, WhoIs DEF GoodRead
  <2> QED
    BY <1>2, <1>3, <1>5, <2>1 DEF GoodRead
<1>6. \A a : IsRead(a) => Good(a) /\ Good(a)'
  BY ReadsAre DEF Good, TextKinds, MarkKinds
<1>7. \A e \in Event : GoodRead(e) /\ GoodRead(e)'
  BY EventsAre DEF GoodRead
<1> QED
  BY <1>2, <1>4, <1>5, <1>6, <1>7

\* What is under way is as good as it was, if nothing is but what was or is good.
LEMMA FeedGoodStays ==
  ASSUME FTypes, FTypes', FeedGood, VerUp,
         \A e \in pending' : e \in pending \/ Good(e)',
         \A c \in Clients : \A i \in DOMAIN inbox'[c] :
            \E e \in Event : e = inbox'[c][i] /\ Good(e),
         \A c \in Clients : \A a \in answers'[c] :
            a \in answers[c] \/ (a \in Event /\ Good(a)) \/ (IsRead(a) /\ GoodRead(a)')
  PROVE  FeedGood'
<1>1. \A e \in pending' : Good(e)'
  BY GoodStays DEF FeedGood, FTypes
<1>2. \A c \in Clients : \A a \in answers'[c] : Good(a)' /\ GoodRead(a)'
  BY GoodStays DEF FeedGood, FTypes
<1>3. \A c \in Clients : \A i \in DOMAIN inbox'[c] : \E e : e = inbox'[c][i] /\ Good(e)'
  BY GoodStays
<1> QED
  BY <1>1, <1>2, <1>3 DEF FeedGood

LEMMA InboxGood ==
  ASSUME FTypes, FeedGood, NEW c \in Clients, NEW i \in DOMAIN inbox[c]
  PROVE  \E e \in Event : e = inbox[c][i] /\ Good(e)
<1>1. inbox[c][i] \in Event
  BY DEF FTypes
<1> QED
  BY <1>1 DEF FeedGood

LEMMA WriteGood ==
  ASSUME CTypes, FeedGood, NEW m \in Messages, Writes(m)
  PROVE  FeedGood' /\ VerUp /\ ver'[m] > ver[m] /\ \A x \in Messages : x # m => ver'[x] = ver[x]
<1> USE DEF CTypes
<1>1. FTypes' /\ UNCHANGED <<scope, inbox, answers>>
  BY WriteTypes DEF Writes, Send, Edit, Delete, Forward
<1>2. ver'[m] \in Nat /\ ver[m] \in Nat /\ ver'[m] > ver[m] /\ \A x \in Messages : x # m => ver'[x] = ver[x]
      /\ (Send(m) \/ Forward(m) => ver'[m] = 1)
  <2>1. CASE Send(m) \/ Forward(m)
    BY <2>1 DEF Send, Forward, FTypes
  <2>2. CASE Edit(m)
    <3>1. ver[m] \in 1 .. MaxVer - 1 /\ ver[m] # 0 /\ ver' = [ver EXCEPT ![m] = @ + 1]
      BY <2>2, WhoIs DEF Edit
    <3>2. ver[m] \in Nat
      BY VerIs
    <3> QED
      BY <2>2, <3>1, <3>2 DEF FTypes, Send, Forward
  <2>3. CASE Delete(m)
    <3>1. ver[m] \in 1 .. MaxVer /\ ver[m] # 0 /\ ver' = [ver EXCEPT ![m] = Gone]
      BY <2>3, WhoIs DEF Delete
    <3> QED
      BY <2>3, <3>1, WhoIs DEF FTypes, Send, Forward
  <2> QED
    BY <2>1, <2>2, <2>3 DEF Writes
<1>3. VerUp
  BY <1>1, <1>2, VerIs DEF VerUp
<1>4. PICK t \in TextKinds : /\ pending' = pending \cup {Note(t, m, Author(m))}
                             /\ t \in {"message.created", "forwarded"} => ver'[m] = 1
  <2>1. CASE Send(m)
    BY <1>2, <2>1 DEF Send, TextKinds
  <2>2. CASE Forward(m)
    BY <1>2, <2>2 DEF Forward, TextKinds
  <2>3. CASE Edit(m)
    BY <2>3 DEF Edit, TextKinds
  <2>4. CASE Delete(m)
    BY <2>4 DEF Delete, TextKinds
  <2> QED
    BY <2>1, <2>2, <2>3, <2>4 DEF Writes
<1>5. PICK n : n = Note(t, m, Author(m))
  OBVIOUS
<1>6. n.t = t /\ n.m = m /\ n.v = ver'[m] /\ n.by = Author(m)
  BY <1>5 DEF Note
<1>7. Author(m)' = Author(m) /\ t \notin MarkKinds
  BY <1>1 DEF Author, TextKinds, MarkKinds
<1>8. Good(n)'
  BY <1>2, <1>4, <1>6, <1>7 DEF Good
<1>9. FeedGood'
  BY <1>1, <1>3, <1>4, <1>5, <1>8, FeedGoodStays, InboxGood
<1> QED
  BY <1>2, <1>3, <1>9

LEMMA ServerGood == ASSUME CTypes, FeedGood, ServerStep PROVE FeedGood' /\ VerUp
<1> USE DEF CTypes
<1>1. FTypes'
  BY ServerTypes
<1>2. ASSUME ~\E m \in Messages : Writes(m) PROVE VerUp
  <2>1. UNCHANGED <<scope, ver>>
    BY <1>2 DEF ServerStep, React, CountReaction, CreateChannel, Announce, Leave, Join
  <2> QED
    BY <2>1, VerIs DEF VerUp
<1>3. ASSUME NEW m \in Messages, NEW u \in Users, NEW on \in BOOLEAN, React(m, u, on) PROVE FeedGood' /\ VerUp
  <2>1. VerUp /\ m \in Sent' /\ UNCHANGED <<inbox, answers>> /\ pending' = pending \cup {Reaction("written", m, u, on, 0)}
    BY <1>3, VerIs DEF React, VerUp, Sent
  <2>2. PICK n : n = Reaction("written", m, u, on, 0)
    OBVIOUS
  <2>3. n.t = "written" /\ n.m = m
    BY <2>2 DEF Reaction
  <2>4. Good(n)'
    BY <2>1, <2>3 DEF Good, TextKinds
  <2> QED
    BY <1>1, <2>1, <2>2, <2>4, FeedGoodStays, InboxGood
<1>4. ASSUME NEW e \in pending, CountReaction(e) PROVE FeedGood' /\ VerUp
  <2>1. VerUp /\ UNCHANGED <<inbox, answers>> /\ e.t = "written"
        /\ pending' = (pending \ {e}) \cup {Reaction("message.reaction", e.m, e.by, e.on, Count(e.m))}
    BY <1>4, VerIs DEF CountReaction, VerUp
  <2>2. PICK n : n = Reaction("message.reaction", e.m, e.by, e.on, Count(e.m))
    OBVIOUS
  <2>3. n.t = "message.reaction" /\ n.m = e.m
    BY <2>2 DEF Reaction
  <2>4. e.m \in Sent /\ Sent' = Sent
    BY <1>4, <2>1 DEF FeedGood, Good, MarkKinds, CountReaction, Sent
  <2>5. Good(n)'
    BY <2>3, <2>4 DEF Good, TextKinds
  <2> QED
    BY <1>1, <2>1, <2>2, <2>5, FeedGoodStays, InboxGood
<1>5. ASSUME NEW e \in pending, Announce(e) PROVE FeedGood' /\ VerUp
  <2>1. VerUp /\ pending' = pending \ {e} /\ e \in Event /\ Good(e)
    BY <1>5, VerIs DEF Announce, VerUp, FeedGood, FTypes
  <2>2. \A c \in Clients : \A i \in DOMAIN inbox'[c] : \E f \in Event : f = inbox'[c][i] /\ Good(f)
    <3>1. ASSUME NEW c \in Clients, NEW i \in DOMAIN inbox'[c]
          PROVE  (i \in DOMAIN inbox[c] /\ inbox'[c][i] = inbox[c][i]) \/ inbox'[c][i] = e
      BY <1>5, AnnounceKeeps
    <3> QED
      BY <2>1, <3>1, InboxGood
  <2>3. \A c \in Clients : \A a \in answers'[c] : a \in answers[c] \/ a = e
    BY <1>5 DEF Announce, FTypes
  <2> QED
    BY <1>1, <2>1, <2>2, <2>3, FeedGoodStays
<1>6. ASSUME NEW c \in Channels, NEW u \in Users, CreateChannel(c, u) PROVE FeedGood' /\ VerUp
  <2>1. VerUp /\ UNCHANGED <<inbox, answers>> /\ pending' = pending \cup {NewChannel(c, u)}
    BY <1>6, VerIs DEF CreateChannel, VerUp
  <2>2. Good(NewChannel(c, u))'
    BY DEF Good, NewChannel, TextKinds, MarkKinds
  <2> QED
    BY <1>1, <2>1, <2>2, FeedGoodStays, InboxGood
<1>7. ASSUME NEW c \in Clients, Leave(c) \/ Join(c) PROVE FeedGood' /\ VerUp
  <2>1. VerUp /\ UNCHANGED <<pending, answers>>
    BY <1>7, VerIs DEF Leave, Join, VerUp
  <2>2. \A d \in Clients : inbox'[d] = inbox[d] \/ inbox'[d] = <<>>
    BY <1>7 DEF Leave, Join, FTypes
  <2>3. \A d \in Clients : \A i \in DOMAIN inbox'[d] : \E f \in Event : f = inbox'[d][i] /\ Good(f)
    BY <2>2, InboxGood
  <2> QED
    BY <1>1, <2>1, <2>3, FeedGoodStays
<1> QED
  BY <1>3, <1>4, <1>5, <1>6, <1>7, WriteGood DEF ServerStep
-------------------------------------------------------------------------------
LEMMA UpStays == ASSUME CTypes, UNCHANGED <<scope, ver>> PROVE VerUp
  BY VerIs DEF VerUp, CTypes

LEMMA TakenGood ==
  ASSUME CTypes, FTypes', FeedGood, NEW u \in Clients, inbox[u] # <<>>, inbox' = [inbox EXCEPT ![u] = Tail(@)],
         UNCHANGED <<scope, ver, pending, answers>>
  PROVE  FeedGood' /\ Good(Head(inbox[u]))
<1> USE DEF CTypes
<1>0. FTypes
  OBVIOUS
<1>1. ASSUME NEW c \in Clients, NEW i \in DOMAIN inbox'[c] PROVE \E j \in DOMAIN inbox[c] : inbox'[c][i] = inbox[c][j]
  <2>1. \A d \in Clients : d # u => inbox'[d] = inbox[d]
    BY <1>0, TakeIs
  <2>2. \A j \in DOMAIN inbox'[u] : j + 1 \in DOMAIN inbox[u] /\ inbox'[u][j] = inbox[u][j + 1]
    BY <1>0, TakeIs
  <2> QED
    BY <1>1, <2>1, <2>2
<1>2. \A c \in Clients : \A i \in DOMAIN inbox'[c] : \E e \in Event : e = inbox'[c][i] /\ Good(e)
  BY <1>1, InboxGood
<1>3. Good(Head(inbox[u]))
  <2>1. Head(inbox[u]) = inbox[u][1] /\ 1 \in DOMAIN inbox[u]
    BY <1>0, TakeIs
  <2> QED
    BY <2>1 DEF FeedGood
<1> QED
  BY <1>2, <1>3, UpStays, FeedGoodStays

LEMMA FewerGood ==
  ASSUME CTypes, FTypes', FeedGood, UNCHANGED <<scope, ver, pending, inbox>>,
         \A c \in Clients : \A a \in answers'[c] : a \in answers[c] \/ (IsRead(a) /\ GoodRead(a))
  PROVE  FeedGood'
<1>1. \A a : IsRead(a) /\ GoodRead(a) => GoodRead(a)'
  BY UpStays, GoodStays DEF CTypes
<1>2. \A c \in Clients : \A i \in DOMAIN inbox'[c] : \E e \in Event : e = inbox'[c][i] /\ Good(e)
  BY InboxGood DEF CTypes
<1> QED
  BY <1>1, <1>2, UpStays, FeedGoodStays DEF CTypes

LEMMA ServesGood ==
  ASSUME CTypes
  PROVE  /\ GoodRead([t |-> "channels", cs |-> chans])
         /\ GoodRead([t |-> "unread", new |-> [c \in chans |-> Unread(Web, c)]])
         /\ GoodRead([t |-> "messages", rows |-> Rows(PageOf(Turn))])
         /\ GoodRead([t |-> "reactions", rows |-> [m \in Marked |-> [n |-> Count(m), on |-> <<m, Web>> \in reacts]]])
         /\ GoodRead([t |-> "page", page |-> {}])
<1>1. GoodRead([t |-> "messages", rows |-> Rows(PageOf(Turn))])
  BY PageIs, VerIs DEF GoodRead, Rows, Sent, CTypes
<1>2. GoodRead([t |-> "unread", new |-> [c \in chans |-> Unread(Web, c)]])
  BY DEF GoodRead, Unread
<1> QED
  BY <1>1, <1>2 DEF GoodRead

LEMMA WebGood == ASSUME CTypes, FeedGood, WebStep PROVE FeedGood' /\ VerUp
<1> USE DEF CTypes
<1>0. FTypes' /\ Web \in Clients
  BY WebFeedTypes, WhoIs
<1>1. CASE OnCreated \/ OnRewritten \/ OnReaction \/ OnChannel
  <2>1. TakeEvent /\ inbox[Web] # <<>>
    BY <1>1 DEF OnCreated, OnRewritten, OnReaction, OnChannel, Heard
  <2> QED
    BY <1>0, <2>1, TakenGood, UpStays DEF TakeEvent
<1>2. CASE (\E m \in Messages : SendCopy(m) \/ OnCopy(m) \/ Visible(m)) \/ Start \/ \E c \in Channels : SelectChannel(c)
  <2>1. UNCHANGED <<scope, ver, pending, inbox, answers>>
    BY <1>2 DEF SendCopy, OnCopy, Start, SelectChannel, Visible, AckRead, feedVars
  <2> QED
    BY <1>0, <2>1, FewerGood, UpStays
<1>3. CASE \E a \in answers[Web] : WebTakes(a) \/ WebApplies(a)
  <2>1. PICK a \in answers[Web] : TakeAnswer(a)
    BY <1>3 DEF WebTakes, WebApplies, OnRewriteAnswer, OnReactionAnswer, OnForwardAnswer, OnCreateAnswer,
                ApplyChannels, ApplyUnread, ApplyMessages, ApplyReactions, Applying
  <2>2. \A c \in Clients : answers'[c] \subseteq answers[c]
    BY <1>0, <2>1 DEF TakeAnswer, FTypes
  <2> QED
    BY <1>0, <2>1, <2>2, FewerGood, UpStays DEF TakeAnswer
<1>4. CASE \E c \in Channels : Create(c)
  <2>1. ServerStep
    BY <1>4, WhoIs DEF Create, ServerStep
  <2> QED
    BY <2>1, ServerGood
<1>5. CASE ServeChannels \/ ServeUnread \/ ServeMessages \/ ServeReactions
  <2>1. PICK a, told : IsRead(a) /\ GoodRead(a) /\ Serve(a, told)
    BY <1>5, ServesAre, ServesGood DEF ServeChannels, ServeUnread, ServeMessages, ServeReactions, Serving
  <2>2. \A c \in Clients : \A b \in answers'[c] : b \in answers[c] \/ b = a
    BY <2>1 DEF Serve, FTypes
  <2> QED
    BY <1>0, <2>1, <2>2, FewerGood, UpStays DEF Serve
<1> QED
  BY <1>1, <1>2, <1>3, <1>4, <1>5 DEF WebStep, WebTakes, WebApplies

LEMMA TuiGood == ASSUME CTypes, FeedGood, TuiStep PROVE FeedGood' /\ VerUp
<1> USE DEF CTypes
<1>0. FTypes' /\ Tui \in Clients
  BY TuiFeedTypes, WhoIs
<1>1. CASE TuiMessage \/ TuiChannel
  <2>1. TuiEvent /\ inbox[Tui] # <<>>
    BY <1>1 DEF TuiMessage, TuiChannel, TuiHeard
  <2> QED
    BY <1>0, <2>1, TakenGood, UpStays DEF TuiEvent
<1>2. CASE TuiServe \/ \E c \in Channels : Enter(c)
  <2>1. PICK a : IsRead(a) /\ GoodRead(a) /\ answers' = [answers EXCEPT ![Tui] = @ \cup {a}]
    BY <1>2, ServesAre, ServesGood DEF TuiServe, Enter
  <2>2. UNCHANGED <<scope, ver, pending, inbox>>
    BY <1>2 DEF TuiServe, Enter
  <2>3. \A c \in Clients : \A b \in answers'[c] : b \in answers[c] \/ b = a
    BY <2>1 DEF FTypes
  <2> QED
    BY <1>0, <2>1, <2>2, <2>3, FewerGood, UpStays
<1>3. CASE \E a \in answers[Tui] : TuiTakes(a)
  <2>1. PICK a \in answers[Tui] : TuiAnswer(a)
    BY <1>3 DEF TuiTakes, TuiRewriteAnswer, TuiCreateAnswer, TuiLoaded, Entered
  <2>2. \A c \in Clients : answers'[c] \subseteq answers[c]
    BY <1>0, <2>1 DEF TuiAnswer, FTypes
  <2> QED
    BY <1>0, <2>1, <2>2, FewerGood, UpStays DEF TuiAnswer
<1> QED
  BY <1>1, <1>2, <1>3 DEF TuiStep, TuiTakes

LEMMA ShownUp ==
  ASSUME CTypes, FTypes', ShownGood, VerUp, UNCHANGED <<shown, news>>
  PROVE  ShownGood'
<1>1. \A m \in Messages : ver[m] \in Nat /\ ver'[m] \in Nat /\ ver[m] <= ver'[m] /\ shown.server[m] \in Nat
  BY VerIs, WhoIs DEF VerUp, FTypes, CTypes, WTypes
<1>2. \A m \in Messages : shown.server[m] <= ver'[m]
  BY <1>1 DEF ShownGood
<1>3. Sent \subseteq Sent' /\ \A m : Home(m)' = Home(m)
  BY <1>1 DEF Sent, Home, VerUp
<1> QED
  BY <1>2, <1>3 DEF ShownGood

LEMMA LinesUp ==
  ASSUME CTypes, FTypes', LinesGood, VerUp, lines' = lines
  PROVE  LinesGood'
<1>1. \A m \in Messages : ver[m] \in Nat /\ ver'[m] \in Nat /\ ver[m] <= ver'[m] /\ lines[m] \in Nat
  BY VerIs, WhoIs DEF VerUp, FTypes, CTypes, TTypes
<1> QED
  BY <1>1 DEF LinesGood

LEMMA SelectGood == ASSUME CTypes, ShownGood, NEW c \in Channels, Select(c), UNCHANGED <<scope, ver>>
                    PROVE \A d \in Channels : \A m \in news'[d] : m \in Sent' /\ Home(m)' = d
  BY DEF ShownGood, Select, Sent, Home, CTypes, WTypes

LEMMA WebShown == ASSUME CTypes, FeedGood, ShownGood, WebStep PROVE ShownGood'
<1> USE DEF CTypes
<1>0. FTypes' /\ Web \in Clients /\ VerUp
  BY WebFeedTypes, WebGood, WhoIs
<1>1. CASE UNCHANGED <<shown, news>>
  BY <1>0, <1>1, ShownUp
<1>2. ASSUME UNCHANGED <<scope, ver>>, NEW m \in Messages, NEW v, v <= ver[m], Upsert(m, v),
             news' = news \/ \E c \in Channels : Select(c)
      PROVE  ShownGood'
  <2>1. \A x \in Messages : shown'.server[x] <= ver'[x]
    BY <1>2 DEF Upsert, ShownGood, WTypes
  <2>2. \A d \in Channels : \A x \in news'[d] : x \in Sent' /\ Home(x)' = d
    BY <1>2, SelectGood DEF ShownGood, Sent, Home
  <2> QED
    BY <2>1, <2>2 DEF ShownGood
<1>3. CASE OnCreated \/ OnRewritten
  <2>1. TakeEvent /\ inbox[Web] # <<>> /\ Head1.t \in {"message.created", "message.updated", "message.deleted"}
    BY <1>3 DEF OnCreated, OnRewritten, Heard
  <2>2. Head1 \in Event /\ Good(Head1) /\ UNCHANGED <<scope, ver>>
    BY <1>0, <2>1, HeadIs, TakenGood DEF TakeEvent, Head1
  <2>3. Head1.m \in Messages /\ Head1.v \in Nat /\ Head1.v <= ver[Head1.m] /\ Head1.v >= 1
    BY <2>1, <2>2, VersOf DEF Good, TextKinds
  <2>4. CASE OnRewritten
    BY <1>2, <2>2, <2>3, <2>4 DEF OnRewritten
  <2>5. CASE OnCreated
    <3>1. Head1.m \in Sent
      BY <2>3, VerIs
    <3>2. \A x \in Messages : shown'.server[x] <= ver'[x]
      <4>1. shown' = shown \/ Replace(Head1.m)
        BY <2>5 DEF OnCreated
      <4>2. Replace(Head1.m) => \A x \in Messages : shown'.server[x] = IF x = Head1.m THEN Head1.v ELSE shown.server[x]
        BY DEF Replace, WTypes
      <4> QED
        BY <2>2, <2>3, <4>1, <4>2 DEF ShownGood
    <3>3. news' = news \/ news' = [news EXCEPT ![Home(Head1.m)] = @ \cup {Head1.m}]
      BY <2>5 DEF OnCreated
    <3>4. \A d \in Channels : \A x \in news'[d] : x \in Sent /\ Home(x) = d
      <4>1. \A d \in Channels : news'[d] \subseteq news[d] \cup (IF d = Home(Head1.m) THEN {Head1.m} ELSE {})
        BY <3>3 DEF WTypes
      <4> QED
        BY <3>1, <4>1 DEF ShownGood
    <3> QED
      BY <2>2, <3>2, <3>4 DEF ShownGood, Sent, Home
  <2> QED
    BY <1>3, <2>4, <2>5
<1>4. ASSUME NEW a \in answers[Web], OnRewriteAnswer(a) \/ OnForwardAnswer(a) PROVE ShownGood'
  <2>1. UNCHANGED <<scope, ver>> /\ Upsert(a.m, a.v) /\ (news' = news \/ Select(Home(a.m)))
    BY <1>4 DEF OnRewriteAnswer, OnForwardAnswer, TakeAnswer
  <2>2. a.t \in TextKinds /\ a.m \in Messages /\ Home(a.m) \in Channels
    BY <1>0, <1>4, AnswerIs, WhoIs DEF OnRewriteAnswer, OnForwardAnswer, TextKinds, FTypes
  <2>3. a.v <= ver[a.m]
    BY <1>0, <2>2 DEF FeedGood, Good
  <2> QED
    BY <1>2, <2>1, <2>2, <2>3
<1>5. ASSUME NEW a \in answers[Web], ApplyMessages(a) PROVE ShownGood'
  <2>1. UNCHANGED <<scope, ver, news>> /\ a.t = "messages"
        /\ \A m \in Messages : shown'.server[m] = IF m \in DOMAIN a.rows THEN a.rows[m] ELSE shown.server[m]
    BY <1>5 DEF ApplyMessages, Applying, TakeAnswer, WTypes
  <2>2. \A m \in DOMAIN a.rows : a.rows[m] <= ver[m]
    BY <1>0, <2>1 DEF FeedGood, GoodRead
  <2> QED
    BY <2>1, <2>2 DEF ShownGood, Sent, Home
<1>6. ASSUME NEW a \in answers[Web], ApplyUnread(a) PROVE ShownGood'
  <2>1. UNCHANGED <<scope, ver, shown>> /\ a.t = "unread"
        /\ \A c \in Channels : news'[c] \subseteq news[c] \cup (IF c \in DOMAIN a.new THEN a.new[c] ELSE {})
    BY <1>6 DEF ApplyUnread, Applying, TakeAnswer
  <2>2. \A c \in DOMAIN a.new : \A m \in a.new[c] : m \in Sent /\ Home(m) = c
    BY <1>0, <2>1 DEF FeedGood, GoodRead
  <2> QED
    BY <2>1, <2>2 DEF ShownGood, Sent, Home
<1>7. ASSUME NEW c \in Channels, Select(c), UNCHANGED <<scope, ver, shown>> PROVE ShownGood'
  BY <1>7, SelectGood DEF ShownGood
<1>8. ASSUME NEW a \in answers[Web], OnCreateAnswer(a) \/ ApplyChannels(a) PROVE ShownGood'
  <2>1. UNCHANGED <<scope, ver, shown>>
    BY <1>8 DEF OnCreateAnswer, ApplyChannels, Applying, TakeAnswer
  <2>2. CASE OnCreateAnswer(a)
    <3>1. a.c \in Channels /\ Select(a.c)
      BY <1>0, <2>2, AnswerIs DEF OnCreateAnswer
    <3> QED
      BY <1>7, <2>1, <3>1
  <2>3. CASE ApplyChannels(a)
    <3>1. a.cs \in SUBSET Channels /\ a.cs # {}
      BY <1>0, <2>3, AnswerIs, ReadsAre DEF ApplyChannels
    <3>2. SetToSeq(a.cs)[1] \in a.cs
      BY <3>1, SeqOfSet, ChannelsFinite
    <3>3. \E c \in Channels : Select(c)
      BY <2>3, <3>1, <3>2 DEF ApplyChannels
    <3> QED
      BY <1>7, <2>1, <3>3
  <2> QED
    BY <1>8, <2>2, <2>3
<1>9. ASSUME NEW a \in answers[Web], OnReactionAnswer(a) \/ ApplyReactions(a) PROVE ShownGood'
  BY <1>1, <1>9 DEF OnReactionAnswer, ApplyReactions
<1>10. ASSUME NEW c \in Channels, Create(c) \/ SelectChannel(c) PROVE ShownGood'
  BY <1>1, <1>7, <1>10 DEF Create, SelectChannel
<1>11. CASE (\E m \in Messages : SendCopy(m) \/ Visible(m)) \/ OnReaction \/ OnChannel \/ Start \/ ServeChannels
            \/ ServeUnread \/ ServeMessages \/ ServeReactions
  BY <1>1, <1>11 DEF SendCopy, Visible, OnReaction, OnChannel, Start, ServeChannels, ServeUnread, ServeMessages,
                     ServeReactions, Serve, webVars
<1>12. ASSUME NEW m \in Messages, OnCopy(m) PROVE ShownGood'
  <2>1. shown'.server = shown.server /\ UNCHANGED <<scope, ver, news>>
    BY <1>12 DEF OnCopy, feedVars, WTypes
  <2> QED
    BY <2>1 DEF ShownGood, Sent, Home
<1> QED
  BY <1>3, <1>4, <1>5, <1>6, <1>8, <1>9, <1>10, <1>11, <1>12 DEF WebStep

LEMMA TuiLines == ASSUME CTypes, FeedGood, LinesGood, TuiStep PROVE LinesGood'
<1> USE DEF CTypes
<1>0. FTypes' /\ Tui \in Clients /\ VerUp
  BY TuiFeedTypes, TuiGood, WhoIs
<1>1. CASE lines' = lines
  BY <1>0, <1>1, LinesUp
<1>2. CASE TuiMessage
  <2>1. TuiEvent /\ inbox[Tui] # <<>>
    BY <1>2 DEF TuiMessage
  <2>2. TuiHead \in Event /\ Good(TuiHead) /\ UNCHANGED <<scope, ver>>
    BY <1>0, <2>1, HeadIs, TakenGood DEF TuiEvent, TuiHead
  <2>3. CASE TuiHead.t \in {"message.created", "message.updated", "message.deleted"}
    <3>1. TuiHead.m \in Messages /\ TuiHead.v \in Nat /\ TuiHead.v <= ver[TuiHead.m]
      BY <2>2, <2>3, VersOf DEF Good, TextKinds
    <3>2. lines' = lines \/ lines' = [lines EXCEPT ![TuiHead.m] = TuiHead.v]
      BY <1>2, <2>3 DEF TuiMessage, Appended, Rewritten
    <3> QED
      BY <2>2, <3>1, <3>2 DEF LinesGood, TTypes
  <2>4. CASE TuiHead.t \notin {"message.created", "message.updated", "message.deleted"}
    <3>1. lines' = lines
      BY <1>2, <2>4 DEF TuiMessage
    <3> QED
      BY <1>1, <3>1
  <2> QED
    BY <2>3, <2>4
<1>3. ASSUME NEW a \in answers[Tui], TuiRewriteAnswer(a) PROVE LinesGood'
  <2>1. UNCHANGED <<scope, ver>> /\ (lines' = lines \/ lines' = [lines EXCEPT ![a.m] = a.v])
    BY <1>3 DEF TuiRewriteAnswer, TuiAnswer, Rewritten
  <2>2. a.t \in TextKinds /\ a.m \in Messages
    BY <1>0, <1>3, AnswerIs DEF TuiRewriteAnswer, TextKinds
  <2>3. a.v <= ver[a.m]
    BY <1>0, <2>2 DEF FeedGood, Good
  <2> QED
    BY <2>1, <2>2, <2>3 DEF LinesGood, TTypes
<1>4. ASSUME NEW a \in answers[Tui], Entered(a) PROVE LinesGood'
  BY <1>0, <1>4, VerIs DEF Entered, TuiAnswer, LinesGood
<1>5. ASSUME NEW a \in answers[Tui], TuiCreateAnswer(a) \/ TuiLoaded(a) PROVE LinesGood'
  BY <1>1, <1>5 DEF TuiCreateAnswer, TuiLoaded
<1>6. CASE TuiChannel \/ TuiServe \/ \E c \in Channels : Enter(c)
  BY <1>1, <1>6 DEF TuiChannel, TuiServe, Enter, tuiVars
<1> QED
  BY <1>2, <1>3, <1>4, <1>5, <1>6 DEF TuiStep

LEMMA VersionsKept == ASSUME CTypes, Versions, [Next]_vars PROVE Versions' /\ VerUp
<1>1. FeedGood /\ ShownGood /\ LinesGood /\ FTypes /\ FTypes'
  BY VersionsAre, TypesKept DEF CTypes
<1>2. CASE ServerStep /\ UNCHANGED <<webVars, tuiVars>>
  <2>1. FeedGood' /\ VerUp /\ UNCHANGED <<shown, news, lines>>
    BY <1>1, <1>2, ServerGood DEF webVars, tuiVars
  <2>2. ShownGood' /\ LinesGood'
    BY <1>1, <2>1, ShownUp, LinesUp
  <2> QED
    BY <2>1, <2>2 DEF Versions, FeedGood, ShownGood, LinesGood
<1>3. CASE WebStep /\ UNCHANGED tuiVars
  <2>1. FeedGood' /\ VerUp /\ ShownGood' /\ lines' = lines
    BY <1>1, <1>3, WebGood, WebShown DEF tuiVars
  <2>2. LinesGood'
    BY <1>1, <2>1, LinesUp
  <2> QED
    BY <2>1, <2>2 DEF Versions, FeedGood, ShownGood, LinesGood
<1>4. CASE TuiStep /\ UNCHANGED webVars
  <2>1. FeedGood' /\ VerUp /\ LinesGood' /\ UNCHANGED <<shown, news>>
    BY <1>1, <1>4, TuiGood, TuiLines DEF webVars
  <2>2. ShownGood'
    BY <1>1, <2>1, ShownUp
  <2> QED
    BY <2>1, <2>2 DEF Versions, FeedGood, ShownGood, LinesGood
<1>5. CASE UNCHANGED <<feedVars, webVars, tuiVars>>
  <2>1. UNCHANGED <<scope, ver, pending, inbox, answers, shown, news, lines>>
    BY <1>5 DEF feedVars, webVars, tuiVars
  <2>2. VerUp
    BY <2>1, UpStays
  <2>3. FeedGood'
    BY <1>1, <2>1, FewerGood
  <2>4. ShownGood' /\ LinesGood'
    BY <1>1, <2>1, <2>2, ShownUp, LinesUp
  <2> QED
    BY <2>2, <2>3, <2>4 DEF Versions, FeedGood, ShownGood, LinesGood
<1> QED
  BY <1>1, <1>2, <1>3, <1>4, <1>5, NextIs

LEMMA VersionsStart == ASSUME Init PROVE Versions
<1>1. CTypes
  BY TypesInit
<1>2. pending = {} /\ \A c \in Clients : DOMAIN inbox[c] = {} /\ answers[c] = {}
  BY DEF Init, FeedInit
<1>3. \A m \in Messages : shown.server[m] <= ver[m] /\ lines[m] <= ver[m]
  BY <1>1, VerIs DEF Init, WebInit, TuiInit, None, CTypes
<1>4. \A c \in Channels : news[c] = {}
  BY DEF Init, WebInit
<1> QED
  BY <1>2, <1>3, <1>4 DEF Versions
-------------------------------------------------------------------------------
(* Events in order *)

\* What the order of a message depends on.
SameRow(m) == ver'[m] = ver[m] /\ Count(m)' = Count(m) /\ \A u : Reacted(m, u)' = Reacted(m, u)
SamePending(m) == \A e : Of(e, m) => (e \in pending' <=> e \in pending)
Answers(c, m, a) ==
    /\ Tells(a, m) => a.v = ver[m]
    /\ Counts(a, m) => a.n = Count(m) /\ (a.on <=> Reacted(m, c))
    /\ a.t = "messages" /\ m \in DOMAIN a.rows => a.rows[m] = ver[m]
    /\ a.t = "reactions" /\ m \in DOMAIN a.rows => a.rows[m].n = Count(m) /\ (a.rows[m].on <=> Reacted(m, Web))
Underway(m) ==
    /\ \A e, f \in pending : Of(e, m) /\ Of(f, m) => e = f
    /\ \A e \in pending : Tells(e, m) => e.v = ver[m]
    /\ \A e \in pending : Counts(e, m) => /\ e.on <=> Reacted(m, e.by)
                                          /\ e.t = "message.reaction" => e.n = Count(m)

LEMMA CurrentIs == \A m : Current(m) <=> Underway(m) /\ \A c \in Clients : \A a \in answers[c] : Answers(c, m, a)
  BY DEF Current, Underway, Answers

LEMMA RowSame == UNCHANGED <<ver, reacts>> => \A m : SameRow(m)
  BY DEF SameRow, Count, Reacted

LEMMA KindsAre ==
  /\ \A e, m : Tells(e, m) => Of(e, m) /\ ~Counts(e, m)
  /\ \A e, m : Counts(e, m) => Of(e, m) /\ ~Tells(e, m)
  /\ \A e, m : First(e, m) => Tells(e, m)
  /\ \A c, e, m : Own(c, e, m) => Counts(e, m)
  /\ \A e, m : Of(e, m) => (Tells(e, m) \/ Counts(e, m)) /\ e.t # "channel.created"
BY DEF Of, Tells, Counts, First, Own, AboutKinds, TextKinds, MarkKinds

LEMMA UnderwaySame ==
  ASSUME NEW m, SameRow(m), SamePending(m), Underway(m)
  PROVE  Underway(m)'
<1>1. \A e : (Tells(e, m)' = Tells(e, m)) /\ (Of(e, m)' = Of(e, m)) /\ (Counts(e, m)' = Counts(e, m))
  BY DEF Tells, Of, Counts
<1>2. \A e \in pending' : Of(e, m) => e \in pending
  BY DEF SamePending
<1> QED
  BY <1>1, <1>2, KindsAre DEF Underway, SameRow

LEMMA AnswersSame == \A m : SameRow(m) => \A c, a : Answers(c, m, a) => Answers(c, m, a)'
  BY DEF Answers, SameRow, Tells, Counts

\* Nothing of the message changes, and the queue of the client neither.
LEMMA QueueSame ==
  ASSUME NEW m, NEW c \in Clients, SameRow(m), SamePending(m), inbox'[c] = inbox[c], Queued(c, m), Tallied(c, m)
  PROVE  Queued(c, m)' /\ Tallied(c, m)'
<1>1. \A e : /\ Tells(e, m)' = Tells(e, m) /\ First(e, m)' = First(e, m) /\ Counts(e, m)' = Counts(e, m)
             /\ Own(c, e, m)' = Own(c, e, m)
  BY DEF Tells, First, Counts, Own
<1>2. /\ \A e \in pending : Tells(e, m) \/ Counts(e, m) => e \in pending'
      /\ \A e \in pending' : Tells(e, m) \/ Counts(e, m) => e \in pending
  BY KindsAre DEF SamePending
<1>3. Queued(c, m)'
  <2>1. (\A e \in pending' : ~Tells(e, m)) => \A e \in pending : ~Tells(e, m)
    BY <1>2
  <2>2. \A e \in pending' : First(e, m) => e \in pending
    BY <1>2, KindsAre
  <2> QED
    BY <2>1, <2>2 DEF Queued, SameRow, Tells, First
<1>4. Tallied(c, m)'
  <2>1. (\A e \in pending' : ~Counts(e, m)) => \A e \in pending : ~Counts(e, m)
    BY <1>2
  <2>2. (\A e \in pending' : ~Own(c, e, m)) => \A e \in pending : ~Own(c, e, m)
    BY <1>2, KindsAre
  <2> QED
    BY <2>1, <2>2 DEF Tallied, SameRow, Counts, Own
<1> QED
  BY <1>3, <1>4

\* A client takes the first event of its queue.
LEMMA QueueTaken ==
  ASSUME FTypes, NEW u \in Clients, inbox[u] # <<>>, inbox' = [inbox EXCEPT ![u] = Tail(@)],
         NEW m, SameRow(m), SamePending(m), Queued(u, m), Tallied(u, m)
  PROVE  Queued(u, m)' /\ Tallied(u, m)'
<1>1. \A i \in DOMAIN inbox'[u] : i \in Nat /\ i + 1 \in DOMAIN inbox[u] /\ inbox'[u][i] = inbox[u][i + 1]
  BY TakeIs
<1>2. \A j \in DOMAIN inbox[u] : j \in Nat /\ (j = 1 \/ (j - 1 \in DOMAIN inbox'[u] /\ inbox'[u][j - 1] = inbox[u][j]))
  BY TakeIs
<1>3. /\ \A e \in pending : Tells(e, m) \/ Counts(e, m) => e \in pending'
      /\ \A e \in pending' : Tells(e, m) \/ Counts(e, m) => e \in pending
  BY KindsAre DEF SamePending
<1>4. Queued(u, m)'
  <2>1. ASSUME \A e \in pending' : ~Tells(e, m), NEW i \in DOMAIN inbox'[u], Tells(inbox'[u][i], m),
               \A j \in DOMAIN inbox'[u] : Tells(inbox'[u][j], m) => j <= i
        PROVE  inbox'[u][i].v = ver'[m]
    <3>1. \A e \in pending : ~Tells(e, m)
      BY <1>3, <2>1
    <3>2. ASSUME NEW j \in DOMAIN inbox[u], Tells(inbox[u][j], m) PROVE j <= i + 1
      <4>1. j \in Nat /\ i \in Nat
        BY <1>1, <1>2
      <4>2. CASE j # 1
        <5>1. j - 1 \in DOMAIN inbox'[u] /\ inbox'[u][j - 1] = inbox[u][j]
          BY <1>2, <4>2
        <5>2. j - 1 <= i
          BY <2>1, <3>2, <5>1
        <5> QED
          BY <4>1, <5>2
      <4> QED
        BY <4>1, <4>2
    <3>3. inbox[u][i + 1].v = ver[m]
      BY <1>1, <2>1, <3>1, <3>2 DEF Queued
    <3> QED
      BY <1>1, <3>3 DEF SameRow
  <2>2. \A e \in pending' : First(e, m) => \A i \in DOMAIN inbox'[u] : ~Tells(inbox'[u][i], m)
    BY <1>1, <1>3, KindsAre DEF Queued
  <2>3. \A i, j \in DOMAIN inbox'[u] : First(inbox'[u][i], m) /\ Tells(inbox'[u][j], m) => i <= j
    <3> SUFFICES ASSUME NEW i \in DOMAIN inbox'[u], NEW j \in DOMAIN inbox'[u],
                        First(inbox'[u][i], m), Tells(inbox'[u][j], m)
                 PROVE  i <= j
      OBVIOUS
    <3>1. /\ i \in Nat /\ i + 1 \in DOMAIN inbox[u] /\ First(inbox[u][i + 1], m)
          /\ j \in Nat /\ j + 1 \in DOMAIN inbox[u] /\ Tells(inbox[u][j + 1], m)
      BY <1>1
    <3>2. i + 1 <= j + 1
      BY <3>1 DEF Queued
    <3> QED
      BY <3>1, <3>2
  <2> QED
    BY <2>1, <2>2, <2>3 DEF Queued, Tells, First
<1>5. Tallied(u, m)'
  <2>1. ASSUME \A e \in pending' : ~Counts(e, m), NEW i \in DOMAIN inbox'[u], Counts(inbox'[u][i], m),
               \A j \in DOMAIN inbox'[u] : Counts(inbox'[u][j], m) => j <= i
        PROVE  inbox'[u][i].n = Count(m)'
    <3>1. \A e \in pending : ~Counts(e, m)
      BY <1>3, <2>1
    <3>2. ASSUME NEW j \in DOMAIN inbox[u], Counts(inbox[u][j], m) PROVE j <= i + 1
      <4>1. j \in Nat /\ i \in Nat
        BY <1>1, <1>2
      <4>2. CASE j # 1
        <5>1. j - 1 \in DOMAIN inbox'[u] /\ inbox'[u][j - 1] = inbox[u][j]
          BY <1>2, <4>2
        <5>2. j - 1 <= i
          BY <2>1, <3>2, <5>1
        <5> QED
          BY <4>1, <5>2
      <4> QED
        BY <4>1, <4>2
    <3>3. inbox[u][i + 1].n = Count(m)
      BY <1>1, <2>1, <3>1, <3>2 DEF Tallied
    <3> QED
      BY <1>1, <3>3 DEF SameRow
  <2>2. ASSUME \A e \in pending' : ~Own(u, e, m), NEW i \in DOMAIN inbox'[u],
               \A j \in DOMAIN inbox'[u] : Own(u, inbox'[u][j], m) => j <= i
        PROVE  /\ Own(u, inbox'[u][i], m) => (inbox'[u][i].on <=> Reacted(m, u)')
               /\ Counts(inbox'[u][i], m) /\ inbox'[u][i].n = 0 => ~Reacted(m, u)'
    <3>1. \A e \in pending : ~Own(u, e, m)
      BY <1>3, <2>2, KindsAre
    <3>2. ASSUME NEW j \in DOMAIN inbox[u], Own(u, inbox[u][j], m) PROVE j <= i + 1
      <4>1. j \in Nat /\ i \in Nat
        BY <1>1, <1>2
      <4>2. CASE j # 1
        <5>1. j - 1 \in DOMAIN inbox'[u] /\ inbox'[u][j - 1] = inbox[u][j]
          BY <1>2, <4>2
        <5>2. j - 1 <= i
          BY <2>2, <3>2, <5>1
        <5> QED
          BY <4>1, <5>2
      <4> QED
        BY <4>1, <4>2
    <3>3. i + 1 \in DOMAIN inbox[u] /\ inbox'[u][i] = inbox[u][i + 1]
      BY <1>1
    <3>4. /\ Own(u, inbox[u][i + 1], m) => (inbox[u][i + 1].on <=> Reacted(m, u))
          /\ Counts(inbox[u][i + 1], m) /\ inbox[u][i + 1].n = 0 => ~Reacted(m, u)
      BY <3>1, <3>2, <3>3 DEF Tallied
    <3> QED
      BY <3>3, <3>4 DEF SameRow
  <2> QED
    BY <2>1, <2>2 DEF Tallied, Counts, Own
<1> QED
  BY <1>4, <1>5
-------------------------------------------------------------------------------
(* Events in order, step by step *)

Orderly(m) == Current(m) /\ \A c \in Clients : Queued(c, m) /\ Tallied(c, m)
Heeding    == \A c \in Clients : \A m \in Messages : Heeds(c, m)

LEMMA OrderIs == InOrder <=> Heeding /\ \A m \in Messages \ tangled : Orderly(m)
  BY DEF InOrder, Heeding, Orderly

LEMMA OrderSame ==
  ASSUME FTypes, NEW m, SameRow(m), SamePending(m), Orderly(m),
         \A c \in Clients : \A a \in answers'[c] : a \in answers[c] \/ Answers(c, m, a),
         \A c \in Clients : \/ inbox'[c] = inbox[c]
                            \/ inbox[c] # <<>> /\ inbox' = [inbox EXCEPT ![c] = Tail(@)]
                            \/ inbox'[c] = <<>>
  PROVE  Orderly(m)'
<1>1. Underway(m) /\ \A c \in Clients : \A a \in answers[c] : Answers(c, m, a)
  BY CurrentIs DEF Orderly
<1>2. Underway(m)'
  BY <1>1, UnderwaySame
<1>3. \A c \in Clients : \A a \in answers'[c] : Answers(c, m, a)'
  BY <1>1, AnswersSame
<1>4. Current(m)'
  BY <1>2, <1>3 DEF Current, Underway, Answers
<1>5. ASSUME NEW c \in Clients PROVE Queued(c, m)' /\ Tallied(c, m)'
  <2>1. Queued(c, m) /\ Tallied(c, m)
    BY DEF Orderly
  <2>2. CASE inbox'[c] = inbox[c]
    BY <2>1, <2>2, QueueSame
  <2>3. CASE inbox[c] # <<>> /\ inbox' = [inbox EXCEPT ![c] = Tail(@)]
    BY <2>1, <2>3, QueueTaken
  <2>4. CASE inbox'[c] = <<>>
    BY <2>4 DEF Queued, Tallied
  <2> QED
    BY <2>2, <2>3, <2>4
<1> QED
  BY <1>4, <1>5 DEF Orderly

\* An event of something else is announced.
LEMMA QueueOther ==
  ASSUME FTypes, NEW e \in pending, Announce(e), NEW m, ~Of(e, m), NEW c \in Clients, SameRow(m),
         Queued(c, m), Tallied(c, m)
  PROVE  Queued(c, m)' /\ Tallied(c, m)'
<1>1. ~Tells(e, m) /\ ~Counts(e, m) /\ ~First(e, m) /\ ~Own(c, e, m)
  BY KindsAre
<1>2. SamePending(m)
  BY DEF SamePending, Announce
<1>3. CASE ~Hears(c, e)
  <2>1. inbox'[c] = inbox[c]
    BY <1>3 DEF Announce
  <2> QED
    BY <1>2, <2>1, QueueSame
<1>4. CASE Hears(c, e)
  <2>1. /\ DOMAIN inbox'[c] = DOMAIN inbox[c] \cup {Len(inbox[c]) + 1}
        /\ \A i \in DOMAIN inbox[c] : inbox'[c][i] = inbox[c][i]
        /\ inbox'[c][Len(inbox[c]) + 1] = e
    BY <1>4, AnnounceIs
  <2>2. /\ \A i \in DOMAIN inbox'[c] : Tells(inbox'[c][i], m) \/ Counts(inbox'[c][i], m) =>
                                         i \in DOMAIN inbox[c] /\ inbox'[c][i] = inbox[c][i]
        /\ \A i \in DOMAIN inbox[c] : i \in DOMAIN inbox'[c] /\ inbox'[c][i] = inbox[c][i]
    BY <1>1, <2>1
  <2>3. /\ \A f \in pending : Tells(f, m) \/ Counts(f, m) => f \in pending'
        /\ \A f \in pending' : f \in pending
    BY <1>1 DEF Announce
  <2>4. Queued(c, m)'
    <3>1. (\A f \in pending' : ~Tells(f, m)) => \A f \in pending : ~Tells(f, m)
      BY <2>3
    <3>2. \A i \in DOMAIN inbox'[c] : First(inbox'[c][i], m) => i \in DOMAIN inbox[c] /\ inbox'[c][i] = inbox[c][i]
      BY <2>2, KindsAre
    <3> QED
      BY <2>2, <2>3, <3>1, <3>2 DEF Queued, SameRow, Tells, First
  <2>5. Tallied(c, m)'
    <3>1. (\A f \in pending' : ~Counts(f, m)) => \A f \in pending : ~Counts(f, m)
      BY <2>3
    <3>2. (\A f \in pending' : ~Own(c, f, m)) => \A f \in pending : ~Own(c, f, m)
      BY <2>3, KindsAre
    <3>3. \A i \in DOMAIN inbox'[c] : Own(c, inbox'[c][i], m) => i \in DOMAIN inbox[c] /\ inbox'[c][i] = inbox[c][i]
      BY <2>2, KindsAre
    <3> QED
      BY <2>2, <3>1, <3>2, <3>3 DEF Tallied, SameRow, Counts, Own
  <2> QED
    BY <2>4, <2>5
<1> QED
  BY <1>3, <1>4

LEMMA CountZero == ASSUME NEW m, Count(m) = 0, NEW u \in Users PROVE ~Reacted(m, u)
<1>1. IsFiniteSet({v \in Users : <<m, v>> \in reacts})
  BY FeedAssumption, FS_Subset
<1>2. {v \in Users : <<m, v>> \in reacts} = {}
  BY <1>1, FS_EmptySet DEF Count
<1> QED
  BY <1>2 DEF Reacted

\* The event of the message is announced: it was the only one.
LEMMA OrderAnnounced ==
  ASSUME FTypes, Heeding, NEW e \in pending, Announce(e), NEW m \in Messages, Of(e, m), Orderly(m)
  PROVE  Orderly(m)'
<1>0. UNCHANGED <<scope, ver, reacts, rooms, online>> /\ pending' = pending \ {e} /\ e.t # "written" /\ e \in Event
  BY DEF Announce, FTypes
<1>1. Underway(m) /\ \A c \in Clients : \A a \in answers[c] : Answers(c, m, a)
  BY CurrentIs DEF Orderly
<1>2. SameRow(m)
  BY <1>0, RowSame
<1>3. \A f \in pending : Of(f, m) => f = e
  BY <1>1 DEF Underway
<1>4. \A f \in pending' : ~Of(f, m) /\ ~Tells(f, m) /\ ~Counts(f, m) /\ ~First(f, m)
  BY <1>0, <1>3, KindsAre
<1>5. /\ Tells(e, m) => e.v = ver[m]
      /\ Counts(e, m) => e.t = "message.reaction" /\ e.n = Count(m) /\ (e.on <=> Reacted(m, e.by))
  BY <1>0, <1>1 DEF Underway, Counts, MarkKinds
<1>6. Current(m)'
  <2>1. e.by \in Clients => Answers(e.by, m, e)
    BY <1>0, <1>5, EventsAre DEF Answers
  <2>2. \A c \in Clients : \A a \in answers'[c] : a \in answers[c] \/ (a = e /\ c = e.by)
    BY DEF Announce, FTypes
  <2>3. \A c \in Clients : \A a \in answers'[c] : Answers(c, m, a)
    BY <1>1, <2>1, <2>2
  <2>4. \A c \in Clients : \A a \in answers'[c] : Answers(c, m, a)'
    BY <1>2, <2>3, AnswersSame
  <2> QED
    BY <1>4, <2>4 DEF Current, Answers, Of, Tells, Counts
<1>7. ASSUME NEW c \in Clients PROVE Queued(c, m)' /\ Tallied(c, m)'
  <2>0. Queued(c, m) /\ Tallied(c, m) /\ Heeds(c, m)
    BY DEF Orderly, Heeding
  <2>1. Tells(e, m) \/ Counts(e, m)
    BY KindsAre
  <2>2. \A f \in pending : Of(f, m) \/ Tells(f, m) \/ Counts(f, m) => f = e
    BY <1>3, KindsAre
  <2>3. CASE ~Hears(c, e)
    <3>1. inbox'[c] = inbox[c]
      BY <2>3 DEF Announce
    <3>2. CASE e.t = "forwarded"
      <4>1. First(e, m) /\ Tells(e, m) /\ ~Counts(e, m)
        BY <3>2, KindsAre DEF First, Of
      <4>2. \A i \in DOMAIN inbox[c] : ~Tells(inbox[c][i], m) /\ ~First(inbox[c][i], m)
        BY <2>0, <4>1, KindsAre DEF Queued
      <4>3. Queued(c, m)'
        BY <1>4, <3>1, <4>2 DEF Queued, Tells, First
      <4>4. Tallied(c, m)'
        <5>1. \A f \in pending : ~Counts(f, m) /\ ~Own(c, f, m)
          BY <2>2, <4>1, KindsAre
        <5> QED
          BY <1>2, <1>4, <2>0, <3>1, <5>1 DEF Tallied, SameRow, Counts, Own
      <4> QED
        BY <4>3, <4>4
    <3>3. CASE e.t # "forwarded"
      <4>1. e.t # "channel.created" /\ e.m = m
        BY <3>3 DEF Of, AboutKinds, TextKinds, MarkKinds
      <4>2. ~(c \in online /\ Home(m) \in rooms[c])
        BY <2>3, <3>3, <4>1 DEF Hears
      <4>3. \A i \in DOMAIN inbox[c] : /\ ~Tells(inbox[c][i], m) /\ ~First(inbox[c][i], m)
                                       /\ ~Counts(inbox[c][i], m) /\ ~Own(c, inbox[c][i], m)
        BY <2>0, <4>2, KindsAre DEF Heeds
      <4> QED
        BY <3>1, <4>3 DEF Queued, Tallied, Tells, First, Counts, Own
    <3> QED
      BY <3>2, <3>3
  <2>4. CASE Hears(c, e)
    <3> DEFINE n == Len(inbox[c]) + 1
    <3>1. /\ DOMAIN inbox'[c] = DOMAIN inbox[c] \cup {n}
          /\ \A i \in DOMAIN inbox[c] : inbox'[c][i] = inbox[c][i] /\ i < n
          /\ inbox'[c][n] = e
      BY <2>4, AnnounceIs
    <3>2. \A i \in DOMAIN inbox[c] : i \in Nat
      <4>1. inbox[c] \in Seq(Event)
        BY DEF FTypes
      <4> QED
        BY <4>1
    <3>3. n \in Nat
      <4>1. inbox[c] \in Seq(Event)
        BY DEF FTypes
      <4> QED
        BY <4>1
    <3> HIDE DEF n
    <3>4. n \notin DOMAIN inbox[c]
      BY <3>1, <3>2, <3>3
    <3>5. Queued(c, m)'
      <4>1. ASSUME NEW i \in DOMAIN inbox'[c], Tells(inbox'[c][i], m),
                   \A j \in DOMAIN inbox'[c] : Tells(inbox'[c][j], m) => j <= i
            PROVE  inbox'[c][i].v = ver'[m]
        <5>1. CASE Tells(e, m)
          <6>1. n <= i
            BY <3>1, <4>1, <5>1
          <6>2. i = n
            BY <3>1, <3>2, <3>3, <6>1
          <6> QED
            BY <1>2, <1>5, <3>1, <5>1, <6>2 DEF SameRow
        <5>2. CASE ~Tells(e, m)
          <6>1. i \in DOMAIN inbox[c] /\ inbox'[c][i] = inbox[c][i]
            BY <3>1, <4>1, <5>2
          <6>2. \A j \in DOMAIN inbox[c] : Tells(inbox[c][j], m) => j <= i
            BY <3>1, <4>1
          <6>3. \A f \in pending : ~Tells(f, m)
            BY <2>2, <5>2
          <6>4. inbox[c][i].v = ver[m]
            BY <2>0, <4>1, <6>1, <6>2, <6>3 DEF Queued
          <6> QED
            BY <1>2, <6>1, <6>4 DEF SameRow
        <5> QED
          BY <5>1, <5>2
      <4>2. ASSUME NEW i \in DOMAIN inbox'[c], NEW j \in DOMAIN inbox'[c], First(inbox'[c][i], m), Tells(inbox'[c][j], m)
            PROVE  i <= j
        <5>1. CASE i = n
          <6>1. First(e, m)
            BY <3>1, <4>2, <5>1
          <6>2. j = n
            BY <2>0, <3>1, <4>2, <6>1 DEF Queued
          <6> QED
            BY <3>3, <5>1, <6>2
        <5>2. CASE i # n
          <6>1. i \in DOMAIN inbox[c] /\ inbox'[c][i] = inbox[c][i] /\ i < n /\ i \in Nat
            BY <3>1, <3>2, <5>2
          <6>2. CASE j = n
            BY <3>3, <6>1, <6>2
          <6>3. CASE j # n
            <7>1. j \in DOMAIN inbox[c] /\ inbox'[c][j] = inbox[c][j]
              BY <3>1, <6>3
            <7> QED
              BY <2>0, <4>2, <6>1, <7>1 DEF Queued
          <6> QED
            BY <6>2, <6>3
        <5> QED
          BY <5>1, <5>2
      <4> QED
        BY <1>4, <4>1, <4>2 DEF Queued, Tells, First
    <3>6. Tallied(c, m)'
      <4>1. ASSUME NEW i \in DOMAIN inbox'[c], Counts(inbox'[c][i], m),
                   \A j \in DOMAIN inbox'[c] : Counts(inbox'[c][j], m) => j <= i
            PROVE  inbox'[c][i].n = Count(m)'
        <5>1. CASE Counts(e, m)
          <6>1. n <= i
            BY <3>1, <4>1, <5>1
          <6>2. i = n
            BY <3>1, <3>2, <3>3, <6>1
          <6> QED
            BY <1>2, <1>5, <3>1, <5>1, <6>2 DEF SameRow
        <5>2. CASE ~Counts(e, m)
          <6>1. i \in DOMAIN inbox[c] /\ inbox'[c][i] = inbox[c][i]
            BY <3>1, <4>1, <5>2
          <6>2. \A j \in DOMAIN inbox[c] : Counts(inbox[c][j], m) => j <= i
            BY <3>1, <4>1
          <6>3. \A f \in pending : ~Counts(f, m)
            BY <2>2, <5>2
          <6>4. inbox[c][i].n = Count(m)
            BY <2>0, <4>1, <6>1, <6>2, <6>3 DEF Tallied
          <6> QED
            BY <1>2, <6>1, <6>4 DEF SameRow
        <5> QED
          BY <5>1, <5>2
      <4>2. ASSUME NEW i \in DOMAIN inbox'[c], \A j \in DOMAIN inbox'[c] : Own(c, inbox'[c][j], m) => j <= i
            PROVE  /\ Own(c, inbox'[c][i], m) => (inbox'[c][i].on <=> Reacted(m, c)')
                   /\ Counts(inbox'[c][i], m) /\ inbox'[c][i].n = 0 => ~Reacted(m, c)'
        <5>1. CASE i = n
          <6>1. Own(c, e, m) => Counts(e, m) /\ e.by = c
            BY DEF Own
          <6>2. Counts(e, m) /\ e.n = 0 => ~Reacted(m, c)
            BY <1>5, CountZero, WhoIs
          <6> QED
            BY <1>2, <1>5, <3>1, <5>1, <6>1, <6>2 DEF SameRow
        <5>2. CASE i # n
          <6>1. i \in DOMAIN inbox[c] /\ inbox'[c][i] = inbox[c][i] /\ i < n /\ i \in Nat
            BY <3>1, <3>2, <5>2
          <6>2. ~Own(c, e, m)
            BY <3>1, <3>3, <4>2, <6>1
          <6>3. \A f \in pending : ~Own(c, f, m)
            BY <2>2, <6>2, KindsAre
          <6>4. \A j \in DOMAIN inbox[c] : Own(c, inbox[c][j], m) => j <= i
            BY <3>1, <4>2
          <6>5. /\ Own(c, inbox[c][i], m) => (inbox[c][i].on <=> Reacted(m, c))
                /\ Counts(inbox[c][i], m) /\ inbox[c][i].n = 0 => ~Reacted(m, c)
            BY <2>0, <6>1, <6>3, <6>4 DEF Tallied
          <6> QED
            BY <1>2, <6>1, <6>5 DEF SameRow
        <5> QED
          BY <5>1, <5>2
      <4> QED
        BY <4>1, <4>2 DEF Tallied, Counts, Own
    <3> QED
      BY <3>5, <3>6
  <2> QED
    BY <2>3, <2>4
<1> QED
  BY <1>6, <1>7 DEF Orderly

LEMMA OrderCounted ==
  ASSUME FTypes, NEW e \in pending, CountReaction(e), NEW m \in Messages, Of(e, m), Orderly(m)
  PROVE  Orderly(m)'
<1> DEFINE r == Reaction("message.reaction", e.m, e.by, e.on, Count(e.m))
<1>0. /\ UNCHANGED <<scope, ver, reacts, inbox, answers>> /\ pending' = (pending \ {e}) \cup {r}
      /\ e.t = "written" /\ e.m = m
  BY DEF CountReaction, Of
<1>1. Underway(m) /\ \A c \in Clients : \A a \in answers[c] : Answers(c, m, a)
  BY CurrentIs DEF Orderly
<1>2. SameRow(m)
  BY <1>0, RowSame
<1>3. \A f \in pending : Of(f, m) => f = e
  BY <1>1 DEF Underway
<1>4. /\ r.t = "message.reaction" /\ r.m = m /\ r.by = e.by /\ r.on = e.on /\ r.n = Count(m)
      /\ Counts(r, m) /\ Counts(e, m) /\ ~Tells(e, m) /\ ~Tells(r, m)
  BY <1>0 DEF Reaction, Counts, MarkKinds, Tells, TextKinds
<1> HIDE DEF r
<1>5. \A f \in pending' : f = r \/ (~Of(f, m) /\ ~Tells(f, m) /\ ~Counts(f, m) /\ ~First(f, m))
  BY <1>0, <1>3, KindsAre
<1>6. e.on <=> Reacted(m, e.by)
  BY <1>1, <1>4 DEF Underway
<1>7. Current(m)'
  <2>1. Underway(m)'
    BY <1>2, <1>4, <1>5, <1>6 DEF Underway, SameRow, Of, Tells, Counts
  <2>2. \A c \in Clients : \A a \in answers'[c] : Answers(c, m, a)'
    BY <1>0, <1>1, <1>2, AnswersSame
  <2> QED
    BY <2>1, <2>2 DEF Current, Underway, Answers
<1>8. ASSUME NEW c \in Clients PROVE Queued(c, m)' /\ Tallied(c, m)'
  <2>0. Queued(c, m) /\ Tallied(c, m) /\ inbox'[c] = inbox[c]
    BY <1>0 DEF Orderly
  <2>1. \A f \in pending : ~Tells(f, m)
    BY <1>3, <1>4, KindsAre
  <2>2. \A f \in pending' : ~First(f, m)
    BY <1>4, <1>5, KindsAre
  <2>3. Queued(c, m)'
    BY <1>2, <2>0, <2>1, <2>2 DEF Queued, SameRow, Tells, First
  <2>4. r \in pending'
    BY <1>0
  <2>5. Tallied(c, m)'
    <3>1. (\A f \in pending' : ~Own(c, f, m)) => \A f \in pending : ~Own(c, f, m)
      BY <1>3, <1>4, <2>4, KindsAre DEF Own
    <3>2. ~\A f \in pending' : ~Counts(f, m)
      BY <1>4, <2>4
    <3> QED
      BY <1>2, <2>0, <3>1, <3>2 DEF Tallied, SameRow, Counts, Own
  <2> QED
    BY <2>3, <2>5
<1> QED
  BY <1>7, <1>8 DEF Orderly

\* Before a message is sent nothing is told of it.
LEMMA Unheard ==
  ASSUME CTypes, FeedGood, NEW m \in Messages, m \notin Sent
  PROVE  /\ \A e \in pending : ~Of(e, m)
         /\ \A c \in Clients : \A i \in DOMAIN inbox[c] : ~Of(inbox[c][i], m)
         /\ \A c \in Clients : \A a \in answers[c] : ~Of(a, m) /\ (a.t = "messages" => m \notin DOMAIN a.rows)
<1>1. ver[m] = 0
  BY VerIs DEF CTypes
<1>2. \A e \in Event : Good(e) => ~Of(e, m)
  BY <1>1, VersOf, MarkOf, WhoIs DEF Good, Of, AboutKinds, CTypes
<1>3. \A a : IsRead(a) => a.t \notin AboutKinds
  BY ReadsAre DEF AboutKinds, TextKinds, MarkKinds
<1>4. ASSUME NEW c \in Clients, NEW a \in answers[c], a.t = "messages", m \in DOMAIN a.rows PROVE FALSE
  <2>1. IsRead(a)
    BY <1>4, AnswerIs DEF CTypes
  <2>2. a.rows[m] \in 1 .. Gone /\ a.rows[m] <= ver[m]
    BY <1>4, <2>1, ReadsAre DEF FeedGood, GoodRead
  <2> QED
    BY <1>1, <2>2, WhoIs
<1>5. \A c \in Clients : \A i \in DOMAIN inbox[c] : ~Of(inbox[c][i], m)
  BY <1>2, InboxGood DEF CTypes
<1>6. \A e \in pending : ~Of(e, m)
  BY <1>2 DEF FeedGood, CTypes, FTypes
<1>7. \A c \in Clients : \A a \in answers[c] : ~Of(a, m)
  BY <1>2, <1>3 DEF FeedGood, CTypes, FTypes, Of
<1> QED
  BY <1>4, <1>5, <1>6, <1>7

LEMMA OrderSent ==
  ASSUME CTypes, FeedGood, NEW m \in Messages, Send(m) \/ Forward(m), Orderly(m)
  PROVE  Orderly(m)'
<1>0. m \notin Sent /\ UNCHANGED <<scope, reacts, inbox, answers>> /\ ver'[m] = 1
  BY VerIs DEF Send, Forward, CTypes, FTypes
<1>1. PICK e : /\ pending' = pending \cup {e} /\ e.t \in {"message.created", "forwarded"}
               /\ e.m = m /\ e.v = ver'[m]
  <2>1. CASE Send(m)
    <3> DEFINE e == Note("message.created", m, Author(m))
    <3>1. pending' = pending \cup {e}
      BY <2>1 DEF Send
    <3>2. e.t = "message.created" /\ e.m = m /\ e.v = ver'[m]
      BY DEF Note
    <3> QED
      BY <3>1, <3>2
  <2>2. CASE Forward(m)
    <3> DEFINE e == Note("forwarded", m, Author(m))
    <3>1. pending' = pending \cup {e}
      BY <2>2 DEF Forward
    <3>2. e.t = "forwarded" /\ e.m = m /\ e.v = ver'[m]
      BY DEF Note
    <3> QED
      BY <3>1, <3>2
  <2> QED
    BY <2>1, <2>2
<1>2. \A f \in pending' : f = e \/ (~Of(f, m) /\ ~Tells(f, m) /\ ~Counts(f, m))
  BY <1>0, <1>1, Unheard, KindsAre
<1>3. Tells(e, m) /\ ~Counts(e, m)
  BY <1>1 DEF Tells, Counts, TextKinds, MarkKinds
<1>4. \A c \in Clients : \A i \in DOMAIN inbox[c] : ~Tells(inbox[c][i], m) /\ ~Counts(inbox[c][i], m)
  BY <1>0, Unheard, KindsAre
<1>5. Count(m)' = Count(m) /\ \A u : Reacted(m, u)' = Reacted(m, u)
  BY <1>0 DEF Count, Reacted
<1>6. \A c \in Clients : \A a \in answers[c] :
        /\ ~Tells(a, m) /\ ~Counts(a, m) /\ (a.t = "messages" => m \notin DOMAIN a.rows)
        /\ a.t = "reactions" /\ m \in DOMAIN a.rows => a.rows[m].n = Count(m) /\ (a.rows[m].on <=> Reacted(m, Web))
  BY <1>0, Unheard, KindsAre DEF Orderly, Current
<1>7. Current(m)'
  BY <1>0, <1>1, <1>2, <1>3, <1>5, <1>6 DEF Current, Of, Tells, Counts
<1>8. ASSUME NEW c \in Clients PROVE Queued(c, m)' /\ Tallied(c, m)'
  BY <1>0, <1>4, KindsAre DEF Queued, Tallied, Tells, Counts, First, Own
<1> QED
  BY <1>7, <1>8 DEF Orderly

\* A message that does not get tangled has nothing under way.
LEMMA Untangled ==
  ASSUME CTypes, NEW m \in Messages, Tangles(m), m \notin tangled'
  PROVE  /\ m \notin tangled
         /\ \A e \in pending : ~Of(e, m) /\ ~Tells(e, m) /\ ~Counts(e, m)
         /\ \A c \in Clients : \A a \in answers[c] : /\ ~Of(a, m) /\ ~Tells(a, m) /\ ~Counts(a, m)
                                                     /\ a.t \in {"messages", "reactions"} => m \notin DOMAIN a.rows
<1>1. ~InFlight(m) /\ m \notin tangled
  BY DEF Tangles
<1>2. \A e \in Event : e.t \in AboutKinds => "m" \in DOMAIN e
  BY DEF Event, Texts, Marks, Opens, AboutKinds, TextKinds, MarkKinds
<1>3. \A e \in Event : Of(e, m) => About(e, m)
  BY <1>2 DEF Of, About
<1>4. \A a : IsRead(a) => a.t \notin AboutKinds
  BY ReadsAre DEF AboutKinds, TextKinds, MarkKinds
<1>5. \A a : IsRead(a) /\ a.t \in {"messages", "reactions"} => "rows" \in DOMAIN a
  BY DEF IsRead
<1>6. \A e \in pending : ~Of(e, m)
  BY <1>1, <1>3 DEF InFlight, CTypes, FTypes
<1>7. \A c \in Clients : \A a \in answers[c] : ~Of(a, m)
  BY <1>1, <1>3, <1>4 DEF InFlight, CTypes, FTypes, Of
<1>8. \A c \in Clients : \A a \in answers[c] : a.t \in {"messages", "reactions"} => m \notin DOMAIN a.rows
  BY <1>1, <1>5, AnswerIs DEF InFlight, About, CTypes
<1> QED
  BY <1>1, <1>6, <1>7, <1>8, KindsAre

LEMMA OrderRewritten ==
  ASSUME CTypes, NEW m \in Messages, Edit(m) \/ Delete(m), m \notin tangled', Orderly(m)
  PROVE  Orderly(m)'
<1>0. UNCHANGED <<scope, reacts, inbox, answers>> /\ Tangles(m)
  BY DEF Edit, Delete
<1>1. PICK e : /\ pending' = pending \cup {e} /\ e.t \in {"message.updated", "message.deleted"}
               /\ e.m = m /\ e.v = ver'[m]
  <2>1. CASE Edit(m)
    <3> DEFINE e == Note("message.updated", m, Author(m))
    <3>1. pending' = pending \cup {e}
      BY <2>1 DEF Edit
    <3>2. e.t = "message.updated" /\ e.m = m /\ e.v = ver'[m]
      BY DEF Note
    <3> QED
      BY <3>1, <3>2
  <2>2. CASE Delete(m)
    <3> DEFINE e == Note("message.deleted", m, Author(m))
    <3>1. pending' = pending \cup {e}
      BY <2>2 DEF Delete
    <3>2. e.t = "message.deleted" /\ e.m = m /\ e.v = ver'[m]
      BY DEF Note
    <3> QED
      BY <3>1, <3>2
  <2> QED
    BY <2>1, <2>2
<1>2. Tells(e, m) /\ ~Counts(e, m) /\ ~First(e, m)
  BY <1>1 DEF Tells, Counts, TextKinds, MarkKinds, First
<1>3. \A f \in pending' : f = e \/ (~Of(f, m) /\ ~Tells(f, m) /\ ~Counts(f, m))
  BY <1>0, <1>1, Untangled
<1>4. Count(m)' = Count(m) /\ \A u : Reacted(m, u)' = Reacted(m, u)
  BY <1>0 DEF Count, Reacted
<1>5. Current(m)'
  BY <1>0, <1>1, <1>2, <1>3, Untangled DEF Current, Of, Tells, Counts
<1>6. ASSUME NEW c \in Clients PROVE Queued(c, m)' /\ Tallied(c, m)'
  <2>0. Queued(c, m) /\ Tallied(c, m) /\ inbox'[c] = inbox[c] /\ e \in pending'
    BY <1>0, <1>1 DEF Orderly
  <2>1. Queued(c, m)'
    <3>1. \A f \in pending' : ~First(f, m)
      BY <1>2, <1>3, KindsAre
    <3> QED
      BY <1>2, <2>0, <3>1 DEF Queued, Tells, First
  <2>2. Tallied(c, m)'
    <3>1. \A f \in pending : ~Counts(f, m) /\ ~Own(c, f, m)
      BY <1>0, Untangled, KindsAre
    <3> QED
      BY <1>4, <2>0, <3>1 DEF Tallied, Counts, Own
  <2> QED
    BY <2>1, <2>2
<1> QED
  BY <1>5, <1>6 DEF Orderly

LEMMA OrderReacted ==
  ASSUME CTypes, NEW m \in Messages, NEW u \in Users, NEW on \in BOOLEAN, React(m, u, on), m \notin tangled', Orderly(m)
  PROVE  Orderly(m)'
<1>0. UNCHANGED <<scope, ver, inbox, answers>> /\ Tangles(m)
  BY DEF React
<1>1. PICK e : /\ pending' = pending \cup {e} /\ e.t = "written" /\ e.m = m /\ e.by = u /\ e.on = on
  <2> DEFINE e == Reaction("written", m, u, on, 0)
  <2>1. pending' = pending \cup {e}
    BY DEF React
  <2>2. e.t = "written" /\ e.m = m /\ e.by = u /\ e.on = on
    BY DEF Reaction
  <2> QED
    BY <2>1, <2>2
<1>2. Counts(e, m) /\ ~Tells(e, m) /\ ~First(e, m)
  BY <1>1 DEF Tells, Counts, TextKinds, MarkKinds, First
<1>3. \A f \in pending' : f = e \/ (~Of(f, m) /\ ~Tells(f, m) /\ ~Counts(f, m))
  BY <1>0, <1>1, Untangled
<1>4. (Reacted(m, u)' <=> on) /\ \A v : v # u => (Reacted(m, v)' <=> Reacted(m, v))
  BY DEF Reacted, React
<1>5. Current(m)'
  <2>1. Underway(m)'
    BY <1>1, <1>2, <1>3, <1>4 DEF Underway, Of, Tells, Counts
  <2>2. \A c \in Clients : \A a \in answers'[c] : Answers(c, m, a)'
    BY <1>0, Untangled DEF Answers, Tells, Counts
  <2> QED
    BY <2>1, <2>2 DEF Current, Underway, Answers
<1>6. ASSUME NEW c \in Clients PROVE Queued(c, m)' /\ Tallied(c, m)'
  <2>0. Queued(c, m) /\ Tallied(c, m) /\ inbox'[c] = inbox[c] /\ e \in pending'
    BY <1>0, <1>1 DEF Orderly
  <2>1. Queued(c, m)'
    <3>1. \A f \in pending' : ~First(f, m)
      BY <1>2, <1>3, KindsAre
    <3>2. \A f \in pending : ~Tells(f, m)
      BY <1>0, Untangled
    <3> QED
      BY <1>0, <2>0, <3>1, <3>2 DEF Queued, Tells, First
  <2>2. Tallied(c, m)'
    <3>1. \A f \in pending : ~Counts(f, m) /\ ~Own(c, f, m)
      BY <1>0, Untangled, KindsAre
    <3>2. CASE c = u
      <4>1. Own(c, e, m)
        BY <1>1, <1>2, <3>2 DEF Own
      <4> QED
        BY <1>2, <2>0, <4>1 DEF Tallied, Counts, Own
    <3>3. CASE c # u
      BY <1>2, <1>4, <2>0, <3>1, <3>3 DEF Tallied, Counts, Own
    <3> QED
      BY <3>2, <3>3
  <2> QED
    BY <2>1, <2>2
<1> QED
  BY <1>5, <1>6 DEF Orderly

LEMMA HeedsStay ==
  ASSUME Heeding, UNCHANGED <<scope, rooms, online>>,
         \A c \in Clients : \A i \in DOMAIN inbox'[c] : \E j \in DOMAIN inbox[c] : inbox'[c][i] = inbox[c][j]
  PROVE  Heeding'
  BY DEF Heeding, Heeds, Of, Home

LEMMA HeedsTaken ==
  ASSUME FTypes, Heeding, NEW u \in Clients, inbox[u] # <<>>, inbox' = [inbox EXCEPT ![u] = Tail(@)],
         UNCHANGED <<scope, rooms, online>>
  PROVE  Heeding'
<1>1. ASSUME NEW c \in Clients, NEW i \in DOMAIN inbox'[c] PROVE \E j \in DOMAIN inbox[c] : inbox'[c][i] = inbox[c][j]
  BY <1>1, TakeIs DEF FTypes
<1> QED
  BY <1>1, HeedsStay

LEMMA HeedsServer ==
  ASSUME CTypes, Heeding, ServerStep
  PROVE  Heeding'
<1> USE DEF CTypes
<1>0. FTypes /\ scope' = scope
  BY ServerTypes DEF ServerStep, Writes, Send, Edit, Delete, Forward, React, CountReaction, CreateChannel, Announce, Leave, Join
<1>1. CASE \E m \in Messages : Writes(m)
  BY <1>1, HeedsStay DEF Writes, Send, Edit, Delete, Forward
<1>2. CASE \E m \in Messages : \E u \in Users, on \in BOOLEAN : React(m, u, on)
  BY <1>2, HeedsStay DEF React
<1>3. CASE \E e \in pending : CountReaction(e)
  BY <1>3, HeedsStay DEF CountReaction
<1>4. CASE \E c \in Channels : \E u \in Users : CreateChannel(c, u)
  BY <1>4, HeedsStay DEF CreateChannel
<1>5. ASSUME NEW e \in pending, Announce(e) PROVE Heeding'
  <2> SUFFICES ASSUME NEW c \in Clients, NEW m \in Messages, NEW i \in DOMAIN inbox'[c], Of(inbox'[c][i], m)
               PROVE  c \in online /\ Home(m) \in rooms[c]
    BY <1>5 DEF Heeding, Heeds, Of, Home, Announce
  <2>1. CASE i \in DOMAIN inbox[c]
    <3>1. inbox'[c][i] = inbox[c][i]
      BY <1>5, <2>1, AnnounceIs DEF Announce
    <3> QED
      BY <2>1, <3>1 DEF Heeding, Heeds
  <2>2. CASE i \notin DOMAIN inbox[c]
    <3>1. Hears(c, e) /\ inbox'[c][i] = e
      BY <1>5, <2>2, AnnounceIs DEF Announce
    <3>2. Of(e, m) /\ e.m = m /\ e.t # "channel.created"
      BY <3>1, KindsAre DEF Of
    <3> QED
      BY <3>1, <3>2 DEF Hears
  <2> QED
    BY <2>1, <2>2
<1>6. ASSUME NEW c \in Clients, Leave(c) PROVE Heeding'
  <2> SUFFICES ASSUME NEW d \in Clients, NEW m \in Messages, NEW i \in DOMAIN inbox'[d], Of(inbox'[d][i], m)
               PROVE  d \in online' /\ Home(m) \in rooms'[d]
    BY <1>0 DEF Heeding, Heeds, Of, Home
  <2>1. d # c
    BY <1>0, <1>6 DEF Leave, FTypes
  <2>2. inbox'[d] = inbox[d] /\ rooms'[d] = rooms[d] /\ (d \in online' <=> d \in online)
    BY <1>0, <1>6, <2>1 DEF Leave, FTypes
  <2> QED
    BY <2>2 DEF Heeding, Heeds
<1>7. ASSUME NEW c \in Clients, Join(c) PROVE Heeding'
  <2> SUFFICES ASSUME NEW d \in Clients, NEW m \in Messages, NEW i \in DOMAIN inbox'[d], Of(inbox'[d][i], m)
               PROVE  d \in online' /\ Home(m) \in rooms'[d]
    BY <1>0 DEF Heeding, Heeds, Of, Home
  <2>1. inbox' = inbox /\ c \notin online
    BY <1>7 DEF Join
  <2>2. d \in online /\ Home(m) \in rooms[d]
    BY <2>1 DEF Heeding, Heeds
  <2>3. d # c /\ rooms'[d] = rooms[d] /\ d \in online'
    BY <1>0, <1>7, <2>1, <2>2 DEF Join, FTypes
  <2> QED
    BY <2>2, <2>3
<1> QED
  BY <1>1, <1>2, <1>3, <1>4, <1>5, <1>6, <1>7 DEF ServerStep

LEMMA OrderOf ==
  ASSUME CTypes, FeedGood, InOrder, ServerStep, NEW m \in Messages, m \notin tangled'
  PROVE  Orderly(m)'
<1>0. FTypes /\ FTypes' /\ Heeding /\ \A x \in Messages \ tangled : Orderly(x)
  BY ServerTypes, OrderIs DEF CTypes
<1>1. tangled \subseteq tangled'
  BY DEF ServerStep, Writes, Send, Edit, Delete, Forward, React, CountReaction, CreateChannel, Announce, Leave, Join, Tangles
<1>2. Orderly(m) /\ m \notin tangled
  BY <1>0, <1>1
<1>3. ASSUME NEW x \in Messages, Writes(x) PROVE Orderly(m)'
  <2>1. CASE m = x
    BY <1>2, <1>3, <2>1, OrderSent, OrderRewritten DEF Writes
  <2>2. CASE m # x
    <3>1. UNCHANGED <<reacts, inbox, answers>> /\ ver'[m] = ver[m]
      BY <1>3, <2>2, WriteGood DEF Writes, Send, Edit, Delete, Forward
    <3>2. \E e : pending' = pending \cup {e} /\ e.m = x
      <4> DEFINE e(t) == Note(t, x, Author(x))
      <4>1. \A t : e(t).m = x
        BY DEF Note
      <4>2. \E t : pending' = pending \cup {e(t)}
        BY <1>3 DEF Writes, Send, Edit, Delete, Forward
      <4> QED
        BY <4>1, <4>2
    <3>3. SameRow(m) /\ SamePending(m)
      BY <2>2, <3>1, <3>2 DEF SameRow, SamePending, Count, Reacted, Of
    <3> QED
      BY <1>0, <1>2, <3>1, <3>3, OrderSame
  <2> QED
    BY <2>1, <2>2
<1>4. ASSUME NEW x \in Messages, NEW u \in Users, NEW on \in BOOLEAN, React(x, u, on) PROVE Orderly(m)'
  <2>1. CASE m = x
    BY <1>2, <1>4, <2>1, OrderReacted
  <2>2. CASE m # x
    <3>1. UNCHANGED <<ver, inbox, answers>> /\ \A v : <<m, v>> \in reacts' <=> <<m, v>> \in reacts
      BY <1>4, <2>2 DEF React
    <3>2. Reaction("written", x, u, on, 0).m = x
      BY DEF Reaction
    <3>3. SameRow(m)
      <4>1. {v \in Users : <<m, v>> \in reacts'} = {v \in Users : <<m, v>> \in reacts}
        BY <3>1
      <4>2. Count(m)' = Count(m)
        BY <4>1 DEF Count
      <4>3. \A v : Reacted(m, v)' = Reacted(m, v)
        BY <3>1 DEF Reacted
      <4> QED
        BY <3>1, <4>2, <4>3 DEF SameRow
    <3>4. SamePending(m)
      BY <1>4, <2>2, <3>2 DEF SamePending, Of, React
    <3> QED
      BY <1>0, <1>2, <3>1, <3>3, <3>4, OrderSame
  <2> QED
    BY <2>1, <2>2
<1>5. ASSUME NEW e \in pending, CountReaction(e) PROVE Orderly(m)'
  <2>1. CASE Of(e, m)
    BY <1>0, <1>2, <1>5, <2>1, OrderCounted
  <2>2. CASE ~Of(e, m)
    <3>1. UNCHANGED <<ver, reacts, inbox, answers>> /\ e.m # m
      BY <1>5, <2>2 DEF CountReaction, Of, AboutKinds, MarkKinds
    <3>2. Reaction("message.reaction", e.m, e.by, e.on, Count(e.m)).m = e.m
      BY DEF Reaction
    <3>3. SamePending(m)
      BY <1>5, <3>1, <3>2 DEF SamePending, Of, CountReaction
    <3>4. SameRow(m)
      BY <3>1, RowSame
    <3> QED
      BY <1>0, <1>2, <3>1, <3>3, <3>4, OrderSame
  <2> QED
    BY <2>1, <2>2
<1>6. ASSUME NEW e \in pending, Announce(e) PROVE Orderly(m)'
  <2>1. CASE Of(e, m)
    BY <1>0, <1>2, <1>6, <2>1, OrderAnnounced
  <2>2. CASE ~Of(e, m)
    <3>1. UNCHANGED <<ver, reacts>>
      BY <1>6 DEF Announce
    <3>2. SameRow(m)
      BY <3>1, RowSame
    <3>3. SamePending(m)
      BY <1>6, <2>2 DEF SamePending, Announce
    <3>4. Underway(m) /\ \A c \in Clients : \A a \in answers[c] : Answers(c, m, a)
      BY <1>2, CurrentIs DEF Orderly
    <3>5. \A c : Answers(c, m, e)
      <4>1. e \in Event /\ ~Tells(e, m) /\ ~Counts(e, m)
        BY <1>0, <2>2, KindsAre DEF FTypes
      <4>2. e.t # "messages" /\ e.t # "reactions"
        BY <4>1, EventsAre
      <4> QED
        BY <4>1, <4>2 DEF Answers
    <3>6. \A c \in Clients : \A a \in answers'[c] : a \in answers[c] \/ a = e
      BY <1>0, <1>6 DEF Announce, FTypes
    <3>7. \A c \in Clients : \A a \in answers'[c] : Answers(c, m, a)'
      BY <3>2, <3>4, <3>5, <3>6, AnswersSame
    <3>8. Underway(m)'
      BY <3>2, <3>3, <3>4, UnderwaySame
    <3>9. \A c \in Clients : Queued(c, m)' /\ Tallied(c, m)'
      BY <1>0, <1>2, <1>6, <2>2, <3>2, QueueOther DEF Orderly
    <3> QED
      BY <3>7, <3>8, <3>9 DEF Orderly, Current, Underway, Answers
  <2> QED
    BY <2>1, <2>2
<1>7. ASSUME NEW c \in Channels, NEW u \in Users, CreateChannel(c, u) PROVE Orderly(m)'
  <2>1. UNCHANGED <<ver, reacts, inbox, answers>>
    BY <1>7 DEF CreateChannel
  <2>2. NewChannel(c, u).t \notin AboutKinds
    BY DEF NewChannel, AboutKinds, TextKinds, MarkKinds
  <2>3. SamePending(m)
    BY <1>7, <2>2 DEF SamePending, Of, CreateChannel
  <2> QED
    BY <1>0, <1>2, <2>1, <2>3, RowSame, OrderSame
<1>8. ASSUME NEW c \in Clients, Leave(c) \/ Join(c) PROVE Orderly(m)'
  <2>1. UNCHANGED <<ver, reacts, pending, answers>>
    BY <1>8 DEF Leave, Join
  <2>2. \A d \in Clients : inbox'[d] = inbox[d] \/ inbox'[d] = <<>>
    BY <1>0, <1>8 DEF Leave, Join, FTypes
  <2>3. SamePending(m)
    BY <2>1 DEF SamePending
  <2> QED
    BY <1>0, <1>2, <2>1, <2>2, <2>3, RowSame, OrderSame
<1> QED
  BY <1>3, <1>4, <1>5, <1>6, <1>7, <1>8 DEF ServerStep

LEMMA OrderServer ==
  ASSUME CTypes, FeedGood, InOrder, ServerStep
  PROVE  InOrder'
<1>1. Heeding'
  BY HeedsServer, OrderIs
<1>2. \A m \in Messages : m \notin tangled' => Orderly(m)'
  BY OrderOf
<1> QED
  BY <1>1, <1>2 DEF InOrder, Heeding, Orderly

\* What a client does: it takes an event, or an answer, or is answered by the reads.
LEMMA OrderTaken ==
  ASSUME FTypes, InOrder, UNCHANGED <<scope, ver, reacts, rooms, online, tangled>>,
         \A e \in pending' : e \in pending \/ e.t = "channel.created", pending \subseteq pending',
         \A c \in Clients : \A a \in answers'[c] : a \in answers[c] \/ \A m \in Messages : Answers(c, m, a),
         inbox' = inbox \/ \E u \in Clients : inbox[u] # <<>> /\ inbox' = [inbox EXCEPT ![u] = Tail(@)]
  PROVE  InOrder'
<1>0. Heeding /\ \A m \in Messages \ tangled : Orderly(m)
  BY OrderIs
<1>1. Heeding'
  <2>1. CASE inbox' = inbox
    BY <1>0, <2>1, HeedsStay
  <2>2. CASE inbox' # inbox
    BY <1>0, <2>2, HeedsTaken
  <2> QED
    BY <2>1, <2>2
<1>2. \A c \in Clients : \/ inbox'[c] = inbox[c]
                         \/ inbox[c] # <<>> /\ inbox' = [inbox EXCEPT ![c] = Tail(@)]
  BY DEF FTypes
<1>3. ASSUME NEW m \in Messages, m \notin tangled PROVE Orderly(m)'
  <2>1. SamePending(m)
    BY DEF SamePending, Of, AboutKinds, TextKinds, MarkKinds
  <2> QED
    BY <1>0, <1>2, <1>3, <2>1, RowSame, OrderSame
<1> QED
  BY <1>1, <1>3 DEF InOrder, Heeding, Orderly

LEMMA ServesAnswer ==
  ASSUME FTypes
  PROVE  \A c, m : /\ Answers(c, m, [t |-> "channels", cs |-> chans])
                   /\ Answers(c, m, [t |-> "unread", new |-> [x \in chans |-> Unread(Web, x)]])
                   /\ Answers(c, m, [t |-> "messages", rows |-> Rows(PageOf(Turn))])
                   /\ Answers(c, m, [t |-> "reactions", rows |-> [x \in Marked |-> [n |-> Count(x), on |-> <<x, Web>> \in reacts]]])
                   /\ Answers(c, m, [t |-> "page", page |-> {}])
<1>1. \A a, m : a.t \in {"channels", "unread", "messages", "reactions", "page"} => ~Tells(a, m) /\ ~Counts(a, m)
  BY DEF Tells, Counts, TextKinds, MarkKinds
<1>2. \A c, m, a : a.t \in {"channels", "unread", "page"} => Answers(c, m, a)
  BY <1>1 DEF Answers
<1>3. \A c, m : Answers(c, m, [t |-> "messages", rows |-> Rows(PageOf(Turn))])
  BY <1>1 DEF Answers, Rows
<1>4. ASSUME NEW c, NEW m PROVE Answers(c, m, [t |-> "reactions", rows |-> [x \in Marked |-> [n |-> Count(x), on |-> <<x, Web>> \in reacts]]])
  <2> DEFINE a == [t |-> "reactions", rows |-> [x \in Marked |-> [n |-> Count(x), on |-> <<x, Web>> \in reacts]]]
  <2>1. a.t = "reactions" /\ (m \in DOMAIN a.rows => a.rows[m].n = Count(m) /\ (a.rows[m].on <=> <<m, Web>> \in reacts))
    OBVIOUS
  <2>2. Reacted(m, Web) <=> <<m, Web>> \in reacts
    BY DEF Reacted
  <2> HIDE DEF a
  <2>3. Answers(c, m, a)
    BY <1>1, <2>1, <2>2 DEF Answers
  <2> QED
    BY <2>3 DEF a
<1> QED
  BY <1>2, <1>3, <1>4

LEMMA OrderWeb ==
  ASSUME CTypes, FeedGood, InOrder, WebStep
  PROVE  InOrder'
<1> USE DEF CTypes
<1>0. FTypes /\ Web \in Clients
  BY WhoIs
<1>1. CASE OnCreated \/ OnRewritten \/ OnReaction \/ OnChannel
  <2>1. TakeEvent /\ inbox[Web] # <<>>
    BY <1>1 DEF OnCreated, OnRewritten, OnReaction, OnChannel, Heard
  <2> QED
    BY <1>0, <2>1, OrderTaken DEF TakeEvent
<1>2. CASE \E m \in Messages : SendCopy(m) \/ OnCopy(m) \/ Visible(m)
  <2>1. UNCHANGED <<scope, ver, reacts, pending, rooms, online, inbox, answers, tangled>>
    BY <1>2 DEF SendCopy, OnCopy, Visible, AckRead, feedVars
  <2> QED
    BY <1>0, <2>1, OrderTaken
<1>3. CASE \E a \in answers[Web] : \/ OnRewriteAnswer(a) \/ OnReactionAnswer(a) \/ OnForwardAnswer(a) \/ OnCreateAnswer(a)
                                   \/ ApplyChannels(a) \/ ApplyUnread(a) \/ ApplyMessages(a) \/ ApplyReactions(a)
  <2>1. PICK a \in answers[Web] : TakeAnswer(a)
    BY <1>3 DEF OnRewriteAnswer, OnReactionAnswer, OnForwardAnswer, OnCreateAnswer, ApplyChannels, ApplyUnread,
                ApplyMessages, ApplyReactions, Applying
  <2>2. \A c \in Clients : \A b \in answers'[c] : b \in answers[c]
    BY <1>0, <2>1 DEF TakeAnswer, FTypes
  <2> QED
    BY <1>0, <2>1, <2>2, OrderTaken DEF TakeAnswer
<1>4. CASE \E c \in Channels : Create(c)
  <2>1. ServerStep
    BY <1>4, WhoIs DEF Create, ServerStep
  <2> QED
    BY <2>1, OrderServer
<1>5. CASE Start \/ \E c \in Channels : SelectChannel(c)
  <2>1. UNCHANGED <<scope, ver, reacts, pending, rooms, online, inbox, answers, tangled>>
    BY <1>5 DEF Start, SelectChannel, feedVars
  <2> QED
    BY <1>0, <2>1, OrderTaken
<1>6. CASE ServeChannels \/ ServeUnread \/ ServeMessages \/ ServeReactions
  <2>1. PICK a, told : Serve(a, told) /\ \A c, m : Answers(c, m, a)
    <3>1. CASE ServeChannels
      BY <1>0, <3>1, ServesAnswer DEF ServeChannels
    <3>2. CASE ServeUnread
      BY <1>0, <3>2, ServesAnswer DEF ServeUnread
    <3>3. CASE ServeMessages
      BY <1>0, <3>3, ServesAnswer DEF ServeMessages
    <3>4. CASE ServeReactions
      BY <1>0, <3>4, ServesAnswer DEF ServeReactions
    <3> QED
      BY <1>6, <3>1, <3>2, <3>3, <3>4
  <2>2. \A c \in Clients : \A b \in answers'[c] : b \in answers[c] \/ b = a
    BY <1>0, <2>1 DEF Serve, FTypes
  <2> QED
    BY <1>0, <2>1, <2>2, OrderTaken DEF Serve
<1> QED
  BY <1>1, <1>2, <1>3, <1>4, <1>5, <1>6 DEF WebStep

LEMMA OrderTui ==
  ASSUME CTypes, FeedGood, InOrder, TuiStep
  PROVE  InOrder'
<1> USE DEF CTypes
<1>0. FTypes /\ Tui \in Clients
  BY WhoIs
<1>1. CASE TuiMessage \/ TuiChannel
  <2>1. TuiEvent /\ inbox[Tui] # <<>>
    BY <1>1 DEF TuiMessage, TuiChannel, TuiHeard
  <2> QED
    BY <1>0, <2>1, OrderTaken DEF TuiEvent
<1>2. CASE \E a \in answers[Tui] : TuiRewriteAnswer(a) \/ TuiCreateAnswer(a) \/ TuiLoaded(a) \/ Entered(a)
  <2>1. PICK a \in answers[Tui] : TuiAnswer(a)
    BY <1>2 DEF TuiRewriteAnswer, TuiCreateAnswer, TuiLoaded, Entered
  <2>2. \A c \in Clients : \A b \in answers'[c] : b \in answers[c]
    BY <1>0, <2>1 DEF TuiAnswer, FTypes
  <2> QED
    BY <1>0, <2>1, <2>2, OrderTaken DEF TuiAnswer
<1>3. CASE TuiServe \/ \E c \in Channels : Enter(c)
  <2>1. PICK a : /\ answers' = [answers EXCEPT ![Tui] = @ \cup {a}] /\ \A c, m : Answers(c, m, a)
                 /\ UNCHANGED <<scope, ver, reacts, pending, rooms, online, inbox, tangled>>
    BY <1>0, <1>3, ServesAnswer DEF TuiServe, Enter
  <2>2. \A c \in Clients : \A b \in answers'[c] : b \in answers[c] \/ b = a
    BY <1>0, <2>1 DEF FTypes
  <2> QED
    BY <1>0, <2>1, <2>2, OrderTaken
<1> QED
  BY <1>1, <1>2, <1>3 DEF TuiStep

LEMMA OrderKept == ASSUME CTypes, Versions, InOrder, [Next]_vars PROVE InOrder'
<1>1. FTypes /\ FeedGood
  BY VersionsAre DEF CTypes
<1>2. CASE ServerStep /\ UNCHANGED <<webVars, tuiVars>>
  BY <1>1, <1>2, OrderServer
<1>3. CASE WebStep /\ UNCHANGED tuiVars
  BY <1>1, <1>3, OrderWeb
<1>4. CASE TuiStep /\ UNCHANGED webVars
  BY <1>1, <1>4, OrderTui
<1>5. CASE UNCHANGED <<feedVars, webVars, tuiVars>>
  BY <1>1, <1>5, OrderTaken DEF feedVars
<1> QED
  BY <1>1, <1>2, <1>3, <1>4, <1>5, NextIs

LEMMA OrderStarts == ASSUME Init PROVE InOrder
<1>1. pending = {} /\ \A c \in Clients : inbox[c] = <<>> /\ answers[c] = {}
  BY DEF Init, FeedInit
<1> QED
  BY <1>1 DEF InOrder, Heeds, Current, Queued, Tallied
-------------------------------------------------------------------------------
(* Badges *)

LEMMA NotYetStays ==
  ASSUME NotYet, scope' = scope, tangled \subseteq tangled', blurred \subseteq blurred',
         \A m \in Messages : Coming(m)' /\ Author(m) # Web /\ ~Excused(m)' =>
            \/ /\ Coming(m) /\ shown'.server[m] = shown.server[m]
               /\ m \in news'[Home(m)] => m \in news[Home(m)]
            \/ shown'.server[m] = 0 /\ m \notin news'[Home(m)]
  PROVE  NotYet'
<1>1. \A m : Author(m)' = Author(m) /\ Home(m)' = Home(m)
  BY DEF Author, Home
<1>2. \A m : Excused(m) => Excused(m)'
  BY <1>1 DEF Excused
<1>3. ASSUME NEW m \in Messages, Author(m)' # Web, Coming(m)', ~Excused(m)'
      PROVE  shown'.server[m] = 0 /\ m \notin news'[Home(m)]
  <2>1. CASE shown'.server[m] = 0 /\ m \notin news'[Home(m)]
    BY <2>1
  <2>2. CASE ~(shown'.server[m] = 0 /\ m \notin news'[Home(m)])
    BY <1>1, <1>2, <1>3, <2>2 DEF NotYet
  <2> QED
    BY <2>1, <2>2
<1> QED
  BY <1>1, <1>3 DEF NotYet

LEMMA CountedStays ==
  ASSUME Counted, scope' = scope, tangled \subseteq tangled', blurred \subseteq blurred',
         \A c \in Channels : \/ badge'[c] = badge[c] /\ news'[c] = news[c]
                             \/ badge'[c] = Cardinality(news'[c])
                             \/ c \in blurred' \cup {Home(m) : m \in tangled}
  PROVE  Counted'
<1>1. \A m : Home(m)' = Home(m)
  BY DEF Home
<1>2. \A c : c \in blurred \cup {Home(m) : m \in tangled} => c \in blurred' \cup {Home(m)' : m \in tangled'}
  BY <1>1
<1>3. \A c : c \in blurred' \cup {Home(m) : m \in tangled} => c \in blurred' \cup {Home(m)' : m \in tangled'}
  BY <1>1
<1> QED
  BY <1>2, <1>3 DEF Counted

LEMMA SelectCounts == ASSUME WTypes, NEW c \in Channels, Select(c)
                      PROVE \A d \in Channels : \/ badge'[d] = badge[d] /\ news'[d] = news[d]
                                                \/ badge'[d] = Cardinality(news'[d])
  BY FS_EmptySet DEF Select, WTypes

LEMMA SelectForgets == ASSUME WTypes, NEW c, Select(c) PROVE \A d \in Channels : \A m : m \in news'[d] => m \in news[d]
  BY DEF Select, WTypes

\* What comes to the page is announced to it, or has just been sent.
LEMMA ComingTaken ==
  ASSUME FTypes, UNCHANGED <<scope, pending>>, inbox[Web] # <<>>, inbox' = [inbox EXCEPT ![Web] = Tail(@)], NEW m, Coming(m)'
  PROVE  /\ Coming(m)
         /\ (\E e \in pending : First(e, m)) \/ \E i \in DOMAIN inbox[Web] : i # 1 /\ i \in Nat /\ First(inbox[Web][i], m)
<1>1. ASSUME NEW i \in DOMAIN inbox'[Web], inbox'[Web][i].t = "message.created", inbox'[Web][i].m = m
      PROVE  \E j \in DOMAIN inbox[Web] : j # 1 /\ j \in Nat /\ inbox[Web][j].t = "message.created" /\ inbox[Web][j].m = m
  <2>1. i \in Nat /\ i + 1 \in DOMAIN inbox[Web] /\ inbox'[Web][i] = inbox[Web][i + 1] /\ i \in 1 .. Len(inbox'[Web])
    <3>1. Web \in Clients /\ inbox[Web] \in Seq(Event)
      BY WhoIs DEF FTypes
    <3>2. inbox'[Web] = Tail(inbox[Web])
      BY <3>1 DEF FTypes
    <3>3. inbox'[Web] \in Seq(Event)
      BY <3>1, <3>2, TailTypes
    <3>4. i \in 1 .. Len(inbox'[Web])
      BY <1>1, <3>3
    <3> QED
      BY <1>1, <3>1, <3>4, TakeIs
  <2>2. i + 1 # 1 /\ i + 1 \in Nat
    BY <2>1
  <2> QED
    BY <1>1, <2>1, <2>2
<1>2. CASE \E e \in pending' : e.t = "message.created" /\ e.m = m
  BY <1>2 DEF Coming, First
<1>3. CASE \E i \in DOMAIN inbox'[Web] : inbox'[Web][i].t = "message.created" /\ inbox'[Web][i].m = m
  BY <1>1, <1>3 DEF Coming, First
<1> QED
  BY <1>2, <1>3 DEF Coming

\* The first event of the page's queue tells of the message: nothing that announces it is behind.
LEMMA NoneComing ==
  ASSUME FTypes, InOrder, UNCHANGED <<scope, pending>>, inbox[Web] # <<>>, inbox' = [inbox EXCEPT ![Web] = Tail(@)],
         NEW m \in Messages, Tells(Head(inbox[Web]), m), m \notin tangled
  PROVE  ~Coming(m)'
<1> SUFFICES ASSUME Coming(m)' PROVE FALSE
  OBVIOUS
<1>1. Web \in Clients /\ Queued(Web, m)
  BY WhoIs DEF InOrder
<1>2. 1 \in DOMAIN inbox[Web] /\ Tells(inbox[Web][1], m)
  BY <1>1, HeadIs
<1>3. \A i \in DOMAIN inbox[Web] : First(inbox[Web][i], m) => i <= 1
  BY <1>1, <1>2 DEF Queued
<1>4. ~\E e \in pending : First(e, m)
  BY <1>1, <1>2 DEF Queued
<1>5. PICK i \in DOMAIN inbox[Web] : i # 1 /\ i \in Nat /\ First(inbox[Web][i], m)
  BY <1>4, ComingTaken
<1>6. i \in DOMAIN inbox[Web] /\ DOMAIN inbox[Web] = 1 .. Len(inbox[Web]) /\ Len(inbox[Web]) \in Nat
  BY <1>1, TakeIs
<1> QED
  BY <1>3, <1>5, <1>6

LEMMA BadgeServer ==
  ASSUME CTypes, ShownGood, BadgeInv, ServerStep, UNCHANGED webVars
  PROVE  BadgeInv'
<1> USE DEF CTypes
<1>0. FTypes /\ WTypes /\ NotYet /\ Counted /\ UNCHANGED <<shown, news, badge, blurred>> /\ Web \in Clients
  BY WhoIs DEF BadgeInv, webVars
<1>1. scope' = scope /\ tangled \subseteq tangled'
  BY DEF ServerStep, Writes, Send, Edit, Delete, Forward, React, CountReaction, CreateChannel, Announce, Leave, Join, Tangles
<1>2. ASSUME NEW m \in Messages, Coming(m)' PROVE Coming(m) \/ m \notin Sent
  <2>1. CASE \E x \in Messages : Send(x)
    <3>1. PICK x \in Messages : Send(x)
      BY <2>1
    <3>2. Note("message.created", x, Author(x)).m = x
      BY DEF Note
    <3> QED
      BY <1>2, <3>1, <3>2 DEF Send, Coming, Sent
  <2>2. CASE \E x \in Messages : Edit(x) \/ Delete(x) \/ Forward(x)
    <3>1. PICK x \in Messages, t \in {"message.updated", "message.deleted", "forwarded"} :
            pending' = pending \cup {Note(t, x, Author(x))} /\ inbox' = inbox
      BY <2>2 DEF Edit, Delete, Forward
    <3>2. Note(t, x, Author(x)).t = t
      BY DEF Note
    <3> QED
      BY <1>2, <3>1, <3>2 DEF Coming
  <2>3. CASE \E x \in Messages : \E u \in Users, on \in BOOLEAN : React(x, u, on)
    <3>1. PICK x \in Messages, u \in Users, on \in BOOLEAN : React(x, u, on)
      BY <2>3
    <3>2. Reaction("written", x, u, on, 0).t = "written"
      BY DEF Reaction
    <3> QED
      BY <1>2, <3>1, <3>2 DEF Coming, React
  <2>4. CASE \E e \in pending : CountReaction(e)
    <3>1. PICK e \in pending : CountReaction(e)
      BY <2>4
    <3>2. Reaction("message.reaction", e.m, e.by, e.on, Count(e.m)).t = "message.reaction"
      BY DEF Reaction
    <3> QED
      BY <1>2, <3>1, <3>2 DEF Coming, CountReaction
  <2>5. CASE \E c \in Channels : \E u \in Users : CreateChannel(c, u)
    <3>1. PICK c \in Channels, u \in Users : CreateChannel(c, u)
      BY <2>5
    <3>2. NewChannel(c, u).t = "channel.created"
      BY DEF NewChannel
    <3> QED
      BY <1>2, <3>1, <3>2 DEF Coming, CreateChannel
  <2>6. ASSUME NEW e \in pending, Announce(e) PROVE Coming(m)
    <3>1. CASE \E f \in pending' : f.t = "message.created" /\ f.m = m
      BY <2>6, <3>1 DEF Announce, Coming
    <3>2. CASE \E i \in DOMAIN inbox'[Web] : inbox'[Web][i].t = "message.created" /\ inbox'[Web][i].m = m
      <4>1. PICK i \in DOMAIN inbox'[Web] : inbox'[Web][i].t = "message.created" /\ inbox'[Web][i].m = m
        BY <3>2
      <4>2. \/ i \in DOMAIN inbox[Web] /\ inbox'[Web][i] = inbox[Web][i]
            \/ inbox'[Web][i] = e
        BY <1>0, <2>6, AnnounceIs DEF Announce
      <4> QED
        BY <4>1, <4>2 DEF Coming
    <3> QED
      BY <1>2, <3>1, <3>2 DEF Coming
  <2>7. CASE \E c \in Clients : Leave(c) \/ Join(c)
    <3>1. pending' = pending /\ (inbox'[Web] = inbox[Web] \/ inbox'[Web] = <<>>)
      BY <1>0, <2>7 DEF Leave, Join, FTypes
    <3> QED
      BY <1>2, <3>1 DEF Coming
  <2> QED
    BY <2>1, <2>2, <2>3, <2>4, <2>5, <2>6, <2>7 DEF ServerStep, Writes
<1>3. \A m \in Messages : m \notin Sent => shown.server[m] = 0 /\ m \notin news[Home(m)]
  <2>1. \A m \in Messages : shown.server[m] \in Nat /\ Home(m) \in Channels /\ ver[m] \in Nat
    BY <1>0, VerIs, WhoIs DEF WTypes, FTypes
  <2> QED
    BY <1>0, <2>1, VerIs DEF ShownGood
<1>4. NotYet'
  BY <1>0, <1>1, <1>2, <1>3, NotYetStays
<1>5. Counted'
  BY <1>0, <1>1, CountedStays
<1> QED
  BY <1>4, <1>5 DEF BadgeInv

LEMMA BadgeEvent ==
  ASSUME CTypes, InOrder, BadgeInv, OnCreated \/ OnRewritten \/ OnReaction \/ OnChannel
  PROVE  BadgeInv'
<1> USE DEF CTypes
<1>0. /\ FTypes /\ WTypes /\ NotYet /\ Counted /\ Web \in Clients
      /\ TakeEvent /\ inbox[Web] # <<>> /\ UNCHANGED <<scope, ver, pending, tangled>> /\ blurred' = blurred
      /\ inbox' = [inbox EXCEPT ![Web] = Tail(@)]
  BY WhoIs DEF BadgeInv, OnCreated, OnRewritten, OnReaction, OnChannel, Heard, TakeEvent
<1>1. \A m : Coming(m)' => Coming(m)
  BY <1>0, ComingTaken
<1>2. \A m \in Messages : Tells(Head1, m) /\ Coming(m)' => m \in tangled
  BY <1>0, NoneComing DEF Head1
<1>3. Head1 \in Event /\ Head1 = inbox[Web][1] /\ 1 \in DOMAIN inbox[Web]
  BY <1>0, HeadIs DEF Head1
<1>4. CASE OnReaction \/ OnChannel
  <2>1. UNCHANGED <<shown, news, badge>>
    BY <1>4 DEF OnReaction, OnChannel
  <2>2. NotYet'
    BY <1>0, <1>1, <2>1, NotYetStays
  <2>3. Counted'
    BY <1>0, <2>1, CountedStays
  <2> QED
    BY <2>2, <2>3 DEF BadgeInv
<1>5. CASE OnRewritten
  <2>1. /\ UNCHANGED <<news, badge>> /\ Upsert(Head1.m, Head1.v) /\ Tells(Head1, Head1.m) /\ Head1.m \in Messages
    BY <1>3, <1>5, EventsAre DEF OnRewritten, Heard, Tells, TextKinds
  <2>2. \A m \in Messages : m # Head1.m => shown'.server[m] = shown.server[m]
    BY <1>0, <2>1 DEF Upsert, WTypes
  <2>3. \A m \in Messages : Coming(m)' /\ ~Excused(m)' => m # Head1.m
    BY <1>0, <1>2, <2>1 DEF Excused
  <2>4. NotYet'
    BY <1>0, <1>1, <2>1, <2>2, <2>3, NotYetStays
  <2>5. Counted'
    BY <1>0, <2>1, CountedStays
  <2> QED
    BY <2>4, <2>5 DEF BadgeInv
<1>6. CASE OnCreated
  <2> DEFINE m0 == Head1.m
             c0 == Home(m0)
  <2>1. Head1.t = "message.created" /\ m0 \in Messages /\ c0 \in Channels /\ Tells(Head1, m0) /\ Coming(m0)
    BY <1>0, <1>3, <1>6, EventsAre, WhoIs DEF OnCreated, Heard, Tells, TextKinds, Coming, FTypes
  <2>2. /\ news' = IF Elsewhere(m0) THEN [news EXCEPT ![c0] = @ \cup {m0}] ELSE news
        /\ IF shown.server[m0] # 0 THEN UNCHANGED <<shown, badge>>
           ELSE Replace(m0) /\ badge' = IF Elsewhere(m0) THEN [badge EXCEPT ![c0] = @ + 1] ELSE badge
    BY <1>6 DEF OnCreated
  <2> HIDE DEF m0, c0
  <2>3. \A m \in Messages : m # m0 => shown'.server[m] = shown.server[m]
    <3>1. CASE shown' = shown
      BY <3>1
    <3>2. CASE Replace(m0)
      BY <1>0, <3>2 DEF Replace, WTypes
    <3> QED
      BY <2>2, <3>1, <3>2
  <2>4. \A m \in Messages : Coming(m)' /\ ~Excused(m)' => m # m0
    <3>1. tangled' = tangled
      BY <1>0
    <3> QED
      BY <1>2, <2>1, <3>1 DEF Excused
  <2>5. \A c \in Channels, m \in Messages : m # m0 /\ m \in news'[c] => m \in news[c]
    BY <1>0, <2>1, <2>2 DEF WTypes
  <2>6. NotYet'
    <3>1. \A m \in Messages : Home(m) \in Channels
      BY <1>0, WhoIs DEF FTypes
    <3> QED
      BY <1>0, <1>1, <2>3, <2>4, <2>5, <3>1, NotYetStays
  <2>7. Counted'
    <3>1. CASE ~Elsewhere(m0)
      <4>1. UNCHANGED <<news, badge>>
        BY <2>2, <3>1
      <4> QED
        BY <1>0, <4>1, CountedStays
    <3>2. CASE Elsewhere(m0) /\ ~Excused(m0)
      <4>1. shown.server[m0] = 0 /\ m0 \notin news[c0]
        BY <1>0, <2>1, <3>2 DEF NotYet, Elsewhere, c0
      <4>2. badge' = [badge EXCEPT ![c0] = @ + 1] /\ news' = [news EXCEPT ![c0] = @ \cup {m0}]
        BY <2>2, <3>2, <4>1
      <4>3. IsFiniteSet(news[c0])
        BY <1>0, <2>1, FeedAssumption, FS_Subset DEF WTypes
      <4>4. Cardinality(news[c0] \cup {m0}) = Cardinality(news[c0]) + 1
        BY <4>1, <4>3, FS_AddElement
      <4>5. badge'[c0] = badge[c0] + 1 /\ news'[c0] = news[c0] \cup {m0}
        BY <1>0, <2>1, <4>2 DEF WTypes
      <4>6. \A c \in Channels : c # c0 => badge'[c] = badge[c] /\ news'[c] = news[c]
        BY <1>0, <2>1, <4>2 DEF WTypes
      <4>7. badge[c0] = Cardinality(news[c0]) \/ c0 \in blurred \cup {Home(m) : m \in tangled}
        BY <1>0, <2>1 DEF Counted
      <4>8. badge'[c0] = Cardinality(news'[c0]) \/ c0 \in blurred' \cup {Home(m) : m \in tangled}
        BY <1>0, <4>4, <4>5, <4>7
      <4> QED
        BY <1>0, <4>6, <4>8, CountedStays
    <3>3. CASE Elsewhere(m0) /\ Excused(m0)
      <4>1. c0 \in blurred' \cup {Home(m) : m \in tangled}
        BY <1>0, <3>3 DEF Excused, c0
      <4>2. \A c \in Channels : c # c0 => badge'[c] = badge[c] /\ news'[c] = news[c]
        BY <1>0, <2>1, <2>2 DEF WTypes
      <4> QED
        BY <1>0, <4>1, <4>2, CountedStays
    <3> QED
      BY <3>1, <3>2, <3>3
  <2> QED
    BY <2>6, <2>7 DEF BadgeInv
<1> QED
  BY <1>4, <1>5, <1>6

\* Nothing else takes an event from the page, or announces a message to it.
LEMMA ComingSame ==
  UNCHANGED inbox /\ (\A e \in pending' : e \in pending \/ e.t # "message.created") => \A m : Coming(m)' => Coming(m)
  BY DEF Coming

LEMMA BadgeTakes ==
  ASSUME CTypes, FeedGood, BadgeInv, NEW a \in answers[Web], WebTakes(a)
  PROVE  BadgeInv'
<1> USE DEF CTypes
<1>0. /\ FTypes /\ WTypes /\ NotYet /\ Counted /\ Web \in Clients
      /\ TakeAnswer(a) /\ UNCHANGED <<scope, ver, pending, tangled, inbox>> /\ blurred' = blurred
  BY WhoIs DEF BadgeInv, WebTakes, OnRewriteAnswer, OnReactionAnswer, OnForwardAnswer, OnCreateAnswer, TakeAnswer
<1>1. \A m : Coming(m)' => Coming(m)
  BY <1>0, ComingSame
<1>2. a.t \in TextKinds => Author(a.m) = Web /\ a.m \in Messages
  <2> SUFFICES ASSUME a.t \in TextKinds PROVE Author(a.m) = Web /\ a.m \in Messages
    OBVIOUS
  <2>1. a.t \notin ReadKinds
    BY DEF TextKinds, ReadKinds
  <2>2. a.by = Web
    BY <1>0, <2>1 DEF Passed
  <2>3. a.m \in Messages
    BY <1>0, AnswerIs DEF TextKinds
  <2> QED
    BY <1>0, <2>2, <2>3 DEF FeedGood, Good
<1>3. \A m \in Messages : Author(m) # Web => shown'.server[m] = shown.server[m]
  <2>1. CASE OnRewriteAnswer(a) \/ OnForwardAnswer(a)
    <3>1. Upsert(a.m, a.v) /\ a.t \in TextKinds
      BY <2>1 DEF OnRewriteAnswer, OnForwardAnswer, TextKinds
    <3>2. \A m \in Messages : m # a.m => shown'.server[m] = shown.server[m]
      BY <1>0, <3>1 DEF Upsert, WTypes
    <3> QED
      BY <1>2, <3>1, <3>2
  <2>2. CASE OnReactionAnswer(a) \/ OnCreateAnswer(a)
    BY <2>2 DEF OnReactionAnswer, OnCreateAnswer
  <2> QED
    BY <2>1, <2>2 DEF WebTakes
<1>4. UNCHANGED <<news, badge>> \/ \E c \in Channels : Select(c)
  <2>1. CASE OnRewriteAnswer(a) \/ OnReactionAnswer(a)
    BY <2>1 DEF OnRewriteAnswer, OnReactionAnswer
  <2>2. CASE OnForwardAnswer(a)
    <3>1. a.m \in Messages
      BY <1>2, <2>2 DEF OnForwardAnswer, TextKinds
    <3>2. Home(a.m) \in Channels
      BY <1>0, <3>1, WhoIs DEF FTypes
    <3> QED
      BY <2>2, <3>2 DEF OnForwardAnswer
  <2>3. CASE OnCreateAnswer(a)
    BY <1>0, <2>3, AnswerIs DEF OnCreateAnswer
  <2> QED
    BY <2>1, <2>2, <2>3 DEF WebTakes
<1>5. /\ \A d \in Channels : \A m : m \in news'[d] => m \in news[d]
      /\ \A d \in Channels : (badge'[d] = badge[d] /\ news'[d] = news[d]) \/ badge'[d] = Cardinality(news'[d])
  BY <1>0, <1>4, SelectForgets, SelectCounts
<1>6. \A m \in Messages : Home(m) \in Channels
  BY <1>0, WhoIs DEF FTypes
<1>7. NotYet'
  BY <1>0, <1>1, <1>3, <1>5, <1>6, NotYetStays
<1>8. Counted'
  BY <1>0, <1>5, CountedStays
<1> QED
  BY <1>7, <1>8 DEF BadgeInv

LEMMA BadgeApplies ==
  ASSUME CTypes, BadgeInv, NEW a \in answers[Web], WebApplies(a)
  PROVE  BadgeInv'
<1> USE DEF CTypes
<1>0. /\ FTypes /\ WTypes /\ NotYet /\ Counted /\ Web \in Clients
      /\ TakeAnswer(a) /\ UNCHANGED <<scope, ver, pending, tangled, inbox>>
  BY WhoIs DEF BadgeInv, WebApplies, ApplyChannels, ApplyUnread, ApplyMessages, ApplyReactions, Applying, TakeAnswer
<1>1. \A m : Coming(m)' => Coming(m)
  BY <1>0, ComingSame
<1>2. \A m \in Messages : Home(m) \in Channels
  BY <1>0, WhoIs DEF FTypes
<1>3. CASE ApplyChannels(a)
  <2>1. Select(list'[1]) /\ list' = SetToSeq(a.cs) /\ UNCHANGED <<shown, blurred>> /\ a.t = "channels"
    BY <1>3 DEF ApplyChannels
  <2>2. a.cs \subseteq Channels /\ a.cs # {}
    BY <1>0, <2>1, AnswerIs, ReadsAre
  <2>3. IsFiniteSet(a.cs)
    BY <2>2, FeedAssumption, FS_Subset
  <2>4. list'[1] \in Channels
    BY <2>1, <2>2, <2>3, SeqOfSet
  <2>5. /\ \A d \in Channels : \A m : m \in news'[d] => m \in news[d]
        /\ \A d \in Channels : (badge'[d] = badge[d] /\ news'[d] = news[d]) \/ badge'[d] = Cardinality(news'[d])
    BY <1>0, <2>1, <2>4, SelectForgets, SelectCounts
  <2>6. NotYet'
    BY <1>0, <1>1, <1>2, <2>1, <2>5, NotYetStays
  <2>7. Counted'
    BY <1>0, <2>1, <2>5, CountedStays
  <2> QED
    BY <2>6, <2>7 DEF BadgeInv
<1>4. CASE ApplyUnread(a)
  <2> DEFINE some == {c \in DOMAIN a.new : a.new[c] # {}}
  <2>1. /\ badge' = [c \in Channels |-> IF c \in some THEN Cardinality(a.new[c]) ELSE badge[c]]
        /\ news' = [c \in Channels |-> IF c \in some THEN news[c] \cup a.new[c] ELSE news[c]]
        /\ blurred' = blurred \cup {c \in some : ~(news[c] \subseteq a.new[c]) \/ \E m \in a.new[c] : Coming(m)}
        /\ shown' = shown
    BY <1>4 DEF ApplyUnread
  <2> HIDE DEF some
  <2>2. \A m \in Messages : Coming(m) /\ m \in news'[Home(m)] => m \in news[Home(m)] \/ Home(m) \in blurred'
    BY <1>2, <2>1
  <2>3. NotYet'
    <3>1. blurred \subseteq blurred'
      BY <2>1
    <3>2. \A m : Home(m) \in blurred' => Excused(m)'
      BY <1>0 DEF Excused, Home
    <3> QED
      BY <1>0, <1>1, <2>1, <2>2, <3>1, <3>2, NotYetStays
  <2>4. ASSUME NEW c \in Channels
        PROVE  (badge'[c] = badge[c] /\ news'[c] = news[c]) \/ badge'[c] = Cardinality(news'[c]) \/ c \in blurred'
    <3>1. CASE c \notin some
      BY <2>1, <3>1
    <3>2. CASE c \in some /\ news[c] \subseteq a.new[c]
      <4>1. news'[c] = a.new[c] /\ badge'[c] = Cardinality(a.new[c])
        BY <2>1, <3>2
      <4> QED
        BY <4>1
    <3>3. CASE c \in some /\ ~(news[c] \subseteq a.new[c])
      BY <2>1, <3>3
    <3> QED
      BY <3>1, <3>2, <3>3
  <2>5. Counted'
    <3>1. blurred \subseteq blurred'
      BY <2>1
    <3> QED
      BY <1>0, <2>4, <3>1, CountedStays
  <2> QED
    BY <2>3, <2>5 DEF BadgeInv
<1>5. CASE ApplyMessages(a)
  <2>1. /\ shown' = [shown EXCEPT !.server = [m \in Messages |-> IF m \in DOMAIN a.rows THEN a.rows[m] ELSE @[m]]]
        /\ blurred' = blurred \cup {Home(m) : m \in {x \in DOMAIN a.rows : Coming(x)}}
        /\ UNCHANGED <<news, badge>>
    BY <1>5 DEF ApplyMessages
  <2>2. \A m \in Messages : shown'.server[m] = IF m \in DOMAIN a.rows THEN a.rows[m] ELSE shown.server[m]
    BY <1>0, <2>1 DEF WTypes
  <2>3. \A m \in Messages : Coming(m) /\ m \in DOMAIN a.rows => Home(m) \in blurred'
    BY <2>1
  <2>4. blurred \subseteq blurred'
    BY <2>1
  <2>5. NotYet'
    <3>1. \A m : Home(m) \in blurred' => Excused(m)'
      BY <1>0 DEF Excused, Home
    <3> QED
      BY <1>0, <1>1, <2>1, <2>2, <2>3, <2>4, <3>1, NotYetStays
  <2>6. Counted'
    BY <1>0, <2>1, <2>4, CountedStays
  <2> QED
    BY <2>5, <2>6 DEF BadgeInv
<1>6. CASE ApplyReactions(a)
  <2>1. UNCHANGED <<shown, news, badge, blurred>>
    BY <1>6 DEF ApplyReactions
  <2>2. NotYet'
    BY <1>0, <1>1, <2>1, NotYetStays
  <2>3. Counted'
    BY <1>0, <2>1, CountedStays
  <2> QED
    BY <2>2, <2>3 DEF BadgeInv
<1> QED
  BY <1>3, <1>4, <1>5, <1>6 DEF WebApplies

LEMMA BadgeOther ==
  ASSUME CTypes, BadgeInv, scope' = scope, UNCHANGED <<ver, tangled, blurred>>, UNCHANGED inbox \/ inbox'[Web] = inbox[Web],
         \A e \in pending' : e \in pending \/ e.t # "message.created",
         \A m \in Messages : shown'.server[m] = shown.server[m],
         UNCHANGED <<news, badge>> \/ \E c \in Channels : Select(c)
  PROVE  BadgeInv'
<1>0. FTypes /\ WTypes /\ NotYet /\ Counted
  BY DEF BadgeInv, CTypes
<1>1. \A m : Coming(m)' => Coming(m)
  BY DEF Coming
<1>2. /\ \A d \in Channels : \A m : m \in news'[d] => m \in news[d]
      /\ \A d \in Channels : (badge'[d] = badge[d] /\ news'[d] = news[d]) \/ badge'[d] = Cardinality(news'[d])
  BY <1>0, SelectForgets, SelectCounts
<1>3. \A m \in Messages : Home(m) \in Channels
  BY <1>0, WhoIs DEF FTypes
<1>4. NotYet'
  BY <1>0, <1>1, <1>2, <1>3, NotYetStays
<1>5. Counted'
  BY <1>0, <1>2, CountedStays
<1> QED
  BY <1>4, <1>5 DEF BadgeInv

LEMMA BadgeWeb ==
  ASSUME CTypes, FeedGood, InOrder, BadgeInv, WebStep
  PROVE  BadgeInv'
<1>0. WTypes /\ Web \in Clients
  BY WhoIs DEF CTypes
<1>1. CASE OnCreated \/ OnRewritten \/ OnReaction \/ OnChannel
  BY <1>1, BadgeEvent
<1>2. CASE \E m \in Messages : SendCopy(m) \/ OnCopy(m) \/ Visible(m)
  <2>1. /\ UNCHANGED <<scope, ver, tangled, blurred, inbox, pending, news, badge>>
        /\ \A m \in Messages : shown'.server[m] = shown.server[m]
    BY <1>0, <1>2 DEF SendCopy, OnCopy, Visible, AckRead, feedVars, WTypes
  <2> QED
    BY <2>1, BadgeOther
<1>3. CASE \E a \in answers[Web] : WebTakes(a)
  BY <1>3, BadgeTakes
<1>4. CASE \E a \in answers[Web] : WebApplies(a)
  BY <1>4, BadgeApplies
<1>5. CASE \E c \in Channels : Create(c)
  <2>1. PICK c \in Channels : Create(c)
    BY <1>5
  <2>2. NewChannel(c, Web).t = "channel.created"
    BY DEF NewChannel
  <2>3. /\ UNCHANGED <<scope, ver, tangled, blurred, inbox, news, badge, shown>>
        /\ \A e \in pending' : e \in pending \/ e.t # "message.created"
    BY <2>1, <2>2 DEF Create, CreateChannel
  <2> QED
    BY <2>3, BadgeOther
<1>6. CASE \E c \in Channels : SelectChannel(c)
  BY <1>6, BadgeOther DEF SelectChannel
<1>7. CASE Start
  BY <1>7, BadgeOther DEF Start, feedVars
<1>8. CASE ServeChannels \/ ServeUnread \/ ServeMessages \/ ServeReactions
  <2>1. UNCHANGED <<scope, ver, tangled, blurred, inbox, pending, news, badge, shown>>
    BY <1>8 DEF ServeChannels, ServeUnread, ServeMessages, ServeReactions, Serve, webVars
  <2> QED
    BY <2>1, BadgeOther
<1> QED
  BY <1>1, <1>2, <1>3, <1>4, <1>5, <1>6, <1>7, <1>8 DEF WebStep, WebTakes, WebApplies

LEMMA BadgeTui ==
  ASSUME CTypes, BadgeInv, TuiStep, UNCHANGED webVars
  PROVE  BadgeInv'
<1>0. FTypes /\ Web \in Clients /\ Tui \in Clients /\ Web # Tui /\ UNCHANGED <<blurred, news, badge, shown>>
  BY WhoIs DEF CTypes, webVars
<1>1. /\ UNCHANGED <<scope, ver, tangled, pending>>
      /\ inbox' = inbox \/ inbox' = [inbox EXCEPT ![Tui] = Tail(@)]
  BY DEF TuiStep, TuiMessage, TuiChannel, TuiServe, TuiRewriteAnswer, TuiCreateAnswer, TuiLoaded, Entered, Enter,
         TuiEvent, TuiAnswer
<1>2. inbox'[Web] = inbox[Web]
  BY <1>0, <1>1 DEF FTypes
<1> QED
  BY <1>0, <1>1, <1>2, BadgeOther

LEMMA BadgeKept == ASSUME CTypes, Versions, InOrder, BadgeInv, [Next]_vars PROVE BadgeInv'
<1>1. FeedGood /\ ShownGood
  BY VersionsAre
<1>2. CASE ServerStep /\ UNCHANGED <<webVars, tuiVars>>
  BY <1>1, <1>2, BadgeServer
<1>3. CASE WebStep /\ UNCHANGED tuiVars
  BY <1>1, <1>3, BadgeWeb
<1>4. CASE TuiStep /\ UNCHANGED webVars
  BY <1>4, BadgeTui
<1>5. CASE UNCHANGED <<feedVars, webVars, tuiVars>>
  BY <1>5, BadgeOther DEF feedVars, webVars
<1> QED
  BY <1>2, <1>3, <1>4, <1>5, NextIs DEF CTypes

LEMMA BadgeStarts == ASSUME Init PROVE BadgeInv
<1>1. pending = {} /\ \A c \in Clients : inbox[c] = <<>>
  BY DEF Init, FeedInit
<1>2. \A m : ~Coming(m)
  BY <1>1, WhoIs DEF Coming
<1>3. \A c \in Channels : badge[c] = 0 /\ news[c] = {}
  BY DEF Init, WebInit
<1> QED
  BY <1>2, <1>3, FS_EmptySet DEF BadgeInv, NotYet, Counted

LEMMA BadgeShows == ASSUME CTypes, BadgeInv PROVE BadgeRight
  BY DEF CTypes, FTypes, BadgeInv, Counted, BadgeRight
-------------------------------------------------------------------------------
(* Catching up *)

NoCounts(c, m) == (\A e \in pending : ~Counts(e, m)) /\ \A i \in DOMAIN inbox[c] : ~Counts(inbox[c][i], m)
NoOwn(c, m)    == (\A e \in pending : ~Own(c, e, m)) /\ \A i \in DOMAIN inbox[c] : ~Own(c, inbox[c][i], m)
MarksOf(m)     == <<m, "marks">>

\* What a client that was told of everything has nothing to be told of after a
\* step of the server, it had nothing to be told of before, and that is as it was.
TextDue(c, m) == m \in Sent /\ m \notin missed[c] /\ Silent(c, m)
TextSame(c, m)  == TextDue(c, m)' => TextDue(c, m) /\ ver'[m] = ver[m]
CountSame(c, m) == MarksOf(m) \notin missed'[c] /\ NoCounts(c, m)' =>
                     MarksOf(m) \notin missed[c] /\ NoCounts(c, m) /\ Count(m)' = Count(m)
OwnSame(c, m)   == MarksOf(m) \notin missed'[c] /\ NoOwn(c, m)' =>
                     MarksOf(m) \notin missed[c] /\ NoOwn(c, m) /\ (Reacted(m, c)' <=> Reacted(m, c))
DuesSame(c, m)  == TextSame(c, m) /\ CountSame(c, m) /\ OwnSame(c, m)

LEMMA DuesQuiet ==
  ASSUME NEW c \in Clients, NEW m, SameRow(m), m \in Sent' => m \in Sent,
         m \in missed[c] => m \in missed'[c], MarksOf(m) \in missed[c] => MarksOf(m) \in missed'[c],
         \A e \in pending : e \in pending' \/ ~Of(e, m),
         \A i \in DOMAIN inbox[c] : ~Of(inbox[c][i], m) \/ \E j \in DOMAIN inbox'[c] : inbox'[c][j] = inbox[c][i]
  PROVE  DuesSame(c, m)
<1>1. \A e : ~Of(e, m) => ~Tells(e, m) /\ ~Counts(e, m) /\ ~Own(c, e, m)
  BY KindsAre
<1>2. \A e : /\ Tells(e, m)' = Tells(e, m) /\ Counts(e, m)' = Counts(e, m) /\ Own(c, e, m)' = Own(c, e, m)
  BY DEF Tells, Counts, Own
<1>3. Silent(c, m)' => Silent(c, m)
  BY <1>1, <1>2 DEF Silent, Tells
<1>4. NoCounts(c, m)' => NoCounts(c, m)
  BY <1>1, <1>2 DEF NoCounts, Counts
<1>5. NoOwn(c, m)' => NoOwn(c, m)
  BY <1>1, <1>2 DEF NoOwn, Own, Counts
<1>6. TextSame(c, m)
  BY <1>3 DEF TextSame, TextDue, SameRow
<1>7. CountSame(c, m)
  BY <1>4 DEF CountSame, SameRow
<1>8. OwnSame(c, m)
  BY <1>5 DEF OwnSame, SameRow
<1> QED
  BY <1>6, <1>7, <1>8 DEF DuesSame

LEMMA SubjectOf ==
  ASSUME NEW e \in Event, NEW m, e.t # "written"
  PROVE  /\ Tells(e, m) => Subject(e) = m
         /\ Counts(e, m) => Subject(e) = MarksOf(m)
  BY DEF Subject, MarksOf, Tells, Counts, TextKinds, MarkKinds

LEMMA DuesAnnounced ==
  ASSUME FTypes, NEW e \in pending, Announce(e), NEW c \in Clients, NEW m
  PROVE  DuesSame(c, m)
<1>0. UNCHANGED <<ver, reacts>> /\ e \in Event /\ e.t # "written" /\ pending' = pending \ {e}
  BY DEF Announce, FTypes
<1>1. SameRow(m) /\ Sent' = Sent
  BY <1>0, RowSame DEF Sent
<1>2. missed[c] \subseteq missed'[c] /\ (~Hears(c, e) => Subject(e) \in missed'[c])
  BY DEF Announce
<1>3. \A i \in DOMAIN inbox[c] : i \in DOMAIN inbox'[c] /\ inbox'[c][i] = inbox[c][i]
  BY AnnounceIs DEF Announce
<1>4. Hears(c, e) => \E j \in DOMAIN inbox'[c] : inbox'[c][j] = e
  BY AnnounceIs
<1>5. \A f : /\ Tells(f, m)' = Tells(f, m) /\ Counts(f, m)' = Counts(f, m) /\ Own(c, f, m)' = Own(c, f, m)
             /\ Own(c, f, m) => Counts(f, m)
  BY DEF Tells, Counts, Own
<1>6. TextSame(c, m)
  <2> SUFFICES ASSUME TextDue(c, m)' PROVE TextDue(c, m) /\ ver'[m] = ver[m]
    BY DEF TextSame
  <2>1. m \in Sent /\ m \notin missed[c] /\ m \notin missed'[c]
    BY <1>1, <1>2 DEF TextDue
  <2>2. (\A f \in pending' : ~Tells(f, m)) /\ \A i \in DOMAIN inbox'[c] : ~Tells(inbox'[c][i], m)
    BY DEF TextDue, Silent, Tells
  <2>3. ~Tells(e, m)
    BY <1>0, <1>2, <1>4, <2>1, <2>2, SubjectOf
  <2>4. Silent(c, m)
    BY <1>0, <1>3, <2>2, <2>3 DEF Silent
  <2> QED
    BY <1>0, <2>1, <2>4 DEF TextDue
<1>7. CountSame(c, m)
  <2> SUFFICES ASSUME MarksOf(m) \notin missed'[c], NoCounts(c, m)'
               PROVE  MarksOf(m) \notin missed[c] /\ NoCounts(c, m) /\ Count(m)' = Count(m)
    BY DEF CountSame
  <2>1. (\A f \in pending' : ~Counts(f, m)) /\ \A i \in DOMAIN inbox'[c] : ~Counts(inbox'[c][i], m)
    BY DEF NoCounts, Counts
  <2>2. ~Counts(e, m)
    BY <1>0, <1>2, <1>4, <2>1, SubjectOf
  <2> QED
    BY <1>0, <1>1, <1>2, <1>3, <2>1, <2>2 DEF NoCounts, SameRow
<1>8. OwnSame(c, m)
  <2> SUFFICES ASSUME MarksOf(m) \notin missed'[c], NoOwn(c, m)'
               PROVE  MarksOf(m) \notin missed[c] /\ NoOwn(c, m) /\ (Reacted(m, c)' <=> Reacted(m, c))
    BY DEF OwnSame
  <2>1. (\A f \in pending' : ~Own(c, f, m)) /\ \A i \in DOMAIN inbox'[c] : ~Own(c, inbox'[c][i], m)
    BY DEF NoOwn, Own, Counts
  <2>2. ~Own(c, e, m)
    BY <1>0, <1>2, <1>4, <1>5, <2>1, SubjectOf
  <2> QED
    BY <1>0, <1>1, <1>2, <1>3, <2>1, <2>2 DEF NoOwn, SameRow
<1> QED
  BY <1>6, <1>7, <1>8 DEF DuesSame

LEMMA DuesLeft ==
  ASSUME FTypes, Passed, NEW u \in Clients, Leave(u), NEW c \in Clients, NEW m
  PROVE  DuesSame(c, m)
<1>0. UNCHANGED <<ver, reacts, pending>>
  BY DEF Leave
<1>1. SameRow(m) /\ Sent' = Sent
  BY <1>0, RowSame DEF Sent
<1>2. CASE c # u
  <2>1. inbox'[c] = inbox[c] /\ missed'[c] = missed[c]
    BY <1>2 DEF Leave, FTypes
  <2> QED
    BY <1>0, <1>1, <2>1, DuesQuiet
<1>3. CASE c = u
  <2>1. missed'[c] = missed[c] \cup {Subject(inbox[c][i]) : i \in DOMAIN inbox[c]}
    BY <1>3 DEF Leave, FTypes
  <2>2. \A i \in DOMAIN inbox[c] : inbox[c][i] \in Event /\ inbox[c][i].t # "written"
    BY DEF FTypes, Passed
  <2>3. m \notin missed'[c] => \A i \in DOMAIN inbox[c] : ~Tells(inbox[c][i], m)
    BY <2>1, <2>2, SubjectOf
  <2>4. MarksOf(m) \notin missed'[c] => \A i \in DOMAIN inbox[c] : ~Counts(inbox[c][i], m) /\ ~Own(c, inbox[c][i], m)
    BY <2>1, <2>2, SubjectOf DEF Own
  <2>5. \A f : /\ Tells(f, m)' = Tells(f, m) /\ Counts(f, m)' = Counts(f, m) /\ Own(c, f, m)' = Own(c, f, m)
    BY DEF Tells, Counts, Own
  <2>6. TextSame(c, m)
    BY <1>0, <1>1, <2>1, <2>3 DEF TextSame, TextDue, Silent, Tells
  <2>7. CountSame(c, m)
    BY <1>0, <1>1, <2>1, <2>4 DEF CountSame, NoCounts, Counts, SameRow
  <2>8. OwnSame(c, m)
    BY <1>0, <1>1, <2>1, <2>4 DEF OwnSame, NoOwn, Own, Counts, SameRow
  <2> QED
    BY <2>6, <2>7, <2>8 DEF DuesSame
<1> QED
  BY <1>2, <1>3

LEMMA DuesWritten ==
  ASSUME CTypes, FeedGood, NEW x \in Messages, Writes(x), NEW c \in Clients, NEW m \in Messages
  PROVE  DuesSame(c, m)
<1>0. UNCHANGED <<scope, reacts, inbox, missed>> /\ pending \subseteq pending' /\ (m # x => ver'[m] = ver[m])
  BY WriteGood DEF Writes, Send, Edit, Delete, Forward
<1>1. Count(m)' = Count(m) /\ \A u : Reacted(m, u)' = Reacted(m, u)
  BY <1>0 DEF Count, Reacted
<1>2. TextSame(c, m)
  <2>1. CASE m # x
    <3>1. SameRow(m) /\ (m \in Sent' => m \in Sent)
      BY <1>0, <1>1, <2>1 DEF SameRow, Sent
    <3> QED
      BY <1>0, <3>1, DuesQuiet DEF DuesSame
  <2>2. CASE m = x
    <3> DEFINE e(t) == Note(t, x, Author(x))
    <3>1. \A t : e(t).m = x /\ e(t).t = t
      BY DEF Note
    <3>2. \E t \in TextKinds : e(t) \in pending'
      BY DEF Writes, Send, Edit, Delete, Forward, TextKinds
    <3>3. ~Silent(c, m)'
      BY <2>2, <3>1, <3>2 DEF Silent, Tells
    <3> QED
      BY <3>3 DEF TextSame, TextDue
  <2> QED
    BY <2>1, <2>2
<1>3. CountSame(c, m)
  BY <1>0, <1>1 DEF CountSame, NoCounts, Counts
<1>4. OwnSame(c, m)
  BY <1>0, <1>1 DEF OwnSame, NoOwn, Own, Counts
<1> QED
  BY <1>2, <1>3, <1>4 DEF DuesSame

LEMMA DuesReacted ==
  ASSUME FTypes, NEW x \in Messages, NEW u \in Users, NEW on \in BOOLEAN, React(x, u, on), NEW c \in Clients, NEW m
  PROVE  DuesSame(c, m)
<1> DEFINE r == Reaction("written", x, u, on, 0)
<1>0. UNCHANGED <<scope, ver, inbox, missed>> /\ pending' = pending \cup {r} /\ r.t = "written" /\ r.m = x /\ r.by = u
  BY DEF React, Reaction
<1> HIDE DEF r
<1>1. \A v : m # x \/ v # u => (Reacted(m, v)' <=> Reacted(m, v))
  BY DEF Reacted, React
<1>2. TextSame(c, m)
  BY <1>0 DEF TextSame, TextDue, Silent, Tells, Sent
<1>3. CountSame(c, m)
  <2>1. CASE m = x
    BY <1>0, <2>1 DEF CountSame, NoCounts, Counts, MarkKinds
  <2>2. CASE m # x
    <3>1. {v \in Users : <<m, v>> \in reacts'} = {v \in Users : <<m, v>> \in reacts}
      BY <1>1, <2>2 DEF Reacted
    <3>2. Count(m)' = Count(m)
      BY <3>1 DEF Count
    <3> QED
      BY <1>0, <3>2 DEF CountSame, NoCounts, Counts
  <2> QED
    BY <2>1, <2>2
<1>4. OwnSame(c, m)
  <2>1. CASE m = x /\ c = u
    BY <1>0, <2>1 DEF OwnSame, NoOwn, Own, Counts, MarkKinds
  <2>2. CASE m # x \/ c # u
    <3>1. Reacted(m, c)' <=> Reacted(m, c)
      BY <1>1, <2>2
    <3> QED
      BY <1>0, <3>1 DEF OwnSame, NoOwn, Own, Counts
  <2> QED
    BY <2>1, <2>2
<1> QED
  BY <1>2, <1>3, <1>4 DEF DuesSame

LEMMA DuesCounted ==
  ASSUME FTypes, NEW e \in pending, CountReaction(e), NEW c \in Clients, NEW m
  PROVE  DuesSame(c, m)
<1> DEFINE r == Reaction("message.reaction", e.m, e.by, e.on, Count(e.m))
<1>0. UNCHANGED <<scope, ver, reacts, inbox, missed>> /\ pending' = (pending \ {e}) \cup {r} /\ e.t = "written"
      /\ r.t = "message.reaction" /\ r.m = e.m /\ r.by = e.by
  BY DEF CountReaction, Reaction
<1> HIDE DEF r
<1>1. SameRow(m) /\ Sent' = Sent
  BY <1>0, RowSame DEF Sent
<1>2. /\ ~Tells(e, m) /\ (Counts(e, m) => Counts(r, m)) /\ (Own(c, e, m) => Own(c, r, m)) /\ r \in pending'
  BY <1>0 DEF Tells, TextKinds, Counts, MarkKinds, Own
<1>3. TextSame(c, m)
  BY <1>0, <1>1, <1>2 DEF TextSame, TextDue, Silent, Tells
<1>4. CountSame(c, m)
  BY <1>0, <1>1, <1>2 DEF CountSame, NoCounts, Counts, SameRow
<1>5. OwnSame(c, m)
  BY <1>0, <1>1, <1>2 DEF OwnSame, NoOwn, Own, Counts, SameRow
<1> QED
  BY <1>3, <1>4, <1>5 DEF DuesSame

LEMMA DuesServed ==
  ASSUME CTypes, FeedGood, ServerStep, NEW c \in Clients, NEW m \in Messages
  PROVE  DuesSame(c, m)
<1> USE DEF CTypes
<1>1. CASE \E x \in Messages : Writes(x)
  BY <1>1, DuesWritten
<1>2. CASE \E x \in Messages : \E u \in Users, on \in BOOLEAN : React(x, u, on)
  BY <1>2, DuesReacted
<1>3. CASE \E e \in pending : CountReaction(e)
  BY <1>3, DuesCounted
<1>4. CASE \E e \in pending : Announce(e)
  BY <1>4, DuesAnnounced
<1>5. CASE \E d \in Channels : \E u \in Users : CreateChannel(d, u)
  <2>1. UNCHANGED <<ver, reacts, inbox, missed>> /\ pending \subseteq pending'
    BY <1>5 DEF CreateChannel
  <2> QED
    BY <2>1, RowSame, DuesQuiet DEF Sent
<1>6. CASE \E u \in Clients : Leave(u)
  BY <1>6, DuesLeft
<1>7. CASE \E u \in Clients : Join(u)
  <2>1. UNCHANGED <<ver, reacts, inbox, missed, pending>>
    BY <1>7 DEF Join
  <2> QED
    BY <2>1, RowSame, DuesQuiet DEF Sent
<1> QED
  BY <1>1, <1>2, <1>3, <1>4, <1>5, <1>6, <1>7 DEF ServerStep

\* The conjuncts of WebCaught, message by message.
TextCaught(m)  == TextDue(Web, m) /\ ~Paged(m) => shown.server[m] = ver[m]
CountCaught(m) == MarksOf(m) \notin missed[Web] /\ NoCounts(Web, m) /\ ~Tally(m) => marks[m].n = Count(m)
OwnCaught(m)   == MarksOf(m) \notin missed[Web] /\ NoOwn(Web, m) /\ ~Tally(m) => (marks[m].on <=> Reacted(m, Web))
Caught(m)      == TextCaught(m) /\ CountCaught(m) /\ OwnCaught(m)

LEMMA WebCaughtIs == WebCaught <=> \A m \in Messages \ tangled : Caught(m)
  BY DEF WebCaught, Caught, TextCaught, CountCaught, OwnCaught, TextDue, NoCounts, NoOwn, MarksOf

\* Whatever is due was due before, and what is shown is what was.
LEMMA CaughtSame ==
  ASSUME NEW m, Caught(m), DuesSame(Web, m), Paged(m) => Paged(m)', Tally(m) => Tally(m)',
         shown'.server[m] = shown.server[m], marks'[m] = marks[m]
  PROVE  Caught(m)'
<1>1. TextCaught(m)'
  BY DEF Caught, TextCaught, DuesSame, TextSame
<1>2. CountCaught(m)'
  BY DEF Caught, CountCaught, DuesSame, CountSame, MarksOf
<1>3. OwnCaught(m)'
  BY DEF Caught, OwnCaught, DuesSame, OwnSame, MarksOf
<1> QED
  BY <1>1, <1>2, <1>3 DEF Caught

LEMMA CaughtServer ==
  ASSUME CTypes, FeedGood, ServerStep, UNCHANGED webVars, NEW m \in Messages, Caught(m)
  PROVE  Caught(m)'
<1>1. answers[Web] \subseteq answers'[Web]
  <2>1. CASE \E e \in pending : Announce(e)
    BY <2>1, WhoIs DEF Announce, CTypes, FTypes
  <2>2. CASE ~\E e \in pending : Announce(e)
    <3>1. answers' = answers
      BY <2>2 DEF ServerStep, Writes, Send, Edit, Delete, Forward, React, CountReaction, CreateChannel, Leave, Join
    <3> QED
      BY <3>1
  <2> QED
    BY <2>1, <2>2
<1>2. (Paged(m) => Paged(m)') /\ (Tally(m) => Tally(m)')
  BY <1>1 DEF Paged, Tally
<1>3. DuesSame(Web, m) /\ UNCHANGED <<shown, marks>>
  BY DuesServed, WhoIs DEF webVars
<1> QED
  BY <1>2, <1>3, CaughtSame

\* A client takes the first event of its queue.
LEMMA DuesTaken ==
  ASSUME FTypes, NEW c \in Clients, inbox[c] # <<>>, inbox' = [inbox EXCEPT ![c] = Tail(@)],
         UNCHANGED <<ver, reacts, pending, missed>>, NEW m
  PROVE  /\ ~Tells(Head(inbox[c]), m) => TextSame(c, m)
         /\ ~Counts(Head(inbox[c]), m) => CountSame(c, m) /\ OwnSame(c, m)
         /\ ~Own(c, Head(inbox[c]), m) => OwnSame(c, m)
<1> DEFINE h == Head(inbox[c])
<1>0. SameRow(m) /\ Sent' = Sent
  BY RowSame DEF Sent
<1>1. \A i \in DOMAIN inbox[c] : inbox[c][i] = h \/ \E j \in DOMAIN inbox'[c] : inbox'[c][j] = inbox[c][i]
  BY TakeIs
<1> HIDE DEF h
<1>2. \A f : /\ Tells(f, m)' = Tells(f, m) /\ Counts(f, m)' = Counts(f, m) /\ Own(c, f, m)' = Own(c, f, m)
             /\ Own(c, f, m) => Counts(f, m)
  BY DEF Tells, Counts, Own
<1>3. ~Tells(h, m) => TextSame(c, m)
  <2>1. ~Tells(h, m) /\ Silent(c, m)' => Silent(c, m)
    BY <1>1 DEF Silent, Tells
  <2> QED
    BY <1>0, <2>1 DEF TextSame, TextDue
<1>4. ~Counts(h, m) => CountSame(c, m)
  <2>1. ~Counts(h, m) /\ NoCounts(c, m)' => NoCounts(c, m)
    BY <1>1 DEF NoCounts, Counts
  <2> QED
    BY <1>0, <2>1 DEF CountSame, SameRow
<1>5. ~Own(c, h, m) => OwnSame(c, m)
  <2>1. ~Own(c, h, m) /\ NoOwn(c, m)' => NoOwn(c, m)
    BY <1>1 DEF NoOwn, Own, Counts
  <2> QED
    BY <1>0, <2>1 DEF OwnSame, SameRow
<1> QED
  BY <1>2, <1>3, <1>4, <1>5 DEF h

\* When nothing is left behind it, it tells what the message is.
LEMMA LastTaken ==
  ASSUME FTypes, NEW c \in Clients, inbox[c] # <<>>, inbox' = [inbox EXCEPT ![c] = Tail(@)], pending' = pending,
         NEW m, Queued(c, m), Tallied(c, m)
  PROVE  /\ Tells(Head(inbox[c]), m) /\ Silent(c, m)' => Head(inbox[c]).v = ver[m]
         /\ Counts(Head(inbox[c]), m) /\ NoCounts(c, m)' => Head(inbox[c]).n = Count(m)
         /\ Counts(Head(inbox[c]), m) /\ NoOwn(c, m)' =>
              /\ Own(c, Head(inbox[c]), m) => (Head(inbox[c]).on <=> Reacted(m, c))
              /\ Head(inbox[c]).n = 0 => ~Reacted(m, c)
<1> DEFINE h == Head(inbox[c])
<1>1. /\ 1 \in DOMAIN inbox[c] /\ inbox[c][1] = h
      /\ \A i \in DOMAIN inbox[c] : i = 1 \/ \E j \in DOMAIN inbox'[c] : inbox'[c][j] = inbox[c][i]
  BY TakeIs
<1> HIDE DEF h
<1>2. ASSUME Tells(h, m), Silent(c, m)' PROVE h.v = ver[m]
  <2>1. \A e \in pending : ~Tells(e, m)
    BY <1>2 DEF Silent, Tells
  <2>2. \A i \in DOMAIN inbox[c] : Tells(inbox[c][i], m) => i = 1
    BY <1>1, <1>2 DEF Silent, Tells
  <2>3. \A i \in DOMAIN inbox[c] : Tells(inbox[c][i], m) => i <= 1
    BY <2>2
  <2> QED
    BY <1>1, <1>2, <2>1, <2>3 DEF Queued
<1>3. ASSUME Counts(h, m), NoCounts(c, m)' PROVE h.n = Count(m)
  <2>1. \A e \in pending : ~Counts(e, m)
    BY <1>3 DEF NoCounts, Counts
  <2>2. \A i \in DOMAIN inbox[c] : Counts(inbox[c][i], m) => i = 1
    BY <1>1, <1>3 DEF NoCounts, Counts
  <2>3. \A i \in DOMAIN inbox[c] : Counts(inbox[c][i], m) => i <= 1
    BY <2>2
  <2> QED
    BY <1>1, <1>3, <2>1, <2>3 DEF Tallied
<1>4. ASSUME Counts(h, m), NoOwn(c, m)' PROVE (Own(c, h, m) => (h.on <=> Reacted(m, c))) /\ (h.n = 0 => ~Reacted(m, c))
  <2>1. \A e \in pending : ~Own(c, e, m)
    BY <1>4 DEF NoOwn, Own, Counts
  <2>2. \A i \in DOMAIN inbox[c] : Own(c, inbox[c][i], m) => i = 1
    BY <1>1, <1>4 DEF NoOwn, Own, Counts
  <2>3. \A i \in DOMAIN inbox[c] : Own(c, inbox[c][i], m) => i <= 1
    BY <2>2
  <2> QED
    BY <1>1, <1>4, <2>1, <2>3 DEF Tallied
<1> QED
  BY <1>2, <1>3, <1>4 DEF h

LEMMA CaughtEvent ==
  ASSUME CTypes, Versions, InOrder, OnCreated \/ OnRewritten \/ OnReaction \/ OnChannel,
         NEW m \in Messages, m \notin tangled, Caught(m)
  PROVE  Caught(m)'
<1> USE DEF CTypes
<1>0. /\ FTypes /\ WTypes /\ Web \in Clients /\ Queued(Web, m) /\ Tallied(Web, m)
      /\ inbox[Web] # <<>> /\ UNCHANGED <<scope, ver, reacts, pending, tangled, missed, answers>>
      /\ inbox' = [inbox EXCEPT ![Web] = Tail(@)]
  BY WhoIs DEF InOrder, OnCreated, OnRewritten, OnReaction, OnChannel, Heard, TakeEvent
<1>1. (Paged(m) => Paged(m)') /\ (Tally(m) => Tally(m)')
  BY <1>0 DEF Paged, Tally
<1>2. Head1 \in Event /\ Good(Head1) /\ Head1 = Head(inbox[Web])
  <2>1. \E e \in Event : e = inbox[Web][1] /\ Good(e)
    BY <1>0, InboxGood, HeadIs, VersionsAre
  <2> QED
    BY <1>0, <2>1, HeadIs DEF Head1
<1>3. CASE OnChannel
  <2>1. ~Tells(Head1, m) /\ ~Counts(Head1, m) /\ UNCHANGED <<shown, marks>>
    BY <1>3 DEF OnChannel, Heard, Tells, TextKinds, Counts, MarkKinds
  <2>2. DuesSame(Web, m)
    BY <1>0, <1>2, <2>1, DuesTaken DEF DuesSame
  <2> QED
    BY <1>1, <2>1, <2>2, CaughtSame
<1>4. CASE OnCreated \/ OnRewritten
  <2>1. /\ Head1.t \in TextKinds /\ Head1.m \in Messages /\ marks' = marks /\ ~Counts(Head1, m)
        /\ Tells(Head1, m) <=> Head1.m = m
    BY <1>2, <1>4, EventsAre DEF OnCreated, OnRewritten, Heard, Tells, TextKinds, Counts, MarkKinds
  <2>2. \/ shown'.server[Head1.m] = Head1.v
        \/ Head1.t = "message.created" /\ shown' = shown /\ shown.server[Head1.m] # 0
    <3>1. CASE Upsert(Head1.m, Head1.v)
      BY <1>0, <2>1, <3>1 DEF Upsert, WTypes
    <3>2. CASE Replace(Head1.m)
      BY <1>0, <2>1, <3>2 DEF Replace, WTypes
    <3> QED
      BY <1>4, <3>1, <3>2 DEF OnCreated, OnRewritten, Heard
  <2>3. m # Head1.m => shown'.server[m] = shown.server[m]
    <3>1. CASE shown' = shown
      BY <3>1
    <3>2. CASE Upsert(Head1.m, Head1.v)
      BY <1>0, <2>1, <3>2 DEF Upsert, WTypes
    <3>3. CASE Replace(Head1.m)
      BY <1>0, <2>1, <3>3 DEF Replace, WTypes
    <3> QED
      BY <1>4, <3>1, <3>2, <3>3 DEF OnCreated, OnRewritten
  <2>4. CountSame(Web, m) /\ OwnSame(Web, m)
    BY <1>0, <1>2, <2>1, DuesTaken
  <2>5. CASE Head1.m # m
    <3>1. DuesSame(Web, m)
      BY <1>0, <1>2, <2>1, <2>4, <2>5, DuesTaken DEF DuesSame
    <3> QED
      BY <1>1, <2>1, <2>3, <2>5, <3>1, CaughtSame
  <2>6. CASE Head1.m = m
    <3>1. TextDue(Web, m)' => Head1.v = ver[m]
      BY <1>0, <1>2, <2>1, <2>6, LastTaken DEF TextDue
    <3>2. TextDue(Web, m)' => shown'.server[m] = ver[m]
      <4>1. shown.server[m] <= ver[m] /\ shown.server[m] \in Nat /\ ver[m] \in Nat
        BY <1>0, VerIs, WhoIs DEF Versions, WTypes
      <4>2. Head1.t = "message.created" => Head1.v = 1
        BY <1>2, <2>1 DEF Good
      <4> QED
        BY <2>2, <2>6, <3>1, <4>1, <4>2
    <3>3. TextCaught(m)'
      BY <1>0, <3>2 DEF TextCaught
    <3>4. CountCaught(m)'
      BY <1>1, <2>1, <2>4 DEF Caught, CountCaught, CountSame, MarksOf
    <3>5. OwnCaught(m)'
      BY <1>1, <2>1, <2>4 DEF Caught, OwnCaught, OwnSame, MarksOf
    <3> QED
      BY <3>3, <3>4, <3>5 DEF Caught
  <2> QED
    BY <2>5, <2>6
<1>5. CASE OnReaction
  <2> DEFINE on == IF Head1.by = Web THEN Head1.on ELSE marks[Head1.m].on
  <2>1. /\ Head1.t = "message.reaction" /\ Head1.m \in Messages /\ shown' = shown /\ ~Tells(Head1, m)
        /\ Counts(Head1, m) <=> Head1.m = m
        /\ marks' = [marks EXCEPT ![Head1.m] = IF Head1.n = 0 THEN NoMark ELSE [n |-> Head1.n, on |-> on]]
    BY <1>2, <1>5, EventsAre DEF OnReaction, Heard, Tells, TextKinds, Counts, MarkKinds, SetReaction
  <2>2. TextSame(Web, m)
    BY <1>0, <1>2, <2>1, DuesTaken
  <2>3. CASE Head1.m # m
    <3>1. DuesSame(Web, m) /\ marks'[m] = marks[m]
      BY <1>0, <1>2, <2>1, <2>2, <2>3, DuesTaken DEF DuesSame, WTypes
    <3> QED
      BY <1>1, <2>1, <3>1, CaughtSame
  <2>4. CASE Head1.m = m
    <3>1. marks'[m] = IF Head1.n = 0 THEN NoMark ELSE [n |-> Head1.n, on |-> on]
      BY <1>0, <2>1, <2>4 DEF WTypes
    <3>2. /\ marks'[m].n = Head1.n /\ (Head1.n = 0 => marks'[m].on = FALSE)
          /\ Head1.n # 0 /\ Head1.by = Web => marks'[m].on = Head1.on
          /\ Head1.n # 0 /\ Head1.by # Web => marks'[m].on = marks[m].on
      <4>1. CASE Head1.n = 0
        BY <3>1, <4>1 DEF NoMark
      <4>2. CASE Head1.n # 0
        BY <2>4, <3>1, <4>2
      <4> QED
        BY <4>1, <4>2
    <3>3. Count(m)' = Count(m) /\ (Reacted(m, Web)' <=> Reacted(m, Web)) /\ missed' = missed
      BY <1>0 DEF Count, Reacted
    <3>4. TextCaught(m)'
      BY <1>1, <2>1, <2>2 DEF Caught, TextCaught, TextSame
    <3>5. CountCaught(m)'
      <4>1. NoCounts(Web, m)' => Head1.n = Count(m)
        BY <1>0, <1>2, <2>1, <2>4, LastTaken
      <4> QED
        BY <3>2, <3>3, <4>1 DEF CountCaught
    <3>6. OwnCaught(m)'
      <4> SUFFICES ASSUME MarksOf(m) \notin missed'[Web], NoOwn(Web, m)', ~Tally(m)'
                   PROVE  marks'[m].on <=> Reacted(m, Web)
        BY <3>3 DEF OwnCaught, MarksOf
      <4>1. Counts(Head1, m)
        BY <2>1, <2>4
      <4>2. (Own(Web, Head1, m) => (Head1.on <=> Reacted(m, Web))) /\ (Head1.n = 0 => ~Reacted(m, Web))
        BY <1>0, <1>2, <4>1, LastTaken
      <4>3. CASE Head1.n = 0
        BY <3>2, <4>2, <4>3
      <4>4. CASE Head1.n # 0 /\ Head1.by = Web
        <5>1. Own(Web, Head1, m)
          BY <4>1, <4>4 DEF Own
        <5> QED
          BY <3>2, <4>2, <4>4, <5>1
      <4>5. CASE Head1.n # 0 /\ Head1.by # Web
        <5>1. ~Own(Web, Head1, m)
          BY <4>5 DEF Own
        <5>2. OwnSame(Web, m)
          BY <1>0, <1>2, <5>1, DuesTaken
        <5>3. marks[m].on <=> Reacted(m, Web)
          BY <1>1, <5>2 DEF Caught, OwnCaught, OwnSame
        <5> QED
          BY <3>2, <4>5, <5>3
      <4> QED
        BY <4>3, <4>4, <4>5
    <3> QED
      BY <3>4, <3>5, <3>6 DEF Caught
  <2> QED
    BY <2>3, <2>4
<1> QED
  BY <1>3, <1>4, <1>5

\* An answer is taken, and no event.
LEMMA DuesStill ==
  ASSUME UNCHANGED <<ver, reacts, pending, inbox, missed>>, NEW c \in Clients, NEW m
  PROVE  DuesSame(c, m)
  BY RowSame, DuesQuiet DEF Sent

LEMMA CaughtTakes ==
  ASSUME CTypes, InOrder, NEW a \in answers[Web], WebTakes(a), NEW m \in Messages, m \notin tangled, Caught(m)
  PROVE  Caught(m)'
<1> USE DEF CTypes
<1>0. /\ FTypes /\ WTypes /\ Web \in Clients /\ Answers(Web, m, a) /\ TakeAnswer(a)
      /\ UNCHANGED <<scope, ver, reacts, pending, tangled, missed, inbox>>
      /\ answers'[Web] = answers[Web] \ {a}
  BY WhoIs, CurrentIs DEF InOrder, WebTakes, OnRewriteAnswer, OnReactionAnswer, OnForwardAnswer, OnCreateAnswer, TakeAnswer,
                          FTypes
<1>1. DuesSame(Web, m)
  BY <1>0, DuesStill
<1>2. a.t # "messages" /\ a.t # "reactions"
  BY DEF WebTakes, OnRewriteAnswer, OnReactionAnswer, OnForwardAnswer, OnCreateAnswer
<1>3. (Paged(m) => Paged(m)') /\ (Tally(m) => Tally(m)')
  BY <1>0, <1>2 DEF Paged, Tally
<1>4. Count(m)' = Count(m) /\ (Reacted(m, Web)' <=> Reacted(m, Web))
  BY <1>0 DEF Count, Reacted
<1>5. CASE OnCreateAnswer(a)
  BY <1>1, <1>3, <1>5, CaughtSame DEF OnCreateAnswer
<1>6. CASE OnRewriteAnswer(a) \/ OnForwardAnswer(a)
  <2>1. Upsert(a.m, a.v) /\ marks' = marks /\ a.t \in TextKinds /\ a.m \in Messages
    BY <1>0, <1>6, AnswerIs DEF OnRewriteAnswer, OnForwardAnswer, TextKinds
  <2>2. \A x \in Messages : shown'.server[x] = IF x = a.m THEN a.v ELSE shown.server[x]
    BY <1>0, <2>1 DEF Upsert, WTypes
  <2>3. CASE m # a.m
    BY <1>1, <1>3, <2>1, <2>2, <2>3, CaughtSame
  <2>4. CASE m = a.m
    <3>1. shown'.server[m] = ver[m]
      BY <1>0, <2>1, <2>2, <2>4 DEF Answers, Tells
    <3>2. TextCaught(m)'
      BY <1>0, <3>1 DEF TextCaught
    <3>3. CountCaught(m)' /\ OwnCaught(m)'
      BY <1>1, <1>3, <2>1 DEF Caught, CountCaught, OwnCaught, DuesSame, CountSame, OwnSame, MarksOf
    <3> QED
      BY <3>2, <3>3 DEF Caught
  <2> QED
    BY <2>3, <2>4
<1>7. CASE OnReactionAnswer(a)
  <2>1. SetReaction(a.m, a.n, a.on) /\ shown' = shown /\ a.t = "message.reaction" /\ a.m \in Messages
    BY <1>0, <1>7, AnswerIs DEF OnReactionAnswer
  <2>2. \A x \in Messages : marks'[x] = IF x = a.m THEN IF a.n = 0 THEN NoMark ELSE [n |-> a.n, on |-> a.on] ELSE marks[x]
    BY <1>0, <2>1 DEF SetReaction, WTypes
  <2>3. CASE m # a.m
    BY <1>1, <1>3, <2>1, <2>2, <2>3, CaughtSame
  <2>4. CASE m = a.m
    <3>1. a.n = Count(m) /\ (a.on <=> Reacted(m, Web))
      BY <1>0, <2>1, <2>4 DEF Answers, Counts, MarkKinds
    <3>2. a.n = 0 => ~Reacted(m, Web)
      BY <3>1, CountZero, WhoIs
    <3>3. marks'[m].n = Count(m) /\ (marks'[m].on <=> Reacted(m, Web))
      <4>1. CASE a.n = 0
        BY <2>2, <2>4, <3>1, <3>2, <4>1 DEF NoMark
      <4>2. CASE a.n # 0
        <5>1. marks'[m] = [n |-> a.n, on |-> a.on]
          BY <2>2, <2>4, <4>2
        <5> QED
          BY <3>1, <5>1
      <4> QED
        BY <4>1, <4>2
    <3>4. TextCaught(m)'
      BY <1>1, <1>3, <2>1 DEF Caught, TextCaught, DuesSame, TextSame
    <3> QED
      BY <1>4, <3>3, <3>4 DEF Caught, CountCaught, OwnCaught
  <2> QED
    BY <2>3, <2>4
<1> QED
  BY <1>5, <1>6, <1>7 DEF WebTakes

LEMMA CaughtApplies ==
  ASSUME CTypes, InOrder, NEW a \in answers[Web], WebApplies(a), NEW m \in Messages, m \notin tangled, Caught(m)
  PROVE  Caught(m)'
<1> USE DEF CTypes
<1>0. /\ FTypes /\ WTypes /\ Web \in Clients /\ Answers(Web, m, a) /\ TakeAnswer(a)
      /\ UNCHANGED <<scope, ver, reacts, pending, tangled, missed, inbox>>
      /\ answers'[Web] = answers[Web] \ {a}
  BY WhoIs, CurrentIs DEF InOrder, WebApplies, ApplyChannels, ApplyUnread, ApplyMessages, ApplyReactions, Applying, TakeAnswer,
                          FTypes
<1>1. DuesSame(Web, m)
  BY <1>0, DuesStill
<1>2. Count(m)' = Count(m) /\ (Reacted(m, Web)' <=> Reacted(m, Web))
  BY <1>0 DEF Count, Reacted
<1>3. CASE ApplyChannels(a) \/ ApplyUnread(a)
  <2>1. UNCHANGED <<shown, marks>> /\ a.t # "messages" /\ a.t # "reactions"
    BY <1>3 DEF ApplyChannels, ApplyUnread
  <2>2. (Paged(m) => Paged(m)') /\ (Tally(m) => Tally(m)')
    BY <1>0, <2>1 DEF Paged, Tally
  <2> QED
    BY <1>1, <2>1, <2>2, CaughtSame
<1>4. CASE ApplyMessages(a)
  <2>1. /\ a.t = "messages" /\ marks' = marks
        /\ shown' = [shown EXCEPT !.server = [x \in Messages |-> IF x \in DOMAIN a.rows THEN a.rows[x] ELSE @[x]]]
    BY <1>4 DEF ApplyMessages
  <2>2. shown'.server[m] = IF m \in DOMAIN a.rows THEN a.rows[m] ELSE shown.server[m]
    BY <1>0, <2>1 DEF WTypes
  <2>3. Tally(m) => Tally(m)'
    BY <1>0, <2>1 DEF Tally
  <2>4. CASE m \notin DOMAIN a.rows
    <3>1. Paged(m) => Paged(m)'
      BY <1>0, <2>4 DEF Paged
    <3> QED
      BY <1>1, <2>1, <2>2, <2>3, <2>4, <3>1, CaughtSame
  <2>5. CASE m \in DOMAIN a.rows
    <3>1. shown'.server[m] = ver[m]
      BY <1>0, <2>1, <2>2, <2>5 DEF Answers
    <3>2. TextCaught(m)'
      BY <1>0, <3>1 DEF TextCaught
    <3>3. CountCaught(m)' /\ OwnCaught(m)'
      BY <1>1, <2>1, <2>3 DEF Caught, CountCaught, OwnCaught, DuesSame, CountSame, OwnSame, MarksOf
    <3> QED
      BY <3>2, <3>3 DEF Caught
  <2> QED
    BY <2>4, <2>5
<1>5. CASE ApplyReactions(a)
  <2>1. /\ a.t = "reactions" /\ shown' = shown
        /\ marks' = [x \in Messages |-> IF x \in DOMAIN a.rows THEN a.rows[x] ELSE marks[x]]
    BY <1>5 DEF ApplyReactions
  <2>2. Paged(m) => Paged(m)'
    BY <1>0, <2>1 DEF Paged
  <2>3. CASE m \notin DOMAIN a.rows
    <3>1. Tally(m) => Tally(m)'
      BY <1>0, <2>3 DEF Tally
    <3> QED
      BY <1>1, <2>1, <2>2, <2>3, <3>1, CaughtSame
  <2>4. CASE m \in DOMAIN a.rows
    <3>1. marks'[m].n = Count(m) /\ (marks'[m].on <=> Reacted(m, Web))
      BY <1>0, <2>1, <2>4 DEF Answers
    <3>2. TextCaught(m)'
      BY <1>1, <2>1, <2>2 DEF Caught, TextCaught, DuesSame, TextSame
    <3> QED
      BY <1>2, <3>1, <3>2 DEF Caught, CountCaught, OwnCaught
  <2> QED
    BY <2>3, <2>4
<1> QED
  BY <1>3, <1>4, <1>5 DEF WebApplies

\* A read covers what it answers, and nothing else is told by it.
LEMMA CaughtServes ==
  ASSUME CTypes, ServeChannels \/ ServeUnread \/ ServeMessages \/ ServeReactions, NEW m \in Messages, Caught(m)
  PROVE  Caught(m)'
<1> USE DEF CTypes
<1>0. Web \in Clients /\ FTypes
  BY WhoIs
<1>1. PICK a, told : /\ Serve(a, told)
                     /\ m \in told => a.t = "messages" /\ m \in DOMAIN a.rows
                     /\ MarksOf(m) \in told => a.t = "reactions" /\ m \in DOMAIN a.rows
  <2>1. m \notin Channels /\ MarksOf(m) \notin Channels /\ MarksOf(m) \notin Messages /\ \A x : m # MarksOf(x) \/ x \notin Messages
    BY FeedAssumption DEF MarksOf
  <2>2. CASE ServeChannels
    BY <1>0, <2>1, <2>2 DEF ServeChannels, FTypes
  <2>3. CASE ServeUnread
    BY <2>3 DEF ServeUnread
  <2>4. CASE ServeMessages
    <3>1. PageOf(Turn) \subseteq Messages
      BY PageIs DEF Sent
    <3>2. DOMAIN Rows(PageOf(Turn)) = PageOf(Turn)
      BY DEF Rows
    <3> QED
      BY <2>1, <2>4, <3>1, <3>2 DEF ServeMessages
  <2>5. CASE ServeReactions
    <3> DEFINE r == [t |-> "reactions", rows |-> [x \in Marked |-> [n |-> Count(x), on |-> <<x, Web>> \in reacts]]]
    <3>1. r.t = "reactions" /\ DOMAIN r.rows = Marked
      OBVIOUS
    <3>2. Serve(r, Marked \X {"marks"})
      BY <2>5 DEF ServeReactions
    <3>3. m \notin Marked \X {"marks"}
      <4>1. Marked \subseteq Messages
        BY DEF Marked
      <4> QED
        BY <4>1, FeedAssumption
    <3>4. MarksOf(m) \in Marked \X {"marks"} => m \in Marked
      BY DEF MarksOf
    <3> HIDE DEF r
    <3> QED
      BY <3>1, <3>2, <3>3, <3>4
  <2> QED
    BY <2>2, <2>3, <2>4, <2>5
<1>2. /\ UNCHANGED <<ver, reacts, pending, inbox, shown, marks>>
      /\ answers'[Web] = answers[Web] \cup {a} /\ missed'[Web] = missed[Web] \ told
  BY <1>0, <1>1 DEF Serve, webVars, FTypes
<1>3. (Paged(m) => Paged(m)') /\ (Tally(m) => Tally(m)')
  BY <1>2 DEF Paged, Tally
<1>4. (m \in told => Paged(m)') /\ (MarksOf(m) \in told => Tally(m)')
  BY <1>1, <1>2 DEF Paged, Tally
<1>5. (Silent(Web, m)' => Silent(Web, m)) /\ (NoCounts(Web, m)' => NoCounts(Web, m)) /\ (NoOwn(Web, m)' => NoOwn(Web, m))
  BY <1>2 DEF Silent, Tells, NoCounts, Counts, NoOwn, Own
<1>6. Count(m)' = Count(m) /\ (Reacted(m, Web)' <=> Reacted(m, Web)) /\ Sent' = Sent
  BY <1>2 DEF Count, Reacted, Sent
<1>7. TextCaught(m)'
  <2>1. TextDue(Web, m)' /\ ~Paged(m)' => TextDue(Web, m) /\ ~Paged(m)
    BY <1>2, <1>3, <1>4, <1>5, <1>6 DEF TextDue
  <2> QED
    BY <1>2, <2>1 DEF Caught, TextCaught
<1>8. CountCaught(m)'
  <2>1. MarksOf(m) \notin missed'[Web] /\ ~Tally(m)' => MarksOf(m) \notin missed[Web] /\ ~Tally(m)
    BY <1>2, <1>3, <1>4
  <2> QED
    BY <1>2, <1>5, <1>6, <2>1 DEF Caught, CountCaught, MarksOf
<1>9. OwnCaught(m)'
  <2>1. MarksOf(m) \notin missed'[Web] /\ ~Tally(m)' => MarksOf(m) \notin missed[Web] /\ ~Tally(m)
    BY <1>2, <1>3, <1>4
  <2> QED
    BY <1>2, <1>5, <1>6, <2>1 DEF Caught, OwnCaught, MarksOf
<1> QED
  BY <1>7, <1>8, <1>9 DEF Caught

LEMMA CaughtWeb ==
  ASSUME CTypes, Versions, InOrder, WebStep, NEW m \in Messages, m \notin tangled, Caught(m)
  PROVE  Caught(m)'
<1>0. Web \in Clients /\ WTypes /\ FTypes
  BY WhoIs DEF CTypes
<1>1. CASE OnCreated \/ OnRewritten \/ OnReaction \/ OnChannel
  BY <1>1, CaughtEvent
<1>2. CASE \E a \in answers[Web] : WebTakes(a)
  BY <1>2, CaughtTakes
<1>3. CASE \E a \in answers[Web] : WebApplies(a)
  BY <1>3, CaughtApplies
<1>4. CASE ServeChannels \/ ServeUnread \/ ServeMessages \/ ServeReactions
  BY <1>4, CaughtServes
<1>5. CASE \/ \E x \in Messages : SendCopy(x) \/ OnCopy(x) \/ Visible(x)
           \/ \E c \in Channels : Create(c) \/ SelectChannel(c)
           \/ Start
  <2>1. UNCHANGED <<ver, reacts, inbox, missed, answers, marks>> /\ pending \subseteq pending'
    BY <1>5 DEF SendCopy, OnCopy, Visible, AckRead, Create, CreateChannel, SelectChannel, Start, feedVars
  <2>2. shown'.server[m] = shown.server[m]
    BY <1>0, <1>5 DEF SendCopy, OnCopy, Visible, Create, SelectChannel, Start, WTypes
  <2>3. DuesSame(Web, m)
    BY <1>0, <2>1, RowSame, DuesQuiet DEF Sent
  <2>4. (Paged(m) => Paged(m)') /\ (Tally(m) => Tally(m)')
    BY <2>1 DEF Paged, Tally
  <2> QED
    BY <2>1, <2>2, <2>3, <2>4, CaughtSame
<1> QED
  BY <1>1, <1>2, <1>3, <1>4, <1>5 DEF WebStep, WebTakes, WebApplies

LEMMA CaughtTui ==
  ASSUME CTypes, TuiStep, UNCHANGED webVars, NEW m \in Messages, Caught(m)
  PROVE  Caught(m)'
<1>0. FTypes /\ Web \in Clients /\ Tui \in Clients /\ Web # Tui /\ UNCHANGED <<shown, marks>>
  BY WhoIs DEF CTypes, webVars
<1>1. UNCHANGED <<ver, reacts, pending>>
  BY DEF TuiStep, TuiMessage, TuiChannel, TuiServe, TuiRewriteAnswer, TuiCreateAnswer, TuiLoaded, Entered, Enter,
         TuiEvent, TuiAnswer
<1>2. /\ inbox' = inbox \/ inbox' = [inbox EXCEPT ![Tui] = Tail(@)]
      /\ answers' = answers \/ \E x : answers' = [answers EXCEPT ![Tui] = x]
      /\ missed' = missed \/ \E x : missed' = [missed EXCEPT ![Tui] = x]
  BY DEF TuiStep, TuiMessage, TuiChannel, TuiServe, TuiRewriteAnswer, TuiCreateAnswer, TuiLoaded, Entered, Enter,
         TuiEvent, TuiAnswer
<1>3. inbox'[Web] = inbox[Web] /\ answers'[Web] = answers[Web] /\ missed'[Web] = missed[Web]
  BY <1>0, <1>2 DEF FTypes
<1>4. DuesSame(Web, m)
  BY <1>0, <1>1, <1>3, RowSame, DuesQuiet DEF Sent
<1>5. (Paged(m) => Paged(m)') /\ (Tally(m) => Tally(m)')
  BY <1>3 DEF Paged, Tally
<1> QED
  BY <1>0, <1>4, <1>5, CaughtSame

LEMMA TangledGrows == [Next]_vars /\ FTypes => tangled \subseteq tangled'
<1> SUFFICES ASSUME [Next]_vars, FTypes PROVE tangled \subseteq tangled'
  OBVIOUS
<1>1. ServerStep => tangled \subseteq tangled'
  BY DEF ServerStep, Writes, Send, Edit, Delete, Forward, React, CountReaction, CreateChannel, Announce, Leave, Join, Tangles
<1>2. WebStep => tangled' = tangled
  BY DEF WebStep, OnCreated, OnRewritten, OnReaction, OnChannel, TakeEvent, SendCopy, OnCopy, Visible, AckRead, OnRewriteAnswer,
         OnReactionAnswer, OnForwardAnswer, OnCreateAnswer, ApplyChannels, ApplyUnread, ApplyMessages, ApplyReactions,
         Applying, TakeAnswer, Create, CreateChannel, SelectChannel, Start, ServeChannels, ServeUnread, ServeMessages,
         ServeReactions, Serve, feedVars
<1>3. TuiStep => tangled' = tangled
  BY DEF TuiStep, TuiMessage, TuiChannel, TuiServe, TuiRewriteAnswer, TuiCreateAnswer, TuiLoaded, Entered, Enter,
         TuiEvent, TuiAnswer
<1> QED
  BY <1>1, <1>2, <1>3, NextIs DEF feedVars

LEMMA WebCaughtKept == ASSUME CTypes, Versions, InOrder, WebCaught, [Next]_vars PROVE WebCaught'
<1>0. FTypes /\ FeedGood /\ Web \in Clients
  BY VersionsAre, WhoIs DEF CTypes
<1>1. ASSUME NEW m \in Messages, m \notin tangled' PROVE Caught(m)'
  <2>0. m \notin tangled /\ Caught(m)
    BY <1>0, <1>1, TangledGrows, WebCaughtIs
  <2>1. CASE ServerStep /\ UNCHANGED <<webVars, tuiVars>>
    BY <1>0, <2>0, <2>1, CaughtServer
  <2>2. CASE WebStep /\ UNCHANGED tuiVars
    BY <2>0, <2>2, CaughtWeb
  <2>3. CASE TuiStep /\ UNCHANGED webVars
    BY <2>0, <2>3, CaughtTui
  <2>4. CASE UNCHANGED <<feedVars, webVars, tuiVars>>
    <3>1. UNCHANGED <<ver, reacts, inbox, missed, answers, marks, pending, shown>>
      BY <2>4 DEF feedVars, webVars
    <3>2. DuesSame(Web, m)
      BY <1>0, <3>1, RowSame, DuesQuiet DEF Sent
    <3>3. (Paged(m) => Paged(m)') /\ (Tally(m) => Tally(m)')
      BY <3>1 DEF Paged, Tally
    <3> QED
      BY <2>0, <3>1, <3>2, <3>3, CaughtSame
  <2> QED
    BY <1>0, <2>1, <2>2, <2>3, <2>4, NextIs
<1> QED
  BY <1>1 DEF WebCaught, Caught, TextCaught, CountCaught, OwnCaught, TextDue, NoCounts, NoOwn, MarksOf

\* The conjuncts of TuiCaught, message by message.
FirstWaits(m) == (\E e \in pending : First(e, m)) \/ \E i \in DOMAIN inbox[Tui] : First(inbox[Tui][i], m)
LineCaught(m) == TextDue(Tui, m) => lines[m] = ver[m]
LineComes(m)  == m \in Sent /\ m \notin missed[Tui] /\ lines[m] = 0 => FirstWaits(m)
Lined(m)      == LineCaught(m) /\ LineComes(m)

LEMMA TuiCaughtIs == TuiCaught <=> \A m \in Messages \ tangled : Lined(m)
<1>1. Sent \subseteq Messages
  BY DEF Sent
<1> QED
  BY <1>1 DEF TuiCaught, Lined, LineCaught, LineComes, TextDue, FirstWaits

LEMMA LinedSame ==
  ASSUME NEW m, Lined(m), TextSame(Tui, m), lines'[m] = lines[m],
         m \in Sent' /\ m \notin missed'[Tui] => (m \in Sent /\ m \notin missed[Tui] /\ (FirstWaits(m) => FirstWaits(m)')) \/ FirstWaits(m)'
  PROVE  Lined(m)'
<1>1. LineCaught(m)'
  BY DEF Lined, LineCaught, TextSame
<1>2. LineComes(m)'
  BY DEF Lined, LineComes
<1> QED
  BY <1>1, <1>2 DEF Lined

LEMMA LinedServer ==
  ASSUME CTypes, FeedGood, ServerStep, lines' = lines, NEW m \in Messages, Lined(m)
  PROVE  Lined(m)'
<1> USE DEF CTypes
<1>0. FTypes /\ Tui \in Clients /\ TextSame(Tui, m)
  BY WhoIs, DuesServed DEF DuesSame
<1>1. \A e : First(e, m)' = First(e, m)
  BY DEF First
<1>2. ASSUME m \in Sent', m \notin missed'[Tui]
      PROVE  (m \in Sent /\ m \notin missed[Tui] /\ (FirstWaits(m) => FirstWaits(m)')) \/ FirstWaits(m)'
  <2>1. ASSUME NEW x \in Messages, Send(x) \/ Forward(x)
        PROVE  (m \in Sent /\ m \notin missed[Tui] /\ (FirstWaits(m) => FirstWaits(m)')) \/ FirstWaits(m)'
    <3> DEFINE e(t) == Note(t, x, Author(x))
    <3>1. \A t : e(t).m = x /\ e(t).t = t
      BY DEF Note
    <3>2. \E t \in {"message.created", "forwarded"} : e(t) \in pending'
      BY <2>1 DEF Send, Forward
    <3>3. UNCHANGED <<inbox, missed>> /\ pending \subseteq pending' /\ (m # x => ver'[m] = ver[m])
      BY <1>0, <2>1, WriteGood DEF Send, Forward, Writes
    <3>4. m = x => FirstWaits(m)'
      BY <3>1, <3>2 DEF FirstWaits, First
    <3>5. m # x => m \in Sent /\ m \notin missed[Tui] /\ (FirstWaits(m) => FirstWaits(m)')
      BY <1>2, <3>3 DEF FirstWaits, First, Sent
    <3> QED
      BY <3>4, <3>5
  <2>2. ASSUME NEW e \in pending, Announce(e)
        PROVE  m \in Sent /\ m \notin missed[Tui] /\ (FirstWaits(m) => FirstWaits(m)')
    <3>1. /\ e \in Event /\ e.t # "written" /\ pending' = pending \ {e} /\ Sent' = Sent
          /\ missed[Tui] \subseteq missed'[Tui] /\ (~Hears(Tui, e) => Subject(e) \in missed'[Tui])
      BY <1>0, <2>2 DEF Announce, FTypes, Sent
    <3>2. /\ \A i \in DOMAIN inbox[Tui] : i \in DOMAIN inbox'[Tui] /\ inbox'[Tui][i] = inbox[Tui][i]
          /\ Hears(Tui, e) => \E j \in DOMAIN inbox'[Tui] : inbox'[Tui][j] = e
      BY <1>0, <2>2, AnnounceIs DEF Announce
    <3>3. First(e, m) => Hears(Tui, e)
      BY <1>2, <3>1, SubjectOf, KindsAre
    <3> QED
      BY <1>1, <1>2, <3>1, <3>2, <3>3 DEF FirstWaits
  <2>3. ASSUME NEW u \in Clients, Leave(u)
        PROVE  m \in Sent /\ m \notin missed[Tui] /\ (FirstWaits(m) => FirstWaits(m)')
    <3>1. pending' = pending /\ Sent' = Sent
      BY <2>3 DEF Leave, Sent
    <3>2. CASE u # Tui
      <4>1. inbox'[Tui] = inbox[Tui] /\ missed'[Tui] = missed[Tui]
        BY <1>0, <2>3, <3>2 DEF Leave, FTypes
      <4> QED
        BY <1>1, <1>2, <3>1, <4>1 DEF FirstWaits
    <3>3. CASE u = Tui
      <4>1. missed'[Tui] = missed[Tui] \cup {Subject(inbox[Tui][i]) : i \in DOMAIN inbox[Tui]}
        BY <1>0, <2>3, <3>3 DEF Leave, FTypes
      <4>2. \A i \in DOMAIN inbox[Tui] : inbox[Tui][i] \in Event /\ inbox[Tui][i].t # "written"
        BY <1>0 DEF FTypes, Passed
      <4>3. \A i \in DOMAIN inbox[Tui] : ~First(inbox[Tui][i], m)
        BY <1>2, <4>1, <4>2, SubjectOf, KindsAre
      <4> QED
        BY <1>1, <1>2, <3>1, <4>1, <4>3 DEF FirstWaits
    <3> QED
      BY <3>2, <3>3
  <2>4. ASSUME NEW x \in Messages, Edit(x) \/ Delete(x)
        PROVE  m \in Sent /\ m \notin missed[Tui] /\ (FirstWaits(m) => FirstWaits(m)')
    <3>1. UNCHANGED <<inbox, missed>> /\ pending \subseteq pending' /\ (m # x => ver'[m] = ver[m]) /\ ver[x] # 0
      BY <1>0, <2>4, WriteGood DEF Edit, Delete, Writes
    <3> QED
      BY <1>2, <3>1 DEF FirstWaits, First, Sent
  <2>5. ASSUME NEW e \in pending, CountReaction(e)
        PROVE  m \in Sent /\ m \notin missed[Tui] /\ (FirstWaits(m) => FirstWaits(m)')
    <3>1. UNCHANGED <<inbox, missed, ver>> /\ ~First(e, m) /\ pending \ {e} \subseteq pending'
      BY <2>5 DEF CountReaction, First
    <3> QED
      BY <1>1, <1>2, <3>1 DEF FirstWaits, Sent
  <2>6. CASE \/ \E x \in Messages : \E u \in Users, on \in BOOLEAN : React(x, u, on)
             \/ \E c \in Channels : \E u \in Users : CreateChannel(c, u)
             \/ \E u \in Clients : Join(u)
    <3>1. UNCHANGED <<inbox, missed, ver>> /\ pending \subseteq pending'
      BY <2>6 DEF React, CreateChannel, Join
    <3> QED
      BY <1>2, <3>1 DEF FirstWaits, First, Sent
  <2> QED
    BY <2>1, <2>2, <2>3, <2>4, <2>5, <2>6 DEF ServerStep, Writes
<1> QED
  BY <1>0, <1>2, LinedSame

\* The terminal takes its first event: what waits behind it still waits.
LEMMA FirstStill ==
  ASSUME FTypes, inbox[Tui] # <<>>, inbox' = [inbox EXCEPT ![Tui] = Tail(@)], pending' = pending, NEW m,
         ~First(Head(inbox[Tui]), m), FirstWaits(m)
  PROVE  FirstWaits(m)'
<1>1. \A i \in DOMAIN inbox[Tui] : inbox[Tui][i] = Head(inbox[Tui]) \/ \E j \in DOMAIN inbox'[Tui] : inbox'[Tui][j] = inbox[Tui][i]
  <2>1. ASSUME NEW i \in DOMAIN inbox[Tui]
        PROVE  inbox[Tui][i] = Head(inbox[Tui]) \/ \E j \in DOMAIN inbox'[Tui] : inbox'[Tui][j] = inbox[Tui][i]
    <3>1. i = 1 \/ (i - 1 \in DOMAIN inbox'[Tui] /\ inbox'[Tui][i - 1] = inbox[Tui][i])
      BY TakeIs, WhoIs
    <3>2. Head(inbox[Tui]) = inbox[Tui][1]
      BY TakeIs, WhoIs
    <3> QED
      BY <3>1, <3>2
  <2> QED
    BY <2>1
<1> QED
  BY <1>1 DEF FirstWaits, First

LEMMA LinedEvent ==
  ASSUME CTypes, Versions, InOrder, TuiMessage \/ TuiChannel, NEW m \in Messages, m \notin tangled, Lined(m)
  PROVE  Lined(m)'
<1> USE DEF CTypes
<1>0. /\ FTypes /\ TTypes /\ Tui \in Clients /\ Queued(Tui, m) /\ Tallied(Tui, m)
      /\ inbox[Tui] # <<>> /\ UNCHANGED <<scope, ver, reacts, pending, tangled, missed>>
      /\ inbox' = [inbox EXCEPT ![Tui] = Tail(@)] /\ Sent' = Sent
  BY WhoIs DEF InOrder, TuiMessage, TuiChannel, TuiHeard, TuiEvent, Sent
<1>1. TuiHead \in Event /\ Good(TuiHead) /\ TuiHead = Head(inbox[Tui]) /\ TuiHead = inbox[Tui][1] /\ 1 \in DOMAIN inbox[Tui]
  <2>1. \E e \in Event : e = inbox[Tui][1] /\ Good(e)
    BY <1>0, InboxGood, HeadIs, VersionsAre
  <2> QED
    BY <1>0, <2>1, HeadIs DEF TuiHead
<1>2. CASE ~Tells(TuiHead, m)
  <2>1. TextSame(Tui, m) /\ ~First(TuiHead, m)
    BY <1>0, <1>1, <1>2, DuesTaken, KindsAre
  <2>2. lines'[m] = lines[m]
    <3>1. CASE TuiChannel
      BY <3>1 DEF TuiChannel
    <3>2. CASE TuiMessage
      <4>1. lines' = CASE TuiHead.t = "message.created" -> Appended(TuiHead.m, TuiHead.v)
                       [] TuiHead.t \in {"message.updated", "message.deleted"} -> Rewritten(TuiHead.m, TuiHead.v)
                       [] OTHER -> lines
        BY <3>2 DEF TuiMessage
      <4>2. TuiHead.t \in {"message.created", "message.updated", "message.deleted"} => TuiHead.m # m
        BY <1>2 DEF Tells, TextKinds
      <4> QED
        BY <1>0, <4>1, <4>2 DEF Appended, Rewritten, TTypes
    <3> QED
      BY <3>1, <3>2
  <2>3. FirstWaits(m) => FirstWaits(m)'
    BY <1>0, <1>1, <2>1, FirstStill
  <2> QED
    BY <1>0, <2>1, <2>2, <2>3, LinedSame
<1>3. CASE Tells(TuiHead, m)
  <2>1. TuiMessage /\ TuiHead.t \in {"message.created", "message.updated", "message.deleted"} /\ TuiHead.m = m
    <3>1. TuiHead.t # "forwarded"
      BY <1>0, <1>1 DEF Passed
    <3> QED
      BY <1>3, <3>1 DEF Tells, TextKinds, TuiChannel, TuiHeard
  <2>2. lines' = IF TuiHead.t = "message.created" THEN Appended(m, TuiHead.v) ELSE Rewritten(m, TuiHead.v)
    BY <2>1 DEF TuiMessage
  <2>3. TextDue(Tui, m)' => TuiHead.v = ver[m]
    BY <1>0, <1>1, <1>3, LastTaken DEF TextDue
  <2>4. lines[m] \in Nat /\ lines[m] <= ver[m] /\ ver[m] \in Nat /\ TuiHead.v \in Nat /\ TuiHead.v >= 1
    <3>1. TuiHead.v \in Nat /\ TuiHead.v >= 1
      BY <1>0, <1>1, <2>1, VersOf DEF TextKinds
    <3> QED
      BY <1>0, <3>1, VerIs, WhoIs DEF Versions, TTypes
  <2>5. CASE TuiHead.t = "message.created"
    <3>1. TuiHead.v = 1
      BY <1>1, <2>5 DEF Good, TextKinds
    <3>2. lines'[m] = IF lines[m] # 0 THEN lines[m] ELSE 1
      BY <1>0, <2>2, <2>5, <3>1 DEF Appended, TTypes
    <3>3. LineCaught(m)'
      BY <1>0, <2>3, <2>4, <3>1, <3>2 DEF LineCaught
    <3>4. lines'[m] # 0
      BY <3>2
    <3> QED
      BY <3>3, <3>4 DEF Lined, LineComes
  <2>6. CASE TuiHead.t # "message.created"
    <3>1. lines'[m] = IF lines[m] # 0 THEN TuiHead.v ELSE 0
      BY <1>0, <2>2, <2>6 DEF Rewritten, TTypes
    <3>2. ~FirstWaits(m)
      <4>1. ~First(TuiHead, m)
        BY <2>1, <2>6 DEF First
      <4>2. ~\E e \in pending : First(e, m)
        BY <1>0, <1>1, <1>3 DEF Queued
      <4>3. ASSUME NEW i \in DOMAIN inbox[Tui], First(inbox[Tui][i], m) PROVE FALSE
        <5>1. i <= 1
          BY <1>0, <1>1, <1>3, <4>3 DEF Queued
        <5>2. i \in DOMAIN inbox[Tui] /\ DOMAIN inbox[Tui] = 1 .. Len(inbox[Tui]) /\ Len(inbox[Tui]) \in Nat
          BY <1>0, TakeIs
        <5>3. i = 1
          BY <5>1, <5>2
        <5> QED
          BY <1>1, <4>1, <4>3, <5>3
      <4> QED
        BY <4>2, <4>3 DEF FirstWaits
    <3>3. m \in Sent /\ m \notin missed[Tui] => lines[m] # 0
      BY <3>2 DEF Lined, LineComes
    <3>4. LineCaught(m)'
      BY <1>0, <2>3, <3>1, <3>3 DEF LineCaught, TextDue
    <3>5. LineComes(m)'
      BY <1>0, <2>4, <3>1, <3>3 DEF LineComes
    <3> QED
      BY <3>4, <3>5 DEF Lined
  <2> QED
    BY <2>5, <2>6
<1> QED
  BY <1>2, <1>3

LEMMA LinedTui ==
  ASSUME CTypes, Versions, InOrder, TuiStep, NEW m \in Messages, m \notin tangled, Lined(m)
  PROVE  Lined(m)'
<1> USE DEF CTypes
<1>0. FTypes /\ TTypes /\ Tui \in Clients
  BY WhoIs
<1>1. CASE TuiMessage \/ TuiChannel
  BY <1>1, LinedEvent
<1>2. ASSUME UNCHANGED <<ver, reacts, pending, inbox>>, m \notin missed'[Tui] => m \notin missed[Tui]
      PROVE  TextSame(Tui, m) /\ (m \in Sent' /\ m \notin missed'[Tui] =>
                                    m \in Sent /\ m \notin missed[Tui] /\ (FirstWaits(m) => FirstWaits(m)'))
  BY <1>2 DEF TextSame, TextDue, Silent, Tells, FirstWaits, First, Sent
<1>3. CASE TuiServe \/ \E c \in Channels : Enter(c)
  <2>1. UNCHANGED <<ver, reacts, pending, inbox, lines>> /\ (missed' = missed \/ missed' = [missed EXCEPT ![Tui] = @ \ chans])
    BY <1>3 DEF TuiServe, Enter, tuiVars
  <2>2. m \notin chans
    BY <1>0, FeedAssumption DEF FTypes
  <2>3. m \notin missed'[Tui] => m \notin missed[Tui]
    BY <1>0, <2>1, <2>2 DEF FTypes
  <2> QED
    BY <1>2, <2>1, <2>3, LinedSame
<1>4. CASE \E a \in answers[Tui] : TuiCreateAnswer(a) \/ TuiLoaded(a)
  <2>1. UNCHANGED <<ver, reacts, pending, inbox, lines, missed>>
    BY <1>4 DEF TuiCreateAnswer, TuiLoaded, TuiAnswer
  <2> QED
    BY <1>2, <2>1, LinedSame
<1>5. CASE \E a \in answers[Tui] : Entered(a)
  <2>1. /\ UNCHANGED <<ver, reacts, pending, inbox>> /\ lines' = [x \in Messages |-> 0]
        /\ missed' = [missed EXCEPT ![Tui] = @ \cup {x \in Messages : lines[x] # 0}]
    BY <1>5 DEF Entered, TuiAnswer
  <2>2. m \notin missed'[Tui] => m \notin missed[Tui] /\ lines[m] = 0
    BY <1>0, <2>1 DEF FTypes
  <2>3. CASE m \notin missed'[Tui]
    <3>1. lines'[m] = lines[m]
      BY <2>1, <2>2, <2>3
    <3> QED
      BY <1>2, <2>1, <2>2, <2>3, <3>1, LinedSame
  <2>4. CASE m \in missed'[Tui]
    BY <2>4 DEF Lined, LineCaught, LineComes, TextDue
  <2> QED
    BY <2>3, <2>4
<1>6. ASSUME NEW a \in answers[Tui], TuiRewriteAnswer(a) PROVE Lined(m)'
  <2>1. /\ UNCHANGED <<ver, reacts, pending, inbox, missed>> /\ lines' = Rewritten(a.m, a.v)
        /\ a.t \in {"message.updated", "message.deleted"}
    BY <1>6 DEF TuiRewriteAnswer, TuiAnswer
  <2>2. CASE a.m = m /\ lines[m] # 0
    <3>1. Answers(Tui, m, a)
      BY <1>0, CurrentIs DEF InOrder
    <3>2. lines'[m] = a.v /\ a.v = ver[m]
      BY <1>0, <2>1, <2>2, <3>1 DEF Rewritten, TTypes, Answers, Tells, TextKinds
    <3>3. ver[m] \in Nat /\ lines[m] <= ver[m] /\ lines[m] \in Nat
      BY <1>0, VerIs, WhoIs DEF Versions, TTypes
    <3>4. LineCaught(m)'
      BY <2>1, <3>2 DEF LineCaught
    <3>5. lines'[m] # 0
      BY <2>2, <3>2, <3>3
    <3> QED
      BY <3>4, <3>5 DEF Lined, LineComes
  <2>3. CASE ~(a.m = m /\ lines[m] # 0)
    <3>1. lines'[m] = lines[m]
      BY <1>0, <2>1, <2>3 DEF Rewritten, TTypes
    <3> QED
      BY <1>2, <2>1, <3>1, LinedSame
  <2> QED
    BY <2>2, <2>3
<1> QED
  BY <1>1, <1>3, <1>4, <1>5, <1>6 DEF TuiStep

LEMMA LinedWeb ==
  ASSUME CTypes, WebStep, lines' = lines, NEW m \in Messages, Lined(m)
  PROVE  Lined(m)'
<1>0. FTypes /\ Web \in Clients /\ Tui \in Clients /\ Web # Tui
  BY WhoIs DEF CTypes
<1>1. UNCHANGED <<ver, reacts>> /\ pending \subseteq pending'
  BY DEF WebStep, OnCreated, OnRewritten, OnReaction, OnChannel, TakeEvent, SendCopy, OnCopy, Visible, AckRead, OnRewriteAnswer,
         OnReactionAnswer, OnForwardAnswer, OnCreateAnswer, ApplyChannels, ApplyUnread, ApplyMessages, ApplyReactions,
         Applying, TakeAnswer, Create, CreateChannel, SelectChannel, Start, ServeChannels, ServeUnread, ServeMessages,
         ServeReactions, Serve, feedVars
<1>2. /\ inbox' = inbox \/ inbox' = [inbox EXCEPT ![Web] = Tail(@)]
      /\ missed' = missed \/ \E x : missed' = [missed EXCEPT ![Web] = x]
  BY DEF WebStep, OnCreated, OnRewritten, OnReaction, OnChannel, TakeEvent, SendCopy, OnCopy, Visible, AckRead, OnRewriteAnswer,
         OnReactionAnswer, OnForwardAnswer, OnCreateAnswer, ApplyChannels, ApplyUnread, ApplyMessages, ApplyReactions,
         Applying, TakeAnswer, Create, CreateChannel, SelectChannel, Start, ServeChannels, ServeUnread, ServeMessages,
         ServeReactions, Serve, feedVars
<1>3. inbox'[Tui] = inbox[Tui] /\ missed'[Tui] = missed[Tui]
  BY <1>0, <1>2 DEF FTypes
<1>4. TextSame(Tui, m)
  BY <1>1, <1>3 DEF TextSame, TextDue, Silent, Tells, Sent
<1>5. FirstWaits(m) => FirstWaits(m)'
  BY <1>1, <1>3 DEF FirstWaits, First
<1> QED
  BY <1>1, <1>3, <1>4, <1>5, LinedSame DEF Sent

LEMMA TuiCaughtKept == ASSUME CTypes, Versions, InOrder, TuiCaught, [Next]_vars PROVE TuiCaught'
<1>0. FTypes /\ FeedGood /\ Tui \in Clients
  BY VersionsAre, WhoIs DEF CTypes
<1>1. ASSUME NEW m \in Messages, m \notin tangled' PROVE Lined(m)'
  <2>0. m \notin tangled /\ Lined(m)
    BY <1>0, <1>1, TangledGrows, TuiCaughtIs
  <2>1. CASE ServerStep /\ UNCHANGED <<webVars, tuiVars>>
    BY <1>0, <2>0, <2>1, LinedServer DEF tuiVars
  <2>2. CASE WebStep /\ UNCHANGED tuiVars
    BY <2>0, <2>2, LinedWeb DEF tuiVars
  <2>3. CASE TuiStep /\ UNCHANGED webVars
    BY <2>0, <2>3, LinedTui
  <2>4. CASE UNCHANGED <<feedVars, webVars, tuiVars>>
    <3>1. UNCHANGED <<ver, reacts, inbox, missed, pending, lines>>
      BY <2>4 DEF feedVars, tuiVars
    <3>2. TextSame(Tui, m) /\ (FirstWaits(m) => FirstWaits(m)')
      BY <3>1 DEF TextSame, TextDue, Silent, Tells, Sent, FirstWaits, First
    <3> QED
      BY <2>0, <3>1, <3>2, LinedSame DEF Sent
  <2> QED
    BY <1>0, <2>1, <2>2, <2>3, <2>4, NextIs
<1>2. \A m \in Sent' : m \in Messages
  BY DEF Sent
<1> QED
  BY <1>1, <1>2 DEF TuiCaught, Lined, LineCaught, LineComes, TextDue, FirstWaits

LEMMA CaughtStarts == ASSUME Init PROVE WebCaught /\ TuiCaught
<1>0. /\ CTypes /\ scope \in Scopes /\ scope.old \subseteq Messages /\ Web \in Clients /\ Tui \in Clients /\ Web # Peer
  BY TypesInit, WhoIs, FeedAssumption DEF Init, FeedInit
<1>1. /\ ver = [m \in Messages |-> IF m \in scope.old THEN 1 ELSE 0] /\ reacts \subseteq scope.old \X {Peer}
      /\ May("boot") => \A c \in Clients : missed[c] = scope.old \cup scope.chans \cup (scope.old \X {"marks"})
  BY DEF Init, FeedInit, May
<1>2. \A m \in Messages : m \in Sent <=> m \in scope.old
  BY <1>1 DEF Sent
<1>3. \A m : ~Reacted(m, Web)
  BY <1>0, <1>1 DEF Reacted
<1>4. ASSUME NEW m \in Messages, m \notin scope.old PROVE Count(m) = 0
  <2>1. {u \in Users : <<m, u>> \in reacts} = {}
    BY <1>1, <1>4
  <2> QED
    BY <2>1, FS_EmptySet DEF Count
<1>5. ASSUME NEW m \in Messages PROVE Caught(m)
  <2>1. CASE May("boot")
    <3>1. marks[m] = NoMark
      BY <2>1 DEF Init, WebInit
    <3>2. CASE m \in scope.old
      <4>1. m \in missed[Web] /\ MarksOf(m) \in missed[Web]
        BY <1>0, <1>1, <2>1, <3>2 DEF MarksOf
      <4> QED
        BY <4>1 DEF Caught, TextCaught, CountCaught, OwnCaught, TextDue
    <3>3. CASE m \notin scope.old
      <4>1. marks[m].n = 0 /\ marks[m].on = FALSE
        BY <3>1 DEF NoMark
      <4> QED
        BY <1>2, <1>3, <1>4, <3>3, <4>1 DEF Caught, TextCaught, CountCaught, OwnCaught, TextDue
    <3> QED
      BY <3>2, <3>3
  <2>2. CASE ~May("boot")
    <3>1. shown.server[m] = ver[m] /\ marks[m] = [n |-> Count(m), on |-> FALSE]
      BY <2>2 DEF Init, WebInit
    <3>2. marks[m].n = Count(m) /\ marks[m].on = FALSE
      BY <3>1
    <3> QED
      BY <1>3, <3>1, <3>2 DEF Caught, TextCaught, CountCaught, OwnCaught
  <2> QED
    BY <2>1, <2>2
<1>6. ASSUME NEW m \in Messages PROVE Lined(m)
  <2>1. CASE May("boot")
    BY <1>0, <1>1, <1>2, <2>1 DEF Lined, LineCaught, LineComes, TextDue
  <2>2. CASE ~May("boot")
    <3>1. lines[m] = ver[m]
      BY <2>2 DEF Init, TuiInit
    <3> QED
      BY <3>1 DEF Lined, LineCaught, LineComes, Sent
  <2> QED
    BY <2>1, <2>2
<1> QED
  BY <1>5, <1>6, WebCaughtIs, TuiCaughtIs

LEMMA CaughtShows == ASSUME CTypes, WebCaught, TuiCaught PROVE CaughtUp
<1>0. Web \in Clients /\ Tui \in Clients
  BY WhoIs
<1>1. ASSUME WebSettled, NEW m \in Sent \ tangled
      PROVE  /\ m \notin missed[Web] => shown.server[m] = ver[m]
             /\ MarksOf(m) \notin missed[Web] => marks[m].n = Count(m) /\ (marks[m].on <=> Reacted(m, Web))
  <2>1. Caught(m)
    BY <1>1, WebCaughtIs DEF Sent
  <2>2. pending = {} /\ inbox[Web] = <<>> /\ answers[Web] = {}
    BY <1>1 DEF WebSettled, Quiet
  <2>3. Silent(Web, m) /\ NoCounts(Web, m) /\ NoOwn(Web, m) /\ ~Paged(m) /\ ~Tally(m)
    BY <2>2 DEF Silent, NoCounts, NoOwn, Paged, Tally
  <2> QED
    BY <1>1, <2>1, <2>3 DEF Caught, TextCaught, CountCaught, OwnCaught, TextDue
<1>2. ASSUME WebSettled, NEW m \in Sent \ tangled, <<m, "marks">> \notin missed[Web]
      PROVE  marks[m].n = Count(m) /\ marks[m].on = (<<m, Web>> \in reacts)
  <2>1. marks[m].n = Count(m) /\ (marks[m].on <=> <<m, Web>> \in reacts)
    BY <1>1, <1>2 DEF MarksOf, Reacted
  <2>2. marks[m].on \in BOOLEAN
    BY <1>2 DEF CTypes, WTypes, Sent
  <2> QED
    BY <2>1, <2>2
<1>3. ASSUME TuiSettled, NEW m \in Sent \ (tangled \cup missed[Tui]) PROVE lines[m] = ver[m]
  <2>1. Lined(m)
    BY <1>3, TuiCaughtIs DEF Sent
  <2>2. pending = {} /\ inbox[Tui] = <<>>
    BY <1>3 DEF TuiSettled, Quiet
  <2>3. Silent(Tui, m)
    BY <2>2 DEF Silent
  <2> QED
    BY <1>3, <2>1, <2>3 DEF Lined, LineCaught, TextDue
<1> QED
  BY <1>1, <1>2, <1>3 DEF CaughtUp, MarksOf
-------------------------------------------------------------------------------
(* What the specification promises *)

\* The parts of the invariant that say what is on its way.
Coherent == CTypes /\ Versions /\ InOrder

\* Feed.tla, WebClient.tla, Terminal.tla: in every state the variables have their
\* types and whatever is pending, queued or answered is a version the server
\* stored, the last of a message that was not written beside an earlier write,
\* and is told in the order it was written in.
THEOREM ToldInOrder == Spec => []Coherent
<1>1. Init => Coherent
  BY TypesInit, VersionsStart, OrderStarts DEF Coherent
<1>2. Coherent /\ [Next]_vars => Coherent'
  BY TypesKept, VersionsKept, OrderKept DEF Coherent
<1> QED
  BY <1>1, <1>2, PTL DEF Spec

\* ChatRoute.tsx:257-270: a message that reaches the page over the data channel
\* and from the server is shown once, unless a plain upsert made the second copy.
THEOREM ShownOnce == Spec => []OneCopy
<1>1. Init => CTypes /\ OneCopy
  BY TypesInit, OneCopyStarts
<1>2. (CTypes /\ OneCopy) /\ [Next]_vars => (CTypes /\ OneCopy)'
  BY TypesKept, OneCopyKept
<1> QED
  BY <1>1, <1>2, PTL DEF Spec

\* useChannelMembers.ts:53-85: however channels are switched and the token is
\* replaced beside a read or an edit, the members shown end up those of the
\* channel on screen, unless they were changed beside it.
THEOREM PanelShown == Spec => []PanelRight
<1>1. Init => CTypes /\ PanelInv
  BY TypesInit, PanelStarts
<1>2. (CTypes /\ PanelInv) /\ [Next]_vars => (CTypes /\ PanelInv)'
  BY TypesKept, PanelKept
<1>3. PanelInv => PanelRight
  BY DEF PanelInv
<1> QED
  BY <1>1, <1>2, <1>3, PTL DEF Spec

\* ChatRoute.tsx:319-383, useChannelData.ts:72-92: a channel is listed once, and
\* listed by every client that was told of it and waits for nothing, unless a
\* list was being replaced meanwhile.
THEOREM ListsShown == Spec => []ChannelLists
<1>1. Init => CTypes /\ Lists
  BY TypesInit, ListsStart
<1>2. (CTypes /\ Lists) /\ [Next]_vars => (CTypes /\ Lists)'
  BY TypesKept, ListsKept
<1>3. CTypes /\ Lists => ChannelLists
  BY ListsRight
<1> QED
  BY <1>1, <1>2, <1>3, PTL DEF Spec

\* ChatRoute.tsx:140-151, 271-275: the badge of a channel that is not on screen
\* counts every message of another that was heard of there, once.
THEOREM BadgesShown == Spec => []BadgeRight
<1>1. Init => Coherent /\ BadgeInv
  BY TypesInit, VersionsStart, OrderStarts, BadgeStarts DEF Coherent
<1>2. (Coherent /\ BadgeInv) /\ [Next]_vars => (Coherent /\ BadgeInv)'
  BY TypesKept, VersionsKept, OrderKept, BadgeKept DEF Coherent
<1>3. Coherent /\ BadgeInv => BadgeRight
  BY BadgeShows DEF Coherent
<1> QED
  BY <1>1, <1>2, <1>3, PTL DEF Spec

\* domain.ts:195-219, useMessages.ts:148-160: a client that waits for nothing
\* shows every message in the version, and the page with the reactions, that the
\* server has, but for tangled messages and what it was never told of.
THEOREM AllCaughtUp == Spec => []CaughtUp
<1>1. Init => Coherent /\ WebCaught /\ TuiCaught
  BY TypesInit, VersionsStart, OrderStarts, CaughtStarts DEF Coherent
<1>2. (Coherent /\ WebCaught /\ TuiCaught) /\ [Next]_vars => (Coherent /\ WebCaught /\ TuiCaught)'
  BY TypesKept, VersionsKept, OrderKept, WebCaughtKept, TuiCaughtKept DEF Coherent
<1>3. Coherent /\ WebCaught /\ TuiCaught => CaughtUp
  BY CaughtShows DEF Coherent
<1> QED
  BY <1>1, <1>2, <1>3, PTL DEF Spec
===============================================================================
