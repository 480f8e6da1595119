------------------------------- MODULE WebClient -------------------------------
(* The web client's stores: what ChatRoute does with each event, each answer  *)
(* of a request it made, and the reads of useChatBootstrap.                   *)
EXTENDS Feed

CONSTANTS Web, NoChannel

ASSUME WebAssumption == Web \in Clients /\ NoChannel \notin Channels

VARIABLES
    shown,   \* messages: the version under the server's id and under a P2P id
    marks,   \* reactions: the count shown, and whether it is shown as one's own
    list,    \* channels, in order
    active,  \* activeChannelId
    badge,   \* unreadCounts
    calls,   \* createChannel and startDm: the list each call has closed over
    boot,    \* useChatBootstrap: what it waits for, and the channels to go
    direct,  \* P2P copies on their way over a data channel
    acks,    \* ackedMessagesRef
    late,    \* history: messages an upsert has shown beside their copy
    news,    \* history: messages heard of in a channel since it was selected
    blurred, \* history: channels with a message under way beside their count
    raced    \* history: channels announced while a list was being replaced

webVars == <<shown, marks, list, active, badge, calls, boot, direct, acks,
             late, news, blurred, raced>>

None     == [m \in Messages |-> 0]
NoMark   == [n |-> 0, on |-> FALSE]
Waiting(t) == \E a \in answers[Web] : a.t = t
Coming(m) == \/ \E e \in pending : e.t = "message.created" /\ e.m = m
             \/ \E i \in DOMAIN inbox[Web] : inbox[Web][i].t = "message.created" /\ inbox[Web][i].m = m

WebInit ==
    /\ shown = [server |-> IF May("boot") THEN None ELSE ver, p2p |-> None]
    /\ marks = [m \in Messages |-> IF May("boot") THEN NoMark ELSE [n |-> Count(m), on |-> FALSE]]
    /\ list = IF May("boot") THEN <<>> ELSE SetToSeq(scope.chans)
    /\ active = IF May("boot") THEN NoChannel ELSE list[1]
    /\ badge = [c \in Channels |-> 0]
    /\ calls = {}
    /\ boot = [at |-> IF May("boot") THEN "idle" ELSE "done", todo |-> {}]
    /\ direct = {} /\ acks = {} /\ late = {} /\ blurred = {} /\ raced = {}
    /\ news = [c \in Channels |-> {}]
-------------------------------------------------------------------------------
\* What the stores do.
Upsert(m, v) ==
    /\ shown' = [shown EXCEPT !.server[m] = v]
    /\ late' = IF shown.p2p[m] # 0 /\ shown.server[m] = 0 THEN late \cup {m} ELSE late
Add(l, c)    == IF c \in ToSet(l) THEN l ELSE Append(l, c)
SetReaction(m, n, on) ==
    marks' = [marks EXCEPT ![m] = IF n = 0 THEN NoMark ELSE [n |-> n, on |-> on]]

\* Mutant: opening a channel leaves its badge.
Select_KeepsBadge(c) == active' = c /\ badge' = badge /\ news' = [news EXCEPT ![c] = {}]

Select(c) ==
    /\ active' = c /\ badge' = [badge EXCEPT ![c] = 0] /\ news' = [news EXCEPT ![c] = {}]

\* An event or an answer leaves its queue.
Head1 == Head(inbox[Web])
Heard(t) == inbox[Web] # <<>> /\ Head1.t = t
TakeEvent ==
    /\ inbox' = [inbox EXCEPT ![Web] = Tail(@)]
    /\ UNCHANGED <<scope, ver, acked, seen, reacts, chans, pending, rooms, online, answers, missed, tangled>>
TakeAnswer(a) ==
    /\ a \in answers[Web]
    /\ answers' = [answers EXCEPT ![Web] = @ \ {a}]
    /\ UNCHANGED <<scope, ver, acked, reacts, chans, pending, rooms, online, inbox, missed, tangled>>

\* Mutant: the copy is not recognised by its clientMsgId.
Replace_KeepsCopy(m) == shown' = [shown EXCEPT !.server[m] = Head1.v]

\* message.created: known already, or in place of the copy with the same
\* clientMsgId, or new; then the badge of a channel that is not on screen.
Replace(m) == shown' = [shown EXCEPT !.server[m] = Head1.v, !.p2p[m] = 0]

Elsewhere(m) == Home(m) # active /\ Author(m) # Web
OnCreated ==
    /\ Heard("message.created")
    /\ TakeEvent
    /\ LET m == Head1.m  c == Home(m) IN
        /\ news' = IF Elsewhere(m) THEN [news EXCEPT ![c] = @ \cup {m}] ELSE news
        /\ IF shown.server[m] # 0 THEN UNCHANGED <<shown, badge>>
           ELSE /\ Replace(m)
                /\ badge' = IF Elsewhere(m) THEN [badge EXCEPT ![c] = @ + 1] ELSE badge
    /\ UNCHANGED <<marks, list, active, calls, boot, direct, acks, late, blurred, raced>>

OnRewritten ==
    /\ Heard("message.updated") \/ Heard("message.deleted")
    /\ Upsert(Head1.m, Head1.v)
    /\ TakeEvent
    /\ UNCHANGED <<marks, list, active, badge, calls, boot, direct, acks, news, blurred, raced>>

\* Mutant: anybody's reaction is shown as one's own.
OnReaction_TakesMark ==
    /\ Heard("message.reaction")
    /\ SetReaction(Head1.m, Head1.n, Head1.on)
    /\ TakeEvent
    /\ UNCHANGED <<shown, list, active, badge, calls, boot, direct, acks, late, news, blurred, raced>>

OnReaction ==
    /\ Heard("message.reaction")
    /\ SetReaction(Head1.m, Head1.n, IF Head1.by = Web THEN Head1.on ELSE marks[Head1.m].on)
    /\ TakeEvent
    /\ UNCHANGED <<shown, list, active, badge, calls, boot, direct, acks, late, news, blurred, raced>>

OnChannel ==
    /\ Heard("channel.created")
    /\ list' = Add(list, Head1.c)
    /\ raced' = IF calls # {} \/ boot.at = "channels" THEN raced \cup {Head1.c} ELSE raced
    /\ TakeEvent
    /\ UNCHANGED <<shown, marks, active, badge, calls, boot, direct, acks, late, news, blurred>>

\* A P2P copy is upserted under an id of its own.
OnCopy(m) ==
    /\ m \in direct
    /\ direct' = direct \ {m}
    /\ shown' = [shown EXCEPT !.p2p[m] = 1]
    /\ late' = IF shown.server[m] # 0 THEN late \cup {m} ELSE late
    /\ UNCHANGED <<feedVars, marks, list, active, badge, calls, boot, acks, news, blurred, raced>>

SendCopy(m) ==
    /\ May("direct") /\ Author(m) = Peer /\ m \notin Sent
    /\ direct = {} /\ shown.p2p[m] = 0
    /\ direct' = {m}
    /\ UNCHANGED <<feedVars, shown, marks, list, active, badge, calls, boot, acks, late, news, blurred, raced>>
-------------------------------------------------------------------------------
\* useMessageActions: the answer is written over what is shown.
OnRewriteAnswer(a) ==
    /\ a.t \in {"message.updated", "message.deleted"}
    /\ TakeAnswer(a) /\ Upsert(a.m, a.v)
    /\ UNCHANGED <<seen, marks, list, active, badge, calls, boot, direct, acks, news, blurred, raced>>

OnReactionAnswer(a) ==
    /\ a.t = "message.reaction"
    /\ TakeAnswer(a) /\ SetReaction(a.m, a.n, a.on)
    /\ UNCHANGED <<seen, shown, list, active, badge, calls, boot, direct, acks, late, news, blurred, raced>>

OnForwardAnswer(a) ==
    /\ a.t = "forwarded"
    /\ TakeAnswer(a) /\ Upsert(a.m, a.v)
    /\ Select(Home(a.m)) /\ MarkRead(Web, Home(a.m))
    /\ UNCHANGED <<marks, list, calls, boot, direct, acks, blurred, raced>>

\* submit, edit, delete and forward: of the open channel, of what is shown.
WebWrites(m) ==
    /\ Author(m) = Web
    /\ \/ Home(m) = active /\ Send(m)
       \/ shown.server[m] # 0 /\ (Edit(m) \/ Delete(m))
       \/ Home(m) \in ToSet(list) /\ Forward(m)
    /\ UNCHANGED webVars

\* handleReact chooses by what is shown as one's own.
ToggleReaction(m) ==
    /\ shown.server[m] # 0 /\ React(m, Web, ~marks[m].on)
    /\ UNCHANGED webVars

\* createChannel and startDm go on from the list they closed over.
Create(c) ==
    /\ (\A k \in calls : k.c # c) /\ CreateChannel(c, Web)
    /\ calls' = calls \cup {[c |-> c, over |-> list]}
    /\ UNCHANGED <<shown, marks, list, active, badge, boot, direct, acks, late, news, blurred, raced>>

\* Mutant: a channel is appended without a look at the list.
Listed_Always(k) == Append(list, k.c)

Listed(k) == IF k.c \in Dms /\ k.c \in ToSet(k.over) THEN list ELSE Append(k.over, k.c)

OnCreateAnswer(a) ==
    /\ a.t = "channel.created"
    /\ TakeAnswer(a)
    /\ \E k \in calls :
        /\ k.c = a.c
        /\ list' = Listed(k)
        /\ calls' = calls \ {k}
    /\ Select(a.c) /\ MarkRead(Web, a.c)
    /\ UNCHANGED <<shown, marks, boot, direct, acks, late, blurred, raced>>

SelectChannel(c) ==
    /\ c \in ToSet(list) \ {active}
    /\ Select(c) /\ MarkRead(Web, c)
    /\ UNCHANGED <<scope, ver, acked, reacts, chans, pending, rooms, online, inbox, answers, missed, tangled,
                   shown, marks, list, calls, boot, direct, acks, late, blurred, raced>>

\* handleMessagesVisible acknowledges what is on screen, once.
Visible(m) ==
    /\ shown.server[m] # 0 /\ Home(m) = active /\ m \notin acks
    /\ AckRead(Web, m)
    /\ acks' = acks \cup {m}
    /\ UNCHANGED <<shown, marks, list, active, badge, calls, boot, direct, late, news, blurred, raced>>
-------------------------------------------------------------------------------
\* The bootstrap: one read after the other, each answered and then applied.
Serving(at) == boot.at = at /\ ~Waiting(at)
Serve(a, told) ==
    /\ answers' = [answers EXCEPT ![Web] = @ \cup {a}]
    /\ missed' = [missed EXCEPT ![Web] = @ \ told]
    /\ UNCHANGED <<scope, ver, acked, seen, reacts, chans, pending, rooms, online, inbox, tangled>>
    /\ UNCHANGED webVars
Applying(a) == a.t = boot.at /\ TakeAnswer(a)
After(todo) == boot' = IF todo = {} THEN [at |-> "done", todo |-> {}]
                       ELSE [at |-> "messages", todo |-> todo]
Turn == CHOOSE c \in boot.todo : TRUE

Start ==
    /\ boot.at = "idle"
    /\ boot' = [at |-> "channels", todo |-> {}]
    /\ UNCHANGED <<feedVars, shown, marks, list, active, badge, calls, direct, acks, late, news, blurred, raced>>

ServeChannels == Serving("channels") /\ Serve([t |-> "channels", cs |-> chans], chans)
ServeUnread   == Serving("unread") /\ Serve([t |-> "unread", new |-> [c \in chans |-> Unread(Web, c)]], {})
ServeMessages ==
    Serving("messages") /\ Serve([t |-> "messages", rows |-> Rows(PageOf(Turn))], PageOf(Turn))
Marked        == {m \in Messages : Home(m) = Turn /\ Count(m) > 0}
ServeReactions ==
    Serving("reactions") /\
    Serve([t |-> "reactions",
           rows |-> [m \in Marked |-> [n |-> Count(m), on |-> <<m, Web>> \in reacts]]],
          Marked \X {"marks"})

ApplyChannels(a) ==
    /\ a.t = "channels" /\ Applying(a)
    /\ list' = SetToSeq(a.cs)
    /\ Select(list'[1])
    /\ raced' = IF calls # {} THEN raced \cup a.cs ELSE raced
    /\ boot' = [at |-> "unread", todo |-> a.cs]
    /\ UNCHANGED <<seen, shown, marks, calls, direct, acks, late, blurred>>

\* A count replaces the badge, whatever was heard since it was taken.
ApplyUnread(a) ==
    /\ a.t = "unread" /\ Applying(a)
    /\ LET some == {c \in DOMAIN a.new : a.new[c] # {}} IN
        /\ badge' = [c \in Channels |-> IF c \in some THEN Cardinality(a.new[c]) ELSE badge[c]]
        /\ news' = [c \in Channels |-> IF c \in some THEN news[c] \cup a.new[c] ELSE news[c]]
        /\ blurred' = blurred \cup {c \in some : ~(news[c] \subseteq a.new[c])
                                          \/ \E m \in a.new[c] : Coming(m)}
    /\ After(boot.todo)
    /\ UNCHANGED <<seen, shown, marks, list, active, calls, direct, acks, late, raced>>

ApplyMessages(a) ==
    /\ a.t = "messages" /\ Applying(a)
    /\ shown' = [shown EXCEPT !.server = [m \in Messages |->
                    IF m \in DOMAIN a.rows THEN a.rows[m] ELSE @[m]]]
    /\ blurred' = blurred \cup {Home(m) : m \in {x \in DOMAIN a.rows : Coming(x)}}
    /\ late' = late \cup {m \in DOMAIN a.rows : shown.p2p[m] # 0}
    /\ boot' = [boot EXCEPT !.at = "reactions"]
    /\ UNCHANGED <<seen, marks, list, active, badge, calls, direct, acks, news, raced>>

ApplyReactions(a) ==
    /\ a.t = "reactions" /\ Applying(a)
    /\ marks' = [m \in Messages |-> IF m \in DOMAIN a.rows THEN a.rows[m] ELSE marks[m]]
    /\ After(boot.todo \ {Turn})
    /\ UNCHANGED <<seen, shown, list, active, badge, calls, direct, acks, late, news, blurred, raced>>
-------------------------------------------------------------------------------
Answered(a) ==
    \/ OnRewriteAnswer(a) \/ OnReactionAnswer(a) \/ OnForwardAnswer(a) \/ OnCreateAnswer(a)
    \/ ApplyChannels(a) \/ ApplyUnread(a) \/ ApplyMessages(a) \/ ApplyReactions(a)

WebNext ==
    \/ OnCreated \/ OnRewritten \/ OnReaction \/ OnChannel
    \/ \E a \in answers[Web] : Answered(a)
    \/ \E m \in Messages : SendCopy(m) \/ OnCopy(m) \/ WebWrites(m) \/ ToggleReaction(m) \/ Visible(m)
    \/ \E c \in Channels : Create(c) \/ SelectChannel(c)
    \/ Start \/ ServeChannels \/ ServeUnread \/ ServeMessages \/ ServeReactions
===============================================================================
