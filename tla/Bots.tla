--------------------------------- MODULE Bots ---------------------------------
(* Bots: the registry and the event queues of domain/bots, the /bots namespace *)
(* that polls them, the SDK's connection and the reference bots' answers.      *)
EXTENDS Naturals, FiniteSets, Sequences, SequencesExt

CONSTANTS
    Bots, Channels,
    Secret,      \* end-to-end encrypted channels
    Events,      \* occurrences to publish: commands and messages
    Commands,    \* those of them that are bot.command.invoke of "/help"
    Where,       \* the channel of an event
    Helpers,     \* bots whose manifest declares "/help"
    Writers,     \* bots whose manifest has the scope messages:write
    Batch,       \* events taken by one poll
    MaxRetries,  \* retries of the SDK's reconnect manager
    MaxGen,      \* bound: installations of one bot
    Scopes       \* the driver, operations, events and bots to start from

ASSUME BotsAssumption ==
    /\ Secret \subseteq Channels /\ Commands \subseteq Events
    /\ Where \in [Events -> Channels] /\ Helpers \cup Writers \subseteq Bots
    /\ Batch \in Nat \ {0} /\ MaxRetries \in Nat \ {0} /\ MaxGen \in Nat \ {0}
    /\ \A s \in Scopes : s.driver \in {"memory", "postgres"}

VARIABLES
    scope,
    up,       \* the server runs
    reg,      \* botIntegrations with its memberships and subscriptions
    gens,     \* tokens made so far for a bot; the latest is the valid one
    calls,    \* publishEvent and invokeCommand in progress
    published,
    queue,    \* pendingEvents
    link,     \* the sockets of a bot the server polls for: the SDK's, a ghost
    wire,     \* events on their way over the SDK's socket
    sdk, attempt, held,  \* the SDK: its state, the retries counted, its token
    posts,    \* sendBotMessage in progress
    answers,  \* messages stored: which bot answered what
    done,     \* by bot, the events dispatched
    enq, lost,\* history: what was put in a queue, and what was taken in vain
    refused   \* history: bots that were refused a connection or asked to stop

registry == <<reg, gens>>
program  == <<wire, sdk, attempt, held, done, refused>>
vars == <<scope, up, registry, calls, published, queue, link, program, posts, answers, enq, lost>>
-------------------------------------------------------------------------------
May(op) == op \in scope.ops
Kind(e) == IF e \in Commands THEN "bot.command.invoke" ELSE "message.created"
Kinds   == {"bot.command.invoke", "message.created"}
Absent  == [gen |-> 0, chans |-> {}, subs |-> {}]
Fresh(g) == [gen |-> g, chans |-> {}, subs |-> {}]
Known(b) == up /\ reg[b].gen # 0

Init ==
    /\ scope \in Scopes /\ up = TRUE
    /\ reg = [b \in Bots |-> IF b \in scope.ready THEN [gen |-> 1, chans |-> Channels \ Secret, subs |-> Kinds] ELSE Absent]
    /\ gens = [b \in Bots |-> IF b \in scope.ready THEN 1 ELSE 0]
    /\ calls = {} /\ published = {} /\ posts = {} /\ answers = {}
    /\ queue = [b \in Bots |-> <<>>] /\ wire = [b \in Bots |-> <<>>]
    /\ link = [b \in Bots |-> {}]
    /\ sdk = [b \in Bots |-> "off"] /\ attempt = [b \in Bots |-> 0] /\ held = [b \in Bots |-> 0]
    /\ done = [b \in Bots |-> <<>>] /\ enq = [b \in Bots |-> <<>>]
    /\ lost = [b \in Bots |-> {}] /\ refused = {}
-------------------------------------------------------------------------------
\* In memory the bot is put anew, without memberships and with another token;
\* PostgreSQL refuses the second row.
CreateRow(b) ==
    /\ scope.driver = "postgres" => reg[b].gen = 0
    /\ gens' = [gens EXCEPT ![b] = @ + 1]
    /\ reg' = [reg EXCEPT ![b] = Fresh(gens[b] + 1)]

\* install: every web client does it at every start.
Install(b) ==
    /\ May("install") /\ up /\ gens[b] < MaxGen
    /\ CreateRow(b)
    /\ UNCHANGED <<scope, up, calls, published, queue, link, program, posts, answers, enq, lost>>

AddToChannel(b, c) ==
    /\ May("member") /\ Known(b) /\ c \notin Secret
    /\ reg' = [reg EXCEPT ![b].chans = @ \cup {c}]
    /\ UNCHANGED <<scope, up, gens, calls, published, queue, link, program, posts, answers, enq, lost>>

RemoveFromChannel(b, c) ==
    /\ May("member") /\ Known(b) /\ c \in reg[b].chans
    /\ reg' = [reg EXCEPT ![b].chans = @ \ {c}]
    /\ UNCHANGED <<scope, up, gens, calls, published, queue, link, program, posts, answers, enq, lost>>

\* With the bot's own token.
Subscribe(b, k) ==
    /\ May("member") /\ Known(b) /\ held[b] = reg[b].gen
    /\ reg' = [reg EXCEPT ![b].subs = @ \cup {k}]
    /\ UNCHANGED <<scope, up, gens, calls, published, queue, link, program, posts, answers, enq, lost>>

Unsubscribe(b, k) ==
    /\ May("member") /\ Known(b) /\ held[b] = reg[b].gen
    /\ reg' = [reg EXCEPT ![b].subs = @ \ {k}]
    /\ UNCHANGED <<scope, up, gens, calls, published, queue, link, program, posts, answers, enq, lost>>
-------------------------------------------------------------------------------
\* invokeCommand, or a message stored: not in an encrypted channel.
Publish(e) ==
    /\ up /\ e \in scope.events \ published /\ Where[e] \notin Secret
    /\ published' = published \cup {e}
    /\ calls' = calls \cup {[at |-> "match", e |-> e, to |-> {}]}
    /\ UNCHANGED <<scope, up, registry, queue, link, program, posts, answers, enq, lost>>

\* matchingBots reads the registry ...
Match(k) ==
    /\ k \in calls /\ k.at = "match"
    /\ calls' = (calls \ {k}) \cup {[k EXCEPT !.at = "enqueue", !.to =
                   {b \in Bots : Where[k.e] \in reg[b].chans /\ Kind(k.e) \in reg[b].subs}]}
    /\ UNCHANGED <<scope, up, registry, published, queue, link, program, posts, answers, enq, lost>>

\* ... and the queues are filled when it has answered.
Enqueue(k) ==
    LET More(q) == [b \in Bots |-> IF b \in k.to THEN Append(q[b], k.e) ELSE q[b]]
    IN  /\ k \in calls /\ k.at = "enqueue"
        /\ queue' = More(queue) /\ enq' = More(enq)
        /\ calls' = (calls \ {k}) \cup
                       (IF k.e \in Commands THEN {[k EXCEPT !.at = "help", !.to = {}]} ELSE {})
        /\ UNCHANGED <<scope, up, registry, published, link, program, posts, answers, lost>>

\* "/help" is answered by the server too, in the name of some bot declaring it.
Help(k) ==
    /\ k \in calls /\ k.at = "help" /\ calls' = calls \ {k}
    /\ IF \E b \in Helpers : reg[b].gen # 0
       THEN \E b \in Helpers : reg[b].gen # 0 /\ answers' = answers \cup {[by |-> b, e |-> k.e, inline |-> TRUE]}
       ELSE answers' = answers
    /\ UNCHANGED <<scope, up, registry, published, queue, link, program, posts, enq, lost>>
-------------------------------------------------------------------------------
\* pollEvents for one socket: at most a batch, gone from the queue at once.
Batched(b) == 1 .. (IF Len(queue[b]) < Batch THEN Len(queue[b]) ELSE Batch)

\* Mutant: the event after the batch is dropped with it.
Poll_OneTooMany(b, s) ==
    /\ up /\ s \in link[b] /\ queue[b] # <<>>
    /\ queue' = [queue EXCEPT ![b] = SubSeq(@, Batch + 2, Len(@))]
    /\ IF s = "sdk" THEN /\ wire' = [wire EXCEPT ![b] = @ \o [i \in Batched(b) |-> queue[b][i]]]
                         /\ UNCHANGED lost
                    ELSE /\ lost' = [lost EXCEPT ![b] = @ \cup {queue[b][i] : i \in Batched(b)}]
                         /\ UNCHANGED wire
    /\ UNCHANGED <<scope, up, registry, calls, published, link, sdk, attempt, held, done, refused, posts, answers, enq>>

Poll(b, s) ==
    /\ up /\ s \in link[b] /\ queue[b] # <<>>
    /\ queue' = [queue EXCEPT ![b] = SubSeq(@, Batch + 1, Len(@))]
    /\ IF s = "sdk" THEN /\ wire' = [wire EXCEPT ![b] = @ \o [i \in Batched(b) |-> queue[b][i]]]
                         /\ UNCHANGED lost
                    ELSE /\ lost' = [lost EXCEPT ![b] = @ \cup {queue[b][i] : i \in Batched(b)}]
                         /\ UNCHANGED wire
    /\ UNCHANGED <<scope, up, registry, calls, published, link, sdk, attempt, held, done, refused, posts, answers, enq>>

\* The server notices that a connection has ended.
GhostEnds(b) ==
    /\ "ghost" \in link[b] /\ link' = [link EXCEPT ![b] = @ \ {"ghost"}]
    /\ UNCHANGED <<scope, up, registry, calls, published, queue, program, posts, answers, enq, lost>>

\* What the handlers of a reference bot post: an answer to its command, where it
\* was given; other events have no handler.
Replies(b, e) == IF e \in Commands THEN {[b |-> b, e |-> e, at |-> "check"]} ELSE {}

\* dispatch: the handlers for the event, one event after the other.
Dispatch(b) ==
    LET e == Head(wire[b])
    IN  /\ sdk[b] = "up" /\ wire[b] # <<>>
        /\ wire' = [wire EXCEPT ![b] = Tail(@)] /\ done' = [done EXCEPT ![b] = Append(@, e)]
        /\ posts' = posts \cup Replies(b, e)
        /\ UNCHANGED <<scope, up, registry, calls, published, queue, link, sdk, attempt, held, refused, answers, enq, lost>>

\* sendBotMessage: scope and membership are read ...
CheckWrite(p) ==
    /\ up /\ p \in posts /\ p.at = "check"
    /\ posts' = (posts \ {p}) \cup
                   (IF held[p.b] = reg[p.b].gen /\ p.b \in Writers /\ Where[p.e] \in reg[p.b].chans
                    THEN {[p EXCEPT !.at = "create"]} ELSE {})
    /\ UNCHANGED <<scope, up, registry, calls, published, queue, link, program, answers, enq, lost>>

\* ... before the message is stored.
StoreAnswer(p) ==
    /\ up /\ p \in posts /\ p.at = "create" /\ posts' = posts \ {p}
    /\ answers' = answers \cup {[by |-> p.b, e |-> p.e, inline |-> FALSE]}
    /\ UNCHANGED <<scope, up, registry, calls, published, queue, link, program, enq, lost>>
-------------------------------------------------------------------------------
\* A bot program starts with the token of the latest installation.
Start(b) ==
    /\ sdk[b] = "off" /\ Known(b)
    /\ sdk' = [sdk EXCEPT ![b] = "dialing"] /\ held' = [held EXCEPT ![b] = reg[b].gen]
    /\ UNCHANGED <<scope, up, registry, calls, published, queue, link, wire, attempt, done, refused, posts, answers, enq, lost>>

\* Mutant: a connection does not reset the count of attempts.
Dial_KeepsAttempts(b) ==
    /\ sdk[b] = "dialing" /\ Known(b) /\ held[b] = reg[b].gen
    /\ sdk' = [sdk EXCEPT ![b] = "up"]
    /\ link' = [link EXCEPT ![b] = @ \cup {"sdk"}]
    /\ UNCHANGED <<scope, up, registry, calls, published, queue, wire, attempt, held, done, refused, posts, answers, enq, lost>>

Dial(b) ==
    /\ sdk[b] = "dialing" /\ Known(b) /\ held[b] = reg[b].gen
    /\ sdk' = [sdk EXCEPT ![b] = "up"] /\ attempt' = [attempt EXCEPT ![b] = 0]
    /\ link' = [link EXCEPT ![b] = @ \cup {"sdk"}]
    /\ UNCHANGED <<scope, up, registry, calls, published, queue, wire, held, done, refused, posts, answers, enq, lost>>

\* connect_error: nothing listens to it, and socket.io does not retry.
Refuse(b) ==
    /\ sdk[b] = "dialing" /\ ~(Known(b) /\ held[b] = reg[b].gen)
    /\ sdk' = [sdk EXCEPT ![b] = "stopped"] /\ refused' = refused \cup {b}
    /\ UNCHANGED <<scope, up, registry, calls, published, queue, link, wire, attempt, held, done, posts, answers, enq, lost>>

\* The "disconnect" handler, with what was on the wire lost.
Down(bs) ==
    /\ sdk' = [b \in Bots |-> IF b \notin bs THEN sdk[b] ELSE IF attempt[b] >= MaxRetries THEN "stopped" ELSE "waiting"]
    /\ attempt' = [b \in Bots |-> IF b \in bs /\ attempt[b] < MaxRetries THEN attempt[b] + 1 ELSE attempt[b]]
    /\ wire' = [b \in Bots |-> IF b \in bs THEN <<>> ELSE wire[b]]

\* Mutant: the disconnect handler leaves the poller of a lost socket running as if it were live.
Break_LinkKept(b) ==
    /\ May("break") /\ sdk[b] = "up" /\ Down({b})
    /\ UNCHANGED link
    /\ lost' = [lost EXCEPT ![b] = @ \cup ToSet(wire[b])]
    /\ UNCHANGED <<scope, up, registry, calls, published, queue, held, done, refused, posts, answers, enq>>

\* The connection ends; the server may notice only when a ping goes unanswered.
Break(b) ==
    /\ May("break") /\ sdk[b] = "up" /\ Down({b})
    /\ link' = [link EXCEPT ![b] = @ \ {"sdk"}] \/ link' = [link EXCEPT ![b] = {"ghost"}]
    /\ lost' = [lost EXCEPT ![b] = @ \cup ToSet(wire[b])]
    /\ UNCHANGED <<scope, up, registry, calls, published, queue, held, done, refused, posts, answers, enq>>

Redial(b) ==
    /\ sdk[b] = "waiting" /\ sdk' = [sdk EXCEPT ![b] = "dialing"]
    /\ UNCHANGED <<scope, up, registry, calls, published, queue, link, wire, attempt, held, done, refused, posts, answers, enq, lost>>

\* disconnect() of a connected bot runs the same handler before it removes the
\* listeners: the bot comes back.  A dial in progress it does end.
Disconnect(b) ==
    /\ May("disconnect") /\ sdk[b] \in {"up", "dialing"} /\ refused' = refused \cup {b}
    /\ IF sdk[b] = "up" THEN Down({b})
       ELSE sdk' = [sdk EXCEPT ![b] = "stopped"] /\ UNCHANGED <<attempt, wire>>
    /\ link' = [link EXCEPT ![b] = @ \ {"sdk"}]
    /\ lost' = [lost EXCEPT ![b] = @ \cup ToSet(wire[b])]
    /\ UNCHANGED <<scope, up, registry, calls, published, queue, held, done, posts, answers, enq>>

\* The process ends: queues and calls with it, and in memory the registry too.
Crash ==
    /\ May("crash") /\ up /\ up' = FALSE
    /\ Down({b \in Bots : sdk[b] = "up"})
    /\ link' = [b \in Bots |-> {}] /\ queue' = [b \in Bots |-> <<>>]
    /\ lost' = [b \in Bots |-> lost[b] \cup ToSet(queue[b]) \cup ToSet(wire[b])]
    /\ calls' = {} /\ posts' = {}
    /\ reg' = IF scope.driver = "memory" THEN [b \in Bots |-> Absent] ELSE reg
    /\ UNCHANGED <<scope, gens, published, held, done, refused, answers, enq>>

Boot ==
    /\ ~up /\ up' = TRUE
    /\ UNCHANGED <<scope, registry, calls, published, queue, link, program, posts, answers, enq, lost>>
-------------------------------------------------------------------------------
Next ==
    \/ \E b \in Bots :
        \/ Install(b) \/ Start(b) \/ Dial(b) \/ Refuse(b) \/ Break(b) \/ Redial(b)
        \/ Disconnect(b) \/ GhostEnds(b) \/ Dispatch(b)
        \/ \E c \in Channels : AddToChannel(b, c) \/ RemoveFromChannel(b, c)
        \/ \E k \in Kinds : Subscribe(b, k) \/ Unsubscribe(b, k)
        \/ \E s \in {"sdk", "ghost"} : Poll(b, s)
    \/ \E e \in Events : Publish(e)
    \/ \E k \in calls : Match(k) \/ Enqueue(k) \/ Help(k)
    \/ \E p \in posts : CheckWrite(p) \/ StoreAnswer(p)
    \/ Crash \/ Boot

Spec == Init /\ [][Next]_vars
-------------------------------------------------------------------------------
Inv ==
    /\ \A b \in Bots : reg[b].chans \subseteq Channels \ Secret /\ reg[b].subs \subseteq Kinds
    /\ \A b \in Bots : reg[b].gen \in {0, gens[b]} /\ held[b] <= gens[b] /\ gens[b] <= MaxGen
    /\ \A b \in Bots : sdk[b] \in {"off", "dialing", "up", "waiting", "stopped"}
    /\ \A b \in Bots : "sdk" \in link[b] <=> sdk[b] = "up"
    /\ \A b \in Bots : attempt[b] \in 0 .. MaxRetries
    /\ \A k \in calls : k.e \in published

\* What is in s is what is in t and not gone, each once, in the order of t.
Placed(s, t, gone) ==
    /\ ToSet(s) = ToSet(t) \ gone
    /\ \A i, j \in DOMAIN s, k, l \in DOMAIN t : s[i] = t[k] /\ s[j] = t[l] => (i < j <=> k < l)

\* service.ts:160-177, socket.ts:142-155: every event put in a bot's queue is
\* dispatched once and in order, or is still on its way, or was taken for a
\* socket that was no longer there or lost with the process: never two of these.
EventsKept == \A b \in Bots : Placed(done[b] \o wire[b] \o queue[b], enq[b], lost[b])

\* bot-sdk 40-63, 145-162: the count of retries is reset by every connection
\* and grows only when one ends, so the wait never grows, the retries are never
\* used up, and a bot stops for good only when it is refused once or told to.
NeverExhausted ==
    \A b \in Bots : attempt[b] <= 1 /\ (sdk[b] = "stopped" => b \in refused)
===============================================================================
