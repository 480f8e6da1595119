-------------------------------- MODULE Clients --------------------------------
(* The web client and the terminal client attached to one server.             *)
EXTENDS MemberPanel, Terminal

ASSUME ClientsAssumption == Web # Tui

vars == <<feedVars, webVars, panelVars, tuiVars>>

Init == FeedInit /\ WebInit /\ PanelInit /\ TuiInit

ServerNext ==
    \/ \E m \in Messages :
        \/ Author(m) = Peer /\ (Send(m) \/ Edit(m) \/ Delete(m) \/ Forward(m))
        \/ \E on \in BOOLEAN : React(m, Peer, on)
    \/ \E e \in pending : CountReaction(e) \/ Announce(e)
    \/ \E c \in Channels : CreateChannel(c, Peer)
    \/ \E c \in scope.present : Leave(c) \/ Join(c)

Next ==
    \/ ServerNext /\ UNCHANGED <<webVars, panelVars, tuiVars>>
    \/ Web \in scope.present /\ WebNext /\ Opened /\ UNCHANGED tuiVars
    \/ Web \in scope.present /\ PanelNext /\ UNCHANGED <<feedVars, webVars, tuiVars>>
    \/ Tui \in scope.present /\ TuiNext /\ UNCHANGED <<webVars, panelVars>>

Spec == Init /\ [][Next]_vars
-------------------------------------------------------------------------------
Quiet(c) == pending = {} /\ inbox[c] = <<>> /\ answers[c] = {}
WebSettled == Web \in scope.present /\ Quiet(Web) /\ boot.at \in {"idle", "done"}
TuiSettled == Tui \in scope.present /\ Quiet(Tui) /\ ~loading
NoRepeat(s) == \A i, j \in DOMAIN s : s[i] = s[j] => i = j

\* ChatRoute.tsx:257-270: a message that comes both over the data channel and
\* as message.created is shown once.  Only a plain upsert -- of a copy that is
\* the later of the two, or of a page of history -- keeps one beside the other.
OneCopy == \A m \in Messages \ late : shown.server[m] = 0 \/ shown.p2p[m] = 0

\* domain.ts:195-219, useMessages.ts:148-160: once nothing is under way, each
\* client shows every message in the version and with the reactions the server
\* has, except for what it was never told of and for messages written again
\* while an earlier write was still to be announced or answered.
CaughtUp ==
    /\ WebSettled => \A m \in Sent \ tangled :
        /\ m \notin missed[Web] => shown.server[m] = ver[m]
        /\ <<m, "marks">> \notin missed[Web] =>
            /\ marks[m].n = Count(m)
            /\ Count(m) > 0 => marks[m].on = (<<m, Web>> \in reacts)
    /\ TuiSettled => \A m \in Sent \ (tangled \cup missed[Tui]) : lines[m] = ver[m]

\* ChatRoute.tsx:140-151, 271-275, useChatBootstrap.ts:103-109: the badge of a
\* channel that is not on screen counts the messages of others heard of there
\* since it was selected, unless one was under way beside the server's count.
BadgeRight ==
    \A c \in chans \ (blurred \cup {active} \cup {Home(m) : m \in tangled}) :
        badge[c] = Cardinality(news[c])

\* ChatRoute.tsx:319-383, useChannelData.ts:72-92: the web client never lists a
\* channel twice, and once all is answered lists each one it was told of unless
\* a list was being replaced meanwhile; the terminal loses none after its first
\* read, and lists twice only a channel announced before its own answer.
ChannelLists ==
    /\ NoRepeat(list)
    /\ WebSettled => chans \subseteq ToSet(list) \cup missed[Web] \cup raced
    /\ TuiSettled => chans \subseteq ToSet(tabs) \cup missed[Tui] \cup upset
    /\ \A i, j \in DOMAIN tabs : tabs[i] = tabs[j] /\ tabs[i] \notin upset => i = j

\* useChannelMembers.ts:10-12, 56-68: however the channels are switched and the
\* token is replaced under way, the members shown end up those of the channel
\* on screen, unless they were changed beside the read.
PanelRight ==
    Fresh = {} /\ edits = {} /\ ~drift /\ May("members") /\ active # NoChannel =>
        panel = {active} \X people[active]
===============================================================================
