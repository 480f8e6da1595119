-------------------------------- MODULE Terminal --------------------------------
(* The terminal client: one list of messages for whatever channel is open,    *)
(* and the list of channels.                                                  *)
EXTENDS Feed

CONSTANTS Tui, NoTab

ASSUME TerminalAssumption == Tui \in Clients /\ NoTab \notin Channels

VARIABLES
    lines,    \* useMessages: the version shown of each message, of any channel
    tabs,     \* useChannelData: channels, in order
    open,     \* activeChannel
    loading,  \* the first read of the channels is not answered yet
    upset     \* history: channels announced before that answer, or twice told

tuiVars == <<lines, tabs, open, loading, upset>>

TuiInit ==
    /\ lines = [m \in Messages |-> IF May("boot") THEN 0 ELSE ver[m]]
    /\ tabs = IF May("boot") THEN <<>> ELSE SetToSeq(scope.chans)
    /\ open = NoTab /\ loading = May("boot") /\ upset = {}

TuiHead == Head(inbox[Tui])
TuiHeard(t) == inbox[Tui] # <<>> /\ TuiHead.t = t
TuiEvent ==
    /\ inbox' = [inbox EXCEPT ![Tui] = Tail(@)]
    /\ UNCHANGED <<scope, ver, acked, seen, reacts, chans, pending, rooms, online, answers, missed, tangled>>
TuiAnswer(a) ==
    /\ a \in answers[Tui]
    /\ answers' = [answers EXCEPT ![Tui] = @ \ {a}]
    /\ UNCHANGED <<scope, ver, acked, seen, reacts, chans, pending, rooms, online, inbox, tangled>>

\* A created message is appended unless it is there; a rewritten one replaces
\* the line it has, if it has one; reactions are not shown.
Appended(m, v)  == IF lines[m] # 0 THEN lines ELSE [lines EXCEPT ![m] = v]
Rewritten(m, v) == IF lines[m] # 0 THEN [lines EXCEPT ![m] = v] ELSE lines

TuiMessage ==
    /\ inbox[Tui] # <<>> /\ TuiHead.t # "channel.created"
    /\ LET e == TuiHead IN
        lines' = CASE e.t = "message.created" -> Appended(e.m, e.v)
                   [] e.t \in {"message.updated", "message.deleted"} -> Rewritten(e.m, e.v)
                   [] OTHER -> lines
    /\ TuiEvent
    /\ UNCHANGED <<tabs, open, loading, upset>>

Told(c) == c \in ToSet(tabs)
TuiChannel ==
    /\ TuiHeard("channel.created")
    /\ LET c == TuiHead.c IN
        /\ tabs' = IF Told(c) THEN tabs ELSE Append(tabs, c)
        /\ upset' = IF loading THEN upset \cup {c} ELSE upset
    /\ TuiEvent
    /\ UNCHANGED <<lines, open, loading>>

TuiRewriteAnswer(a) ==
    /\ a.t \in {"message.updated", "message.deleted"}
    /\ TuiAnswer(a) /\ lines' = Rewritten(a.m, a.v)
    /\ UNCHANGED <<missed, tabs, open, loading, upset>>

\* createChannel appends its answer, though the announcement may have been first.
TuiCreate(c) == CreateChannel(c, Tui) /\ c \notin Dms /\ UNCHANGED tuiVars
TuiCreateAnswer(a) ==
    /\ a.t = "channel.created"
    /\ TuiAnswer(a)
    /\ tabs' = Append(tabs, a.c)
    /\ upset' = IF loading \/ Told(a.c) THEN upset \cup {a.c} ELSE upset
    /\ UNCHANGED <<missed, lines, open, loading>>

\* The first reads are answered in full and replace what was heard before.
TuiServe ==
    /\ loading /\ \A a \in answers[Tui] : a.t # "channels"
    /\ answers' = [answers EXCEPT ![Tui] = @ \cup {[t |-> "channels", cs |-> chans]}]
    /\ missed' = [missed EXCEPT ![Tui] = @ \ chans]
    /\ UNCHANGED <<scope, ver, acked, seen, reacts, chans, pending, rooms, online, inbox, tangled>>
    /\ UNCHANGED tuiVars
TuiLoaded(a) ==
    /\ a.t = "channels" /\ TuiAnswer(a)
    /\ tabs' = SetToSeq(a.cs) /\ loading' = FALSE
    /\ UNCHANGED <<missed, lines, open, upset>>

\* enterChannel puts the page it reads in place of the lines.  The server
\* answers a bare array, of which fetchMessages takes ".messages": nothing.
Enter(c) ==
    /\ Told(c) /\ \A a \in answers[Tui] : a.t # "page"
    /\ open' = c
    /\ answers' = [answers EXCEPT ![Tui] = @ \cup {[t |-> "page", page |-> {}]}]
    /\ UNCHANGED <<scope, ver, acked, seen, reacts, chans, pending, rooms, online, inbox, missed, tangled>>
    /\ UNCHANGED <<lines, tabs, loading, upset>>
Entered(a) ==
    /\ a.t = "page" /\ TuiAnswer(a)
    /\ lines' = [m \in Messages |-> 0]
    /\ missed' = [missed EXCEPT ![Tui] = @ \cup {m \in Messages : lines[m] # 0}]
    /\ UNCHANGED <<tabs, open, loading, upset>>

\* handleSend in the open channel, edit and delete of a line there is.
TuiWrites(m) ==
    /\ Author(m) = Tui
    /\ \/ Home(m) = open /\ Send(m)
       \/ lines[m] # 0 /\ (Edit(m) \/ Delete(m))
    /\ UNCHANGED tuiVars

TuiNext ==
    \/ TuiMessage \/ TuiChannel \/ TuiServe
    \/ \E a \in answers[Tui] :
        TuiRewriteAnswer(a) \/ TuiCreateAnswer(a) \/ TuiLoaded(a) \/ Entered(a)
    \/ \E m \in Messages : TuiWrites(m)
    \/ \E c \in Channels : TuiCreate(c) \/ Enter(c)
===============================================================================
