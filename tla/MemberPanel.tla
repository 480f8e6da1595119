------------------------------ MODULE MemberPanel ------------------------------
(* useChannelMembers: the members shown of the open channel.  An effect reads *)
(* them whenever another channel is opened or the access token is replaced,   *)
(* and its clean-up cancels the read before; adding and removing a member go  *)
(* on beside it and are not cancelled.  No event tells of a change.           *)
EXTENDS WebClient

VARIABLES
    people,  \* channelMembers, the server's rows by channel
    panel,   \* channelMembers, the rows shown: a channel and a user
    reads,   \* runs of the effect: the channel, the answer, not yet cancelled
    edits,   \* runs of addChannelMember and removeChannelMember
    drift    \* history: the rows changed beside the read that is to show them

panelVars == <<people, panel, reads, edits, drift>>

Read(c, live) == [c |-> c, at |-> "asked", rows |-> {}, live |-> live]
Fresh         == {r \in reads : r.live}
Cancelled     == {[r EXCEPT !.live = FALSE] : r \in reads}

PanelInit ==
    /\ people = [c \in Channels |-> {Web}] /\ panel = {} /\ edits = {} /\ drift = FALSE
    /\ reads = IF May("members") /\ active # NoChannel THEN {Read(active, TRUE)} ELSE {}
-------------------------------------------------------------------------------
\* The effect on a channel: what is shown of the one before stays until the
\* answer.  (Bound: one cancelled read is on its way.)
Effect(c) ==
    /\ Cardinality(reads) < 2
    /\ reads' = Cancelled \cup {Read(c, TRUE)}
    /\ drift' = (edits # {})
    /\ UNCHANGED <<people, panel, edits>>
Refreshed == May("members") /\ active # NoChannel /\ Effect(active)
Opened    == IF May("members") /\ active' # active THEN Effect(active') ELSE UNCHANGED panelVars

ServeRead(r) ==
    /\ r \in reads /\ r.at = "asked"
    /\ reads' = (reads \ {r}) \cup {[r EXCEPT !.at = "answered", !.rows = people[r.c]]}
    /\ UNCHANGED <<people, panel, edits, drift>>

\* Mutant: the answer of a cancelled read is shown.
Taken_Late(r) == panel' = {r.c} \X r.rows

\* The answer is dropped once the clean-up has run.
Taken(r) == panel' = IF r.live THEN {r.c} \X r.rows ELSE panel

TakeRead(r) ==
    /\ r \in reads /\ r.at = "answered"
    /\ reads' = reads \ {r}
    /\ Taken(r)
    /\ UNCHANGED <<people, edits, drift>>

\* A refused read leaves the rows shown, one that fails clears them.
LoseRead(r) ==
    /\ r \in reads
    /\ reads' = reads \ {r}
    /\ panel' \in IF r.live THEN {panel, {}} ELSE {panel}
    /\ drift' = (drift \/ r.live)
    /\ UNCHANGED <<people, edits>>
-------------------------------------------------------------------------------
\* addChannelMember posts and reads the channel again, whatever it was told;
\* removeChannelMember deletes and filters what is shown, whatever it was told.
\* (Bound: two runs are under way, those of the effect among them.)
Edits(op, u) ==
    /\ May("members") /\ active # NoChannel /\ Cardinality(reads) + Cardinality(edits) < 2
    /\ edits' = edits \cup {[op |-> op, c |-> active, u |-> u, at |-> "asked", rows |-> {}]}
    /\ drift' = (drift \/ edits # {} \/ Fresh # {})
    /\ UNCHANGED <<people, panel, reads>>

Become(e, f) == edits' = (edits \ {e}) \cup {f}
Perform(e) ==
    /\ e \in edits /\ e.at = "asked"
    /\ \/ people' = [people EXCEPT ![e.c] = IF e.op = "add" THEN @ \cup {e.u} ELSE @ \ {e.u}]
          /\ UNCHANGED drift
       \/ people' = people /\ drift' = (drift \/ e.op = "remove")
    /\ Become(e, [e EXCEPT !.at = "performed"])
    /\ UNCHANGED <<panel, reads>>

ReadBack(e) ==
    /\ e \in edits /\ e.op = "add" /\ e.at = "performed"
    /\ Become(e, [e EXCEPT !.at = "answered", !.rows = people[e.c]])
    /\ UNCHANGED <<people, panel, reads, drift>>

ShowAdded(e) ==
    /\ e \in edits /\ e.at = "answered"
    /\ panel' = {e.c} \X e.rows
    /\ edits' = edits \ {e}
    /\ UNCHANGED <<people, reads, drift>>

ShowRemoved(e) ==
    /\ e \in edits /\ e.op = "remove" /\ e.at = "performed"
    /\ panel' = {p \in panel : p[2] # e.u}
    /\ edits' = edits \ {e}
    /\ UNCHANGED <<people, reads, drift>>

\* A call of the two fails and ends the run.
LoseEdit(e) ==
    /\ e \in edits
    /\ edits' = edits \ {e} /\ drift' = TRUE
    /\ UNCHANGED <<people, panel, reads>>

\* Somebody else adds or removes a member: nobody is told.
Others(c, u) ==
    /\ May("members")
    /\ people' = [people EXCEPT ![c] = IF u \in @ THEN @ \ {u} ELSE @ \cup {u}]
    /\ drift' = (drift \/ (c = active /\ \A r \in Fresh : r.at # "asked") \/ edits # {})
    /\ UNCHANGED <<panel, reads, edits>>

PanelNext ==
    \/ Refreshed
    \/ \E r \in reads : ServeRead(r) \/ TakeRead(r) \/ LoseRead(r)
    \/ \E u \in Users \ Clients :
        \/ \E op \in {"add", "remove"} : Edits(op, u)
        \/ \E c \in scope.chans : Others(c, u)
    \/ \E e \in edits : Perform(e) \/ ReadBack(e) \/ ShowAdded(e) \/ ShowRemoved(e) \/ LoseEdit(e)
===============================================================================
