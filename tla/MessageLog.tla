----------------------------- MODULE MessageLog -----------------------------
(***************************************************************************)
(* What the message store promises its callers, with the services, the     *)
(* awaits and the two backends left out: an append-only log in which a      *)
(* (sender, clientMsgId) pair names at most one message, and in which a     *)
(* message keeps the channel, sender and client id it was created with.     *)
(***************************************************************************)
CONSTANTS Msgs, Users, ClientIds, Channels

VARIABLE log      \* the set of entries, one per stored message

Entry == [id : Msgs, ch : Channels, sender : Users, cid : ClientIds]

Init == log = {}

\* An entry may be appended when neither its id nor its client key is taken.
Append(e) ==
  /\ \A f \in log : f.id # e.id /\ ~ (f.sender = e.sender /\ f.cid = e.cid)
  /\ log' = log \cup {e}

Next == \E e \in Entry : Append(e)

Spec == Init /\ [][Next]_log
=============================================================================
