------------------------------- MODULE MCClients -------------------------------
(* Instances of Clients: a behaviour picks one scope, a handful of operations  *)
(* beside each other and the client they are about.                           *)
EXTENDS Clients

CONSTANTS web, tui, peer, m1, m2, c1, c2, c3, none

MCClientIds == {web, tui}
MCMessages == {m1, m2}
MCChannels == {c1, c2, c3}
MCDms == {c3}
MCOrder == <<m1, m2>>

S(ops, who, a1, a2, h2, cs, old) ==
    [ops |-> ops, present |-> {who}, author |-> [m \in MCMessages |-> IF m = m1 THEN a1 ELSE a2],
     home |-> [m \in MCMessages |-> IF m = m1 THEN c1 ELSE h2], chans |-> cs, old |-> old,
     flight |-> IF ops \cap {"react", "create"} # {} /\ "boot" \in ops THEN 1 ELSE 2]
MCScopes ==
    {S({"edit", "delete"}, web, web, peer, c2, {c1, c2}, {m1}),
     S({"edit", "boot"}, web, web, tui, c2, {c1}, {m1}),
     S({"edit", "boot"}, web, peer, tui, c2, {c1}, {m1}),
     S({"react", "boot"}, web, peer, tui, c1, {c1}, {m1}),
     S({"react"}, web, peer, tui, c1, {c1}, {m1}),
     S({"boot"}, web, peer, peer, c1, {c1, c2}, {m1}),
     S({"direct", "boot"}, web, peer, tui, c1, {c1}, {}),
     S({"direct", "leave"}, web, peer, tui, c1, {c1, c2}, {}),
     S({"create", "ack"}, web, web, tui, c3, {c1}, {m1}),
     S({"create", "boot"}, web, tui, tui, c2, {c1}, {}),
     S({"forward", "ack", "boot"}, web, peer, peer, c2, {c1, c2}, {m1}),
     S({"forward", "leave"}, web, web, peer, c1, {c1, c2}, {}),
     S({"members"}, web, tui, tui, c2, {c1, c2}, {}),
     S({"members", "boot"}, web, tui, tui, c2, {c1}, {}),
     S({"edit", "delete", "leave"}, tui, tui, peer, c2, {c1, c2}, {m1}),
     S({"create", "boot"}, tui, tui, web, c2, {c1}, {m1})}
===============================================================================
