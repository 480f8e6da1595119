----------------------------- MODULE MCPeerToPeer ------------------------------
(* Instances of PeerToPeer: a page of one user, one or two of the other, two   *)
(* messages of the same or of both users, with and without faults.             *)
EXTENDS PeerToPeer

CONSTANTS a, b, b2, ann, bob, m1, m2, m3, none

MCUserOf == [p \in Pages |-> IF p = a THEN ann ELSE bob]
MCPageOf == [m \in Messages |-> IF m = m3 THEN b ELSE a]
MCMode == [m \in Messages |-> IF m = m2 THEN "p2p" ELSE "auto"]
S(ps, ms, fs) == [pages |-> ps, msgs |-> ms, faults |-> fs]
MCScopes ==
    {S({a, b}, {m1, m2}, {}),
     S({a, b}, {m1, m3}, {}),
     S({a, b}, {m1, m2}, {"net"}),
     S({a, b}, {m1, m3}, {"leave"}),
     S({a, b, b2}, {m1, m2}, {}),
     S({a, b, b2}, {m1}, {"leave"})}
===============================================================================
