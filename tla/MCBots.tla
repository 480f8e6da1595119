-------------------------------- MODULE MCBots ---------------------------------
(* Instances of Bots: a helper and a notifier, three events, a batch of one,   *)
(* both drivers, each fault in a scope of its own.                             *)
EXTENDS Bots

CONSTANTS helper, notifier, open, other, secret, e1, e2, e3

MCWhere == [e \in Events |-> CASE e = e3 -> other [] OTHER -> open]
S(d, ops, ready, es) == [driver |-> d, ops |-> ops, ready |-> ready, events |-> es]
MCScopes ==
    {S("postgres", {"break"}, {helper}, Events),
     S("postgres", {"crash"}, {helper}, Events),
     S("memory", {"crash", "install"}, {helper}, {e1, e2}),
     S("memory", {"disconnect"}, {helper}, Events),
     S("postgres", {"install", "member"}, {}, {e1}),
     S("postgres", {"member"}, {helper}, {e2}),
     S("postgres", {}, {helper, notifier}, Events)}
===============================================================================
