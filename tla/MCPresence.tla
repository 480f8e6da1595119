------------------------------ MODULE MCPresence -------------------------------
(* Instances of Presence: three pages of two users and a terminal.   *)
EXTENDS Presence

CONSTANTS ann, bob, eve, w1, w2, c1, fresh, none, pa, pa2, pb, te, a1, a2, a3, b1, b2, e1

MCUsers == {ann, bob, eve}
MCWebs == {pa, pa2, pb}
MCTuis == {te}
MCUserOf == [p \in {pa, pa2, pb, te} |-> CASE p \in {pa, pa2} -> ann [] p = pb -> bob [] OTHER -> eve]
MCSocks == {a1, a2, a3, b1, b2, e1}
MCProgOf == [s \in MCSocks |-> CASE s \in {a1, a2} -> pa [] s = a3 -> pa2 [] s \in {b1, b2} -> pb [] OTHER -> te]
MCMember == [u \in MCUsers |-> CASE u = ann -> {w1, w2} [] u = bob -> {w1} [] OTHER -> {w2}]
S(ops, socks, ready, typists) == [ops |-> ops, socks |-> socks, ready |-> ready, typists |-> typists]
MCScopes ==
    {S({"drop"}, {a1, b1}, {}, {}),
     S({"drop"}, {a1, a2, b1}, {b1}, {}),
     S({"drop"}, {a1, a3, b1}, {b1}, {}),
     S({"drop"}, {a1, a3, e1}, {a1, e1}, {}),
     S({"drop"}, {b1, b2, e1, a1}, {b1, a1, e1}, {}),
     S({"create", "window"}, {a1, b1}, {a1, b1}, {pa}),
     S({"create"}, {a1, a3, b1}, {a1, a3, b1}, {pa, pa2}),
     S({"drop"}, {a1, b1, b2}, {a1, b1}, {pb}),
     S({"window"}, {a3, e1}, {a3, e1}, {pa2, te})}
===============================================================================
