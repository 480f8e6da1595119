------------------------------- MODULE MCSealing -------------------------------
(* Two pages, a direct message each way and a message in a channel.           *)
EXTENDS Sealing, TLC

CONSTANTS a, b, m1, m2, m3

Author    == (m1 :> a) @@ (m2 :> b) @@ (m3 :> a)
Recipient == (m1 :> b) @@ (m2 :> a) @@ (m3 :> a)

Gens(i, j) == (a :> i) @@ (b :> j)
MCScopes == {[msgs |-> {m1}, gens |-> Gens(2, 2)],
             [msgs |-> {m1, m2}, gens |-> Gens(1, 1)],
             [msgs |-> {m3}, gens |-> Gens(2, 2)]}
===============================================================================
