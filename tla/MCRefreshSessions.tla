-------------------------- MODULE MCRefreshSessions --------------------------
(* Small instances of RefreshSessions, with everything interchangeable. *)
EXTENDS RefreshSessions, TLC

Interchangeable == Permutations(Tokens) \cup Permutations(Tabs) \cup Permutations(Slots)
=============================================================================
