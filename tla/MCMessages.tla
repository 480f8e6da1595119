----------------------------- MODULE MCMessages -----------------------------
(* Small instances of Messages: a normal channel and an end-to-end encrypted  *)
(* one, one of which u1 has for itself, with ordinary text and ciphertexts    *)
(* that are read once or expire; or one normal channel that both users share. *)
EXTENDS Messages, TLC

CONSTANTS u1, u2, team, secret

MCMode     == (team :> "normal") @@ (secret :> "e2e")
MCAccess   == (team :> {u1}) @@ (secret :> {u1, u2})
OpenAccess == (team :> {u1, u2}) @@ (secret :> {u1})
MCManagers == (team :> {u1}) @@ (secret :> {})

CipherOnce  == [type |-> "ciphertext", readOnce |-> TRUE, expires |-> FALSE]
CipherTimed == [type |-> "ciphertext", readOnce |-> FALSE, expires |-> TRUE]
TextContents  == [type : {"text"}, text : Texts]
SomeContents  == TextContents \cup {CipherOnce}
AllContents   == TextContents \cup {CipherOnce, CipherTimed}

OneChannelMode     == (team :> "normal")
OneChannelAccess   == (team :> {u1, u2})
OneChannelManagers == (team :> {u1})

Interchangeable == Permutations(Msgs) \cup Permutations(Slots)
=============================================================================
