------------------------------ MODULE MCWorkspaces ------------------------------
(* Instances of Workspaces.  A behaviour picks one scope, so that the product *)
(* of all operations is never built: the roles alone, memberships against     *)
(* removals, channel life cycles, direct messages and mutes, the legacy       *)
(* service.                                                                   *)
EXTENDS Workspaces, TLC

CONSTANTS u1, u2, u3, g, c1, general, n1, noone, s1, s2

Scope(backends, opsets, users) == [backend : backends, ops : opsets, users : {users}]

MCUsers == {u1, u2, u3}
MCChannels == {g, c1}
MCNames == {general, n1}
MCSlots == {s1, s2}
Pair == {u1, u2}
MCScopes ==
    Scope({"memory"}, {{"transferOwnership", "removeMember"}}, MCUsers)
    \cup Scope({"memory", "drizzle"},
        {MemberOps, {"createChannel", "removeMember"}, {"addChannelMember", "removeMember"}, RewriteOps,
         {"createOrGetDm", "removeMember"}, {"createOrGetDm", "removeChannelMember"},
         {"createOrGetDm", "updateChannel"},
         {"muteChannel", "unmuteChannel", "createChannel"}}, Pair)
    \cup Scope({"legacy"}, {MemberOps}, MCUsers)
    \cup Scope({"legacy"},
        {{"createChannel", "createOrGetDm", "addChannelMember", "removeChannelMember", "removeMember"},
         RewriteOps \cup {"addChannelMember"},
         {"muteChannel", "unmuteChannel", "removeMember"}}, Pair)
Symmetry == Permutations(MCUsers \ {u1}) \cup Permutations(MCSlots)
===============================================================================
