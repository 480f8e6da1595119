------------------------------ MODULE Workspaces ------------------------------
(* One workspace: roles, channels, memberships and mutes, as                  *)
(* workspaces/persistence-service.ts keeps them over either backend, and as   *)
(* the synchronous service.ts keeps them ("legacy").  Of a request only what  *)
(* survives its guards is shown: a refusal changes nothing.                   *)
EXTENDS Naturals, FiniteSets

CONSTANTS
    Users,       \* user ids
    Founder,     \* the user who created the workspace
    Channels,    \* channel ids, General being #general's
    General,
    Names,       \* channel names, GeneralName being "general"
    GeneralName,
    NoOne,       \* createdById of a direct message
    Slots,       \* bound: requests in flight
    Scopes       \* what an instance may choose: records of a backend, the
                 \* operations and the users they are about

Roles    == {"owner", "admin", "member"}
Managing == {"owner", "admin"}
Backends == {"memory", "drizzle", "legacy"}
MemberOps  == {"addMember", "removeMember", "transferOwnership"}
RewriteOps == {"updateChannel", "archiveChannel", "deleteChannel"}
AllOps == MemberOps \cup RewriteOps \cup
    {"createChannel", "addChannelMember", "removeChannelMember",
     "createOrGetDm", "muteChannel", "unmuteChannel"}

ASSUME ConstantsAssumption ==
    /\ Founder \in Users /\ General \in Channels /\ GeneralName \in Names
    /\ NoOne \notin Users
    /\ \A n \in Names, a, b \in Users : n # {a, b}
    /\ Scopes \subseteq [backend : Backends, ops : SUBSET AllOps, users : SUBSET Users]
    /\ \A sc \in Scopes : Founder \in sc.users

VARIABLES
    scope,    \* the backend and the operations of this behaviour
    role,     \* workspaceMembers: a role or "none"
    channel,  \* channels, by id
    member,   \* channelMembers: pairs of a channel and a user
    mute,     \* channelMutes: pairs of a user and a channel
    req,      \* the requests suspended at an await
    waived,   \* history: something happened that may cost a workspace its owner
    crossed,  \* history: channels two requests were about to rewrite at a time
    stray     \* history: memberships given to a user outside, or on the way out

vars == <<scope, role, channel, member, mute, req, waived, crossed, stray>>
-------------------------------------------------------------------------------
DmName(a, b) == {a, b}
AllNames == Names \cup {DmName(a, b) : a, b \in Users}
Row == [name : AllNames, kind : {"absent", "channel", "dm"},
        by : Users \cup {NoOne}, archived : BOOLEAN, deleted : BOOLEAN]
NewRow(n, k, a) ==
    [name |-> n, kind |-> k, by |-> a, archived |-> FALSE, deleted |-> FALSE]
Absent == NewRow(GeneralName, "absent", NoOne)

Exists(c) == channel[c].kind # "absent"
NameTaken(n) == \E c \in Channels : Exists(c) /\ channel[c].name = n
Idle == [op |-> "idle", pc |-> "idle"]
Free(s, op) == req[s] = Idle /\ op \in scope.ops /\ scope.backend # "legacy"
At(s, pc) == req[s].pc = pc
Goto(s, pc) == req' = [req EXCEPT ![s].pc = pc]
Done(s) == req' = [req EXCEPT ![s] = Idle]
\* Bound: a name is asked for only while a channel is left for each that is new.
Wanted == {req[s].name : s \in {t \in Slots : At(t, "create")}}
          \cup {DmName(req[s].a, req[s].u) : s \in {t \in Slots : req[t].op = "createOrGetDm"}}
Room(n) == Cardinality({m \in Wanted \cup {n} : ~NameTaken(m)}) <= Cardinality({c \in Channels : ~Exists(c)})

\* What the rules say of a request, given the roles it has read.
MayAdd(actorRole, r) ==
    actorRole \in Managing /\ (r = "owner" => actorRole = "owner")
MayRemove(actorRole, targetRole, self) ==
    /\ actorRole \in Managing
    /\ targetRole = "owner" => self
    /\ ~(actorRole = "admin" /\ targetRole = "admin")
MayManage(a, row, r) == row.by = a \/ r \in Managing

\* One more request on the roles, or on a channel, beside one not yet finished.
Overlaps(s) == \E t \in Slots \ {s} : req[t].op \in MemberOps
Crosses(s, c) == \E t \in Slots \ {s} : req[t].op \in RewriteOps /\ req[t].c = c
\* Giving u a membership while u is no member, or is being removed.
Outside(u) == role[u] = "none" \/ \E t \in Slots : req[t].op = "removeMember" /\ req[t].u = u
Strays(pairs) == stray' = stray \cup {p \in pairs : Outside(p[2])}

Init ==
    /\ scope \in Scopes
    /\ role \in [Users -> Roles \cup {"none"}] /\ role[Founder] = "owner"
    /\ \A u \in Users \ scope.users : role[u] = "none"
    /\ channel = [c \in Channels |->
                    IF c = General THEN NewRow(GeneralName, "channel", Founder) ELSE Absent]
    /\ member = {<<General, Founder>>}
    /\ mute = {}
    /\ req = [s \in Slots |-> Idle]
    /\ waived = FALSE /\ crossed = {} /\ stray = {}
-------------------------------------------------------------------------------
\* addMember: the actor's role is read, then the row is upserted, whatever it was.
AddMember(s, a, u, r) ==
    /\ Free(s, "addMember") /\ MayAdd(role[a], r)
    /\ req' = [req EXCEPT ![s] = [op |-> "addMember", pc |-> "upsert", a |-> a, u |-> u, r |-> r]]
    /\ waived' = (waived \/ Overlaps(s))
    /\ UNCHANGED <<scope, role, channel, member, mute, crossed, stray>>

UpsertMember(s) ==
    /\ At(s, "upsert")
    /\ role' = [role EXCEPT ![req[s].u] = req[s].r]
    /\ waived' = (waived \/ (role[req[s].u] = "owner" /\ req[s].r # "owner"))
    /\ Done(s)
    /\ UNCHANGED <<scope, channel, member, mute, crossed, stray>>

\* removeMember: two roles are read one after the other, then the rows go.
RemoveMember(s, a, u) ==
    /\ Free(s, "removeMember")
    /\ req' = [req EXCEPT ![s] = [op |-> "removeMember", pc |-> "target", a |-> a, u |-> u,
                                  r |-> role[a]]]
    /\ waived' = (waived \/ Overlaps(s))
    /\ UNCHANGED <<scope, role, channel, member, mute, crossed, stray>>

ReadTarget(s) ==
    /\ At(s, "target")
    /\ IF MayRemove(req[s].r, role[req[s].u], req[s].a = req[s].u)
       THEN Goto(s, IF scope.backend = "memory" THEN "remove" ELSE "list")
       ELSE Done(s)
    /\ UNCHANGED <<scope, role, channel, member, mute, waived, crossed, stray>>

\* Mutant: direct messages are left out of the clean-up.
RowsOf_ChannelsOnly(u, listed) ==
    {p \in member : p[1] \in listed /\ p[2] = u /\ channel[p[1]].kind = "channel"}

RowsOf(u, listed) == {p \in member : p[1] \in listed /\ p[2] = u}
Existing == {c \in Channels : Exists(c)}

Leave(u, rows) ==
    /\ member' = member \ rows
    /\ role' = [role EXCEPT ![u] = "none"]
    /\ waived' = (waived \/ role[u] = "owner")

DeleteInMemory(s) ==
    /\ At(s, "remove")
    /\ Leave(req[s].u, RowsOf(req[s].u, Existing))
    /\ Done(s)
    /\ UNCHANGED <<scope, channel, mute, crossed, stray>>

\* Over PostgreSQL a transaction lists the channels, deletes the memberships
\* in them, deletes the workspace member and commits.
ListChannels(s) ==
    /\ At(s, "list")
    /\ req' = [req EXCEPT ![s] = [op |-> "removeMember", pc |-> "rows", a |-> req[s].a,
                                  u |-> req[s].u, listed |-> Existing]]
    /\ UNCHANGED <<scope, role, channel, member, mute, waived, crossed, stray>>

DeleteRows(s) ==
    /\ At(s, "rows")
    /\ req' = [req EXCEPT ![s] = [op |-> "removeMember", pc |-> "commit", a |-> req[s].a,
                                  u |-> req[s].u, rows |-> RowsOf(req[s].u, req[s].listed)]]
    /\ UNCHANGED <<scope, role, channel, member, mute, waived, crossed, stray>>

DeleteCommit(s) ==
    /\ At(s, "commit")
    /\ Leave(req[s].u, req[s].rows)
    /\ Done(s)
    /\ UNCHANGED <<scope, channel, mute, crossed, stray>>

\* An insertion of a row that an open transaction deletes waits for its end.
Unlocked(pair) == \A t \in Slots : At(t, "commit") => pair \notin req[t].rows

\* transferOwnership: promote the target, then demote the actor.
TransferOwnership(s, a, u) ==
    /\ Free(s, "transferOwnership") /\ role[a] = "owner"
    /\ req' = [req EXCEPT ![s] = [op |-> "transferOwnership", pc |-> "promote", a |-> a, u |-> u]]
    /\ waived' = (waived \/ Overlaps(s) \/ a = u)
    /\ UNCHANGED <<scope, role, channel, member, mute, crossed, stray>>

\* Mutant: the transfer goes on though the new owner has left.
Promote_GoesOn(s) ==
    /\ At(s, "promote")
    /\ role' = [role EXCEPT ![req[s].u] = IF @ = "none" THEN @ ELSE "owner"]
    /\ Goto(s, "demote")
    /\ UNCHANGED <<scope, channel, member, mute, waived, crossed, stray>>

Promote(s) ==
    /\ At(s, "promote")
    /\ IF role[req[s].u] = "none"
       THEN Done(s) /\ UNCHANGED role
       ELSE Goto(s, "demote") /\ role' = [role EXCEPT ![req[s].u] = "owner"]
    /\ UNCHANGED <<scope, channel, member, mute, waived, crossed, stray>>

Demote(s) ==
    /\ At(s, "demote")
    /\ role' = [role EXCEPT ![req[s].a] = IF @ = "none" THEN @ ELSE "admin"]
    /\ Done(s)
    /\ UNCHANGED <<scope, channel, member, mute, waived, crossed, stray>>
-------------------------------------------------------------------------------
\* createChannel: access, then a transaction or a Map insertion; a name is
\* taken whatever became of the channel that has it.
CreateChannel(s, a, n) ==
    /\ Free(s, "createChannel") /\ Room(n) /\ role[a] # "none"
    /\ req' = [req EXCEPT ![s] = [op |-> "createChannel", pc |-> "create", a |-> a, name |-> n]]
    /\ UNCHANGED <<scope, role, channel, member, mute, waived, crossed, stray>>

InsertChannel(c, row, users) ==
    /\ ~Exists(c)
    /\ channel' = [channel EXCEPT ![c] = row]
    /\ member' = member \cup ({c} \X users)
    /\ Strays({c} \X users)

\* Mutant: the members are inserted whether or not the channel was.
Create_JoinsTaken(s) ==
    /\ At(s, "create")
    /\ \E c \in Channels :
          \/ /\ NameTaken(req[s].name) /\ ~Exists(c)
             /\ member' = member \cup {<<c, req[s].a>>}
             /\ UNCHANGED <<channel, stray>>
          \/ /\ ~NameTaken(req[s].name)
             /\ InsertChannel(c, NewRow(req[s].name, "channel", req[s].a), {req[s].a})
    /\ Done(s)
    /\ UNCHANGED <<scope, role, mute, waived, crossed>>

Create(s) ==
    /\ At(s, "create")
    /\ \/ /\ NameTaken(req[s].name)
          /\ UNCHANGED <<channel, member, stray>>
       \/ /\ ~NameTaken(req[s].name)
          /\ \E c \in Channels :
                InsertChannel(c, NewRow(req[s].name, "channel", req[s].a), {req[s].a})
    /\ Done(s)
    /\ UNCHANGED <<scope, role, mute, waived, crossed>>

\* updateChannel, archiveChannel, deleteChannel: the row is read, the right to
\* manage it is established, and the copy is written back with one change.
Rewrite(s, a, c, op, n) ==
    /\ Free(s, op) /\ Exists(c)
    /\ req' = [req EXCEPT ![s] =
                [op |-> op, pc |-> IF channel[c].by = a THEN "write" ELSE "manage",
                 a |-> a, c |-> c, row |-> channel[c], name |-> n]]
    /\ crossed' = IF Crosses(s, c) THEN crossed \cup {c} ELSE crossed
    /\ UNCHANGED <<scope, role, channel, member, mute, waived, stray>>

Manage(s) ==
    /\ At(s, "manage")
    /\ IF role[req[s].a] \in Managing THEN Goto(s, "write") ELSE Done(s)
    /\ UNCHANGED <<scope, role, channel, member, mute, waived, crossed, stray>>

\* Mutant: archiving writes a fresh row, not the one that was read.
Rewritten_Revives(row, op, n) ==
    CASE op = "updateChannel"  -> [row EXCEPT !.name = n]
      [] op = "archiveChannel" -> [row EXCEPT !.archived = TRUE, !.deleted = FALSE]
      [] op = "deleteChannel"  -> [row EXCEPT !.deleted = TRUE]

Rewritten(row, op, n) ==
    CASE op = "updateChannel"  -> [row EXCEPT !.name = n]
      [] op = "archiveChannel" -> [row EXCEPT !.archived = TRUE]
      [] op = "deleteChannel"  -> [row EXCEPT !.deleted = TRUE]

\* The unique index on names refuses a renaming over PostgreSQL only.
WriteChannel(s) ==
    /\ At(s, "write")
    /\ LET c == req[s].c
           row == Rewritten(req[s].row, req[s].op, req[s].name)
       IN  IF scope.backend = "drizzle" /\ \E d \in Channels \ {c} : Exists(d) /\ channel[d].name = row.name
           THEN UNCHANGED channel
           ELSE channel' = [channel EXCEPT ![c] = row]
    /\ Done(s)
    /\ UNCHANGED <<scope, role, member, mute, waived, crossed, stray>>
-------------------------------------------------------------------------------
\* addChannelMember and removeChannelMember: the channel, the actor's access,
\* the right to manage, and only then the row.
OnMember(s, a, u, c, op) ==
    /\ Free(s, op) /\ op \in {"addChannelMember", "removeChannelMember"} /\ Exists(c)
    /\ req' = [req EXCEPT ![s] =
                [op |-> op, pc |-> "access", a |-> a, u |-> u, c |-> c, row |-> channel[c]]]
    /\ UNCHANGED <<scope, role, channel, member, mute, waived, crossed, stray>>

Access(s) ==
    /\ At(s, "access")
    /\ IF role[req[s].a] # "none" THEN Goto(s, "members") ELSE Done(s)
    /\ UNCHANGED <<scope, role, channel, member, mute, waived, crossed, stray>>

ManageMembers(s) ==
    /\ At(s, "members")
    /\ LET may == MayManage(req[s].a, req[s].row, role[req[s].a])
       IN  CASE req[s].op = "addChannelMember" ->
                    IF may /\ ~req[s].row.archived /\ ~req[s].row.deleted
                    THEN Goto(s, "join") ELSE Done(s)
             [] OTHER -> IF may \/ req[s].a = req[s].u THEN Goto(s, "leave") ELSE Done(s)
    /\ UNCHANGED <<scope, role, channel, member, mute, waived, crossed, stray>>

UpsertChannelMember(s) ==
    /\ At(s, "join") /\ Unlocked(<<req[s].c, req[s].u>>)
    /\ member' = member \cup {<<req[s].c, req[s].u>>}
    /\ Strays({<<req[s].c, req[s].u>>})
    /\ Done(s)
    /\ UNCHANGED <<scope, role, channel, mute, waived, crossed>>

DeleteChannelMember(s) ==
    /\ At(s, "leave")
    /\ member' = member \ {<<req[s].c, req[s].u>>}
    /\ Done(s)
    /\ UNCHANGED <<scope, role, channel, mute, waived, crossed, stray>>

\* createOrGetDm: both users' access, then the channel named after the pair.
CreateOrGetDm(s, a, u) ==
    /\ Free(s, "createOrGetDm") /\ Room(DmName(a, u)) /\ role[a] # "none"
    /\ req' = [req EXCEPT ![s] = [op |-> "createOrGetDm", pc |-> "peer", a |-> a, u |-> u]]
    /\ UNCHANGED <<scope, role, channel, member, mute, waived, crossed, stray>>

PeerAccess(s) ==
    /\ At(s, "peer")
    /\ IF role[req[s].u] # "none" THEN Goto(s, "dm") ELSE Done(s)
    /\ UNCHANGED <<scope, role, channel, member, mute, waived, crossed, stray>>

CreateDm(s) ==
    /\ At(s, "dm")
    /\ LET n == DmName(req[s].a, req[s].u)
       IN  \/ /\ ~NameTaken(n)
              /\ \E c \in Channels : InsertChannel(c, NewRow(n, "dm", NoOne), n)
              /\ Done(s)
           \/ /\ NameTaken(n)
              /\ IF scope.backend = "memory" THEN Done(s) ELSE Goto(s, "existing")
              /\ UNCHANGED <<channel, member, stray>>
    /\ UNCHANGED <<scope, role, mute, waived, crossed>>

\* Over PostgreSQL a conflict is followed by a SELECT, which finds nothing when
\* the channel was renamed since, and by the insertion of both members.
SelectDm(s) ==
    /\ At(s, "existing")
    /\ LET n == DmName(req[s].a, req[s].u)
       IN  \/ /\ ~NameTaken(n) /\ Done(s)
           \/ \E c \in Existing :
                /\ channel[c].name = n
                /\ req' = [req EXCEPT ![s] = [op |-> "createOrGetDm", pc |-> "both",
                                              a |-> req[s].a, u |-> req[s].u, c |-> c]]
    /\ UNCHANGED <<scope, role, channel, member, mute, waived, crossed, stray>>

InsertBoth(s) ==
    /\ At(s, "both")
    /\ LET pairs == {req[s].c} \X DmName(req[s].a, req[s].u)
       IN  /\ \A p \in pairs : Unlocked(p)
           /\ member' = member \cup pairs
           /\ Strays(pairs)
    /\ Done(s)
    /\ UNCHANGED <<scope, role, channel, mute, waived, crossed>>
-------------------------------------------------------------------------------
\* canAccessChannel for muteChannel and unmuteChannel: the channel, then the
\* role (#general) or the membership, then the mute.
Mute(s, a, c, op) ==
    /\ Free(s, op) /\ op \in {"muteChannel", "unmuteChannel"}
    /\ Exists(c) /\ ~channel[c].deleted
    /\ req' = [req EXCEPT ![s] = [op |-> op, pc |-> "sees", a |-> a, c |-> c, row |-> channel[c]]]
    /\ UNCHANGED <<scope, role, channel, member, mute, waived, crossed, stray>>

Sees(a, c, row) ==
    IF row.kind = "channel" /\ row.name = GeneralName
    THEN role[a] # "none" ELSE <<c, a>> \in member

CanAccessChannel(s) ==
    /\ At(s, "sees")
    /\ IF Sees(req[s].a, req[s].c, req[s].row) THEN Goto(s, "setMuted") ELSE Done(s)
    /\ UNCHANGED <<scope, role, channel, member, mute, waived, crossed, stray>>

SetMuted(s) ==
    /\ At(s, "setMuted")
    /\ LET p == <<req[s].a, req[s].c>>
       IN  mute' = IF req[s].op = "muteChannel" THEN mute \cup {p} ELSE mute \ {p}
    /\ Done(s)
    /\ UNCHANGED <<scope, role, channel, member, waived, crossed, stray>>
-------------------------------------------------------------------------------
\* service.ts: the same rules, each operation in one synchronous step.
Legacy(op) == scope.backend = "legacy" /\ op \in scope.ops

LegacyMembers(a, u) ==
    \/ \E r \in Roles :
        /\ Legacy("addMember") /\ MayAdd(role[a], r)
        /\ role' = [role EXCEPT ![u] = r]
        /\ waived' = (waived \/ (role[u] = "owner" /\ r # "owner"))
        /\ UNCHANGED member
    \/ /\ Legacy("removeMember") /\ MayRemove(role[a], role[u], a = u)
       /\ Leave(u, RowsOf(u, Existing))
    \/ /\ Legacy("transferOwnership") /\ role[a] = "owner" /\ role[u] # "none"
       /\ role' = [role EXCEPT ![a] = "admin", ![u] = "owner"]
       /\ UNCHANGED <<member, waived>>

LegacyCreate(a, u, n) ==
    /\ role[a] # "none"
    /\ \E c \in Channels :
        \/ /\ Legacy("createChannel")
           /\ \A d \in Existing : channel[d].kind = "channel" /\ channel[d].name = n => channel[d].deleted
           /\ InsertChannel(c, NewRow(n, "channel", a), {a})
        \/ /\ Legacy("createOrGetDm") /\ role[u] # "none"
           /\ \A d \in Existing : channel[d].kind = "dm" => channel[d].name # DmName(a, u)
           /\ InsertChannel(c, NewRow(DmName(a, u), "dm", NoOne), DmName(a, u))

LegacyRewrite(a, c, op) ==
    /\ Legacy(op) /\ op \in {"archiveChannel", "deleteChannel"}
    /\ Exists(c) /\ MayManage(a, channel[c], role[a])
    /\ channel' = [channel EXCEPT ![c] = Rewritten(@, op, @.name)]

LegacyMember(a, u, c) ==
    /\ Exists(c) /\ role[a] # "none"
    /\ \/ /\ Legacy("addChannelMember") /\ MayManage(a, channel[c], role[a])
          /\ ~channel[c].archived /\ ~channel[c].deleted
          /\ member' = member \cup {<<c, u>>}
          /\ Strays({<<c, u>>})
       \/ /\ Legacy("removeChannelMember")
          /\ MayManage(a, channel[c], role[a]) \/ a = u
          /\ member' = member \ {<<c, u>>}
          /\ UNCHANGED stray

LegacyMute(a, c) ==
    /\ Exists(c) /\ ~channel[c].deleted /\ Sees(a, c, channel[c])
    /\ \/ Legacy("muteChannel") /\ mute' = mute \cup {<<a, c>>}
       \/ Legacy("unmuteChannel") /\ mute' = mute \ {<<a, c>>}

LegacyStep ==
    /\ \E a, u \in scope.users :
        \/ LegacyMembers(a, u) /\ UNCHANGED <<channel, mute, stray>>
        \/ \E n \in Names : LegacyCreate(a, u, n) /\ UNCHANGED <<role, mute, waived>>
        \/ \E c \in Channels, op \in RewriteOps :
            LegacyRewrite(a, c, op) /\ UNCHANGED <<role, member, mute, waived, stray>>
        \/ \E c \in Channels : LegacyMember(a, u, c) /\ UNCHANGED <<role, channel, mute, waived>>
        \/ \E c \in Channels : LegacyMute(a, c) /\ UNCHANGED <<role, channel, member, waived, stray>>
    /\ UNCHANGED <<scope, req, crossed>>
-------------------------------------------------------------------------------
Ask(s) ==
    \E a, u \in scope.users :
        \/ \E r \in Roles : AddMember(s, a, u, r)
        \/ RemoveMember(s, a, u)
        \/ TransferOwnership(s, a, u)
        \/ \E n \in Names : CreateChannel(s, a, n)
        \/ \E c \in Channels, op \in RewriteOps :
            \E n \in IF op = "updateChannel" THEN Names ELSE {channel[c].name} : Rewrite(s, a, c, op, n)
        \/ \E c \in Channels, op \in AllOps : OnMember(s, a, u, c, op)
        \/ CreateOrGetDm(s, a, u)
        \/ \E c \in Channels, op \in AllOps : Mute(s, a, c, op)

Step(s) ==
    \/ UpsertMember(s) \/ ReadTarget(s) \/ DeleteInMemory(s) \/ ListChannels(s)
    \/ DeleteRows(s) \/ DeleteCommit(s) \/ Promote(s) \/ Demote(s)
    \/ Create(s) \/ Manage(s) \/ WriteChannel(s)
    \/ Access(s) \/ ManageMembers(s) \/ UpsertChannelMember(s) \/ DeleteChannelMember(s)
    \/ PeerAccess(s) \/ CreateDm(s) \/ SelectDm(s) \/ InsertBoth(s)
    \/ CanAccessChannel(s) \/ SetMuted(s)

\* A restart over PostgreSQL: handlers vanish, open transactions roll back.
\* (In memory everything is lost, and what follows starts from Init.)
Restart ==
    /\ scope.backend = "drizzle" /\ \E s \in Slots : req[s] # Idle
    /\ req' = [s \in Slots |-> Idle]
    /\ UNCHANGED <<scope, role, channel, member, mute, waived, crossed, stray>>

Next == (\E s \in Slots : Ask(s) \/ Step(s)) \/ LegacyStep \/ Restart

Spec == Init /\ [][Next]_vars
-------------------------------------------------------------------------------
\* The type of a request, by the field set it carries.
RequestOk(r) ==
    \/ r = Idle
    \/ r \in [op : {"addMember"}, pc : {"upsert"}, a : Users, u : Users, r : Roles]
    \/ r \in [op : {"removeMember"}, pc : {"target", "remove", "list"}, a : Users, u : Users,
              r : Roles \cup {"none"}]
    \/ r \in [op : {"removeMember"}, pc : {"rows"}, a : Users, u : Users, listed : SUBSET Channels]
    \/ /\ r \in [op : {"removeMember"}, pc : {"commit"}, a : Users, u : Users,
                 rows : SUBSET (Channels \X Users)]
       /\ \A p \in r.rows : p[2] = r.u
    \/ r \in [op : {"transferOwnership"}, pc : {"promote", "demote"}, a : Users, u : Users]
    \/ r \in [op : {"createChannel"}, pc : {"create"}, a : Users, name : Names]
    \/ r \in [op : {"addChannelMember", "removeChannelMember"},
              pc : {"access", "members", "join", "leave"}, a : Users, u : Users, c : Existing, row : Row]
    \/ r \in [op : {"createOrGetDm"}, pc : {"peer", "dm", "existing"}, a : Users, u : Users]
    \/ r \in [op : {"createOrGetDm"}, pc : {"both"}, a : Users, u : Users, c : Existing]
    \/ r \in [op : {"muteChannel", "unmuteChannel"}, pc : {"sees", "setMuted"}, a : Users,
              c : Existing, row : Row]
    \/ /\ r \in [op : RewriteOps, pc : {"manage", "write"}, a : Users, c : Existing, row : Row,
                 name : AllNames]
       /\ r.row.kind = channel[r.c].kind /\ r.row.by = channel[r.c].by

\* Types; memberships and mutes are of existing channels; whatever a request
\* carries of a channel, however old, agrees with it on kind and creator.
Inv ==
    /\ scope \in Scopes
    /\ role \in [Users -> Roles \cup {"none"}]
    /\ channel \in [Channels -> Row]
    /\ member \subseteq Existing \X Users
    /\ mute \subseteq Users \X Existing
    /\ \A s \in Slots : RequestOk(req[s])
    /\ waived \in BOOLEAN /\ crossed \subseteq Channels /\ stray \subseteq Channels \X Users

\* A workspace keeps an owner, through crashes between the two updates of a
\* transfer too, unless two requests on roles overlapped, an owner left, was
\* overwritten by addMember, or transferred the ownership to himself.
OwnerRemains == waived \/ \E u \in Users : role[u] = "owner"

\* Who leaves the workspace keeps no channel, but those he was put into while
\* he was outside or being removed (no check of addChannelMember is about the
\* new member, and the transaction that removes him lists the channels first).
NoLeftovers == \A p \in member : role[p[2]] = "none" => p \in stray

\* A deleted channel stays deleted and an archived one archived, although
\* every rewriting stores a whole copy of the row, unless two rewritings of the
\* channel overlapped.
LifecycleForward ==
    [][\A c \in Channels : c \notin crossed =>
        /\ channel[c].deleted => channel'[c].deleted
        /\ channel[c].archived => channel'[c].archived]_vars
===============================================================================
