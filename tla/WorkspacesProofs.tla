---------------------------- MODULE WorkspacesProofs ----------------------------
(* For any users, channels, names and requests in flight: the types of           *)
(* Workspaces, that a workspace keeps an owner, that who leaves it leaves no      *)
(* membership behind, and that a channel's life cycle only goes forward.          *)
EXTENDS Workspaces, TLAPS

\* The requests by what they carry, beside the channels ch.
Some(ch) == {c \in Channels : ch[c].kind # "absent"}
AddReq    == [op : {"addMember"}, pc : {"upsert"}, a : Users, u : Users, r : Roles]
RemoveReq == [op : {"removeMember"}, pc : {"target", "remove", "list"}, a : Users, u : Users,
              r : Roles \cup {"none"}]
RowsReq   == [op : {"removeMember"}, pc : {"rows"}, a : Users, u : Users, listed : SUBSET Channels]
CommitReq == [op : {"removeMember"}, pc : {"commit"}, a : Users, u : Users,
              rows : SUBSET (Channels \X Users)]
MoveReq   == [op : {"transferOwnership"}, pc : {"promote", "demote"}, a : Users, u : Users]
CreateReq == [op : {"createChannel"}, pc : {"create"}, a : Users, name : Names]
MemberReq(ch) == [op : {"addChannelMember", "removeChannelMember"},
                  pc : {"access", "members", "join", "leave"}, a : Users, u : Users, c : Some(ch), row : Row]
DmReq      == [op : {"createOrGetDm"}, pc : {"peer", "dm", "existing"}, a : Users, u : Users]
BothReq(ch) == [op : {"createOrGetDm"}, pc : {"both"}, a : Users, u : Users, c : Some(ch)]
MuteReq(ch) == [op : {"muteChannel", "unmuteChannel"}, pc : {"sees", "setMuted"}, a : Users,
                c : Some(ch), row : Row]
WriteReq(ch) == [op : RewriteOps, pc : {"manage", "write"}, a : Users, c : Some(ch), row : Row,
                 name : AllNames]

ReqOk(r, ch) ==
    \/ r = Idle
    \/ r \in AddReq \/ r \in RemoveReq \/ r \in RowsReq \/ r \in MoveReq \/ r \in CreateReq \/ r \in DmReq
    \/ r \in CommitReq /\ \A p \in r.rows : p[2] = r.u
    \/ r \in MemberReq(ch) \/ r \in BothReq(ch) \/ r \in MuteReq(ch)
    \/ r \in WriteReq(ch) /\ r.row.kind = ch[r.c].kind /\ r.row.by = ch[r.c].by

LEMMA SameRequests == \A r : (RequestOk(r) <=> ReqOk(r, channel)) /\ (RequestOk(r)' <=> ReqOk(r, channel'))
BY DEF RequestOk, ReqOk, Existing, Exists, Some, AddReq, RemoveReq, RowsReq, CommitReq, MoveReq, CreateReq,
       MemberReq, DmReq, BothReq, MuteReq, WriteReq

\* Where a request stands says what it carries.
LEMMA ByPc ==
  ASSUME NEW r, NEW ch, ReqOk(r, ch)
  PROVE  /\ r.pc = "upsert" => r \in AddReq
         /\ r.pc \in {"target", "remove", "list"} => r \in RemoveReq
         /\ r.pc = "rows" => r \in RowsReq
         /\ r.pc = "commit" => r \in CommitReq /\ \A p \in r.rows : p[2] = r.u
         /\ r.pc \in {"promote", "demote"} => r \in MoveReq
         /\ r.pc = "create" => r \in CreateReq
         /\ r.pc \in {"access", "members", "join", "leave"} => r \in MemberReq(ch)
         /\ r.pc \in {"peer", "dm", "existing"} => r \in DmReq
         /\ r.pc = "both" => r \in BothReq(ch)
         /\ r.pc \in {"sees", "setMuted"} => r \in MuteReq(ch)
         /\ r.pc \in {"manage", "write"} =>
              r \in WriteReq(ch) /\ r.row.kind = ch[r.c].kind /\ r.row.by = ch[r.c].by
BY DEF ReqOk, Idle, AddReq, RemoveReq, RowsReq, CommitReq, MoveReq, CreateReq, MemberReq, DmReq, BothReq,
       MuteReq, WriteReq

\* A channel keeps its kind and its creator; then a request stays right.
Keeps(ch, new) == \A c \in Channels : ch[c].kind # "absent" => new[c].kind = ch[c].kind /\ new[c].by = ch[c].by

LEMMA RequestKept ==
  ASSUME NEW r, NEW ch, NEW new, ReqOk(r, ch), Keeps(ch, new)
  PROVE  ReqOk(r, new)
<1>1. Some(ch) \subseteq Some(new)
  BY DEF Some, Keeps
<1>2. CASE r \in MemberReq(ch) \/ r \in BothReq(ch) \/ r \in MuteReq(ch)
  BY <1>1, <1>2 DEF ReqOk, MemberReq, BothReq, MuteReq
<1>3. CASE r \in WriteReq(ch) /\ r.row.kind = ch[r.c].kind /\ r.row.by = ch[r.c].by
  BY <1>1, <1>3 DEF ReqOk, WriteReq, Keeps, Some
<1> QED
  BY <1>2, <1>3 DEF ReqOk
-------------------------------------------------------------------------------
\* Inv beside what the model says nowhere: req is a function, and the legacy
\* service has no request in flight.
ReqFn  == req = [s \in Slots |-> req[s]]
Calm   == scope.backend = "legacy" => \A s \in Slots : req[s] = Idle
TypeInv == Inv /\ ReqFn /\ Calm

\* A step by a request, and what it leaves of the others.
LEMMA SlotStep ==
  ASSUME ReqFn, \A t \in Slots : ReqOk(req[t], channel), NEW s \in Slots, NEW r,
         req' = [req EXCEPT ![s] = r], ReqOk(r, channel'), Keeps(channel, channel')
  PROVE  ReqFn' /\ \A t \in Slots : ReqOk(req'[t], channel')
<1>1. ReqFn'
  BY DEF ReqFn
<1>2. ASSUME NEW t \in Slots PROVE ReqOk(req'[t], channel')
  <2>1. CASE t = s
    BY <2>1 DEF ReqFn
  <2>2. CASE t # s
    <3>1. req'[t] = req[t]
      BY <2>2 DEF ReqFn
    <3> QED
      BY <3>1, RequestKept
  <2> QED
    BY <2>1, <2>2
<1> QED
  BY <1>1, <1>2

StateOk == /\ role \in [Users -> Roles \cup {"none"}]
           /\ channel \in [Channels -> Row]
           /\ member \subseteq Some(channel) \X Users
           /\ mute \subseteq Users \X Some(channel)
           /\ crossed \subseteq Channels /\ stray \subseteq Channels \X Users
ReqsOk == ReqFn /\ \A t \in Slots : ReqOk(req[t], channel)

LEMMA TypeParts ==
  /\ TypeInv <=> scope \in Scopes /\ waived \in BOOLEAN /\ StateOk /\ ReqsOk /\ Calm
  /\ TypeInv' <=> scope' \in Scopes /\ waived' \in BOOLEAN /\ StateOk' /\ ReqsOk' /\ Calm'
BY SameRequests DEF TypeInv, Inv, StateOk, ReqsOk, Existing, Exists, Some

LEMMA TypeInitOk == Init => TypeInv
<1> SUFFICES ASSUME Init PROVE TypeInv
  OBVIOUS
<1>1. channel \in [Channels -> Row] /\ General \in Some(channel)
  BY ConstantsAssumption DEF Init, Row, NewRow, Absent, Some, AllNames
<1>2. StateOk
  BY <1>1, ConstantsAssumption DEF Init, StateOk, Roles
<1>3. ReqsOk /\ Calm
  BY DEF Init, ReqsOk, ReqFn, Calm, ReqOk
<1>4. waived \in BOOLEAN /\ scope \in Scopes
  BY DEF Init
<1> QED
  BY <1>2, <1>3, <1>4, TypeParts
-------------------------------------------------------------------------------
\* The actions that change nothing but requests, and histories.
LEMMA TypeAsk ==
  ASSUME TypeInv, NEW s \in Slots, Ask(s)
  PROVE  TypeInv'
<1>0. StateOk /\ ReqsOk /\ Calm /\ scope \in Scopes
  BY TypeParts
<1>1. PICK a \in scope.users, u \in scope.users :
        \/ \E r \in Roles : AddMember(s, a, u, r)
        \/ RemoveMember(s, a, u)
        \/ TransferOwnership(s, a, u)
        \/ \E n \in Names : CreateChannel(s, a, n)
        \/ \E c \in Channels, op \in RewriteOps :
            \E n \in IF op = "updateChannel" THEN Names ELSE {channel[c].name} : Rewrite(s, a, c, op, n)
        \/ \E c \in Channels, op \in AllOps : OnMember(s, a, u, c, op)
        \/ CreateOrGetDm(s, a, u)
        \/ \E c \in Channels, op \in AllOps : Mute(s, a, c, op)
  BY DEF Ask
<1>2. a \in Users /\ u \in Users
  BY <1>0, ConstantsAssumption
<1>3. \E r : req' = [req EXCEPT ![s] = r] /\ ReqOk(r, channel)
  <2> USE <1>0, <1>2
  <2>1. ASSUME NEW r \in Roles, AddMember(s, a, u, r) PROVE <1>3!:
    <3>1. [op |-> "addMember", pc |-> "upsert", a |-> a, u |-> u, r |-> r] \in AddReq
      BY DEF AddReq
    <3> QED
      BY <2>1, <3>1 DEF AddMember, ReqOk
  <2>2. ASSUME RemoveMember(s, a, u) PROVE <1>3!:
    <3>1. [op |-> "removeMember", pc |-> "target", a |-> a, u |-> u, r |-> role[a]] \in RemoveReq
      BY DEF RemoveReq, StateOk
    <3> QED
      BY <2>2, <3>1 DEF RemoveMember, ReqOk
  <2>3. ASSUME TransferOwnership(s, a, u) PROVE <1>3!:
    <3>1. [op |-> "transferOwnership", pc |-> "promote", a |-> a, u |-> u] \in MoveReq
      BY DEF MoveReq
    <3> QED
      BY <2>3, <3>1 DEF TransferOwnership, ReqOk
  <2>4. ASSUME NEW n \in Names, CreateChannel(s, a, n) PROVE <1>3!:
    <3>1. [op |-> "createChannel", pc |-> "create", a |-> a, name |-> n] \in CreateReq
      BY DEF CreateReq
    <3> QED
      BY <2>4, <3>1 DEF CreateChannel, ReqOk
  <2>5. ASSUME NEW c \in Channels, NEW op \in RewriteOps,
               NEW n \in IF op = "updateChannel" THEN Names ELSE {channel[c].name}, Rewrite(s, a, c, op, n)
        PROVE  <1>3!:
    <3> DEFINE r == [op |-> op, pc |-> IF channel[c].by = a THEN "write" ELSE "manage",
                     a |-> a, c |-> c, row |-> channel[c], name |-> n]
    <3>1. n \in AllNames /\ channel[c] \in Row
      BY DEF StateOk, Row, AllNames
    <3>2. r \in WriteReq(channel)
      BY <2>5, <3>1 DEF Rewrite, Exists, Some, WriteReq
    <3>3. r.row.kind = channel[r.c].kind /\ r.row.by = channel[r.c].by
      OBVIOUS
    <3>4. req' = [req EXCEPT ![s] = r]
      BY <2>5 DEF Rewrite
    <3> HIDE DEF r
    <3> QED
      BY <3>2, <3>3, <3>4 DEF ReqOk
  <2>6. ASSUME NEW c \in Channels, NEW op \in AllOps, OnMember(s, a, u, c, op) PROVE <1>3!:
    <3>1. [op |-> op, pc |-> "access", a |-> a, u |-> u, c |-> c, row |-> channel[c]] \in MemberReq(channel)
      BY <2>6 DEF OnMember, Exists, Some, MemberReq, StateOk
    <3> QED
      BY <2>6, <3>1 DEF OnMember, ReqOk
  <2>7. ASSUME CreateOrGetDm(s, a, u) PROVE <1>3!:
    <3>1. [op |-> "createOrGetDm", pc |-> "peer", a |-> a, u |-> u] \in DmReq
      BY DEF DmReq
    <3> QED
      BY <2>7, <3>1 DEF CreateOrGetDm, ReqOk
  <2>8. ASSUME NEW c \in Channels, NEW op \in AllOps, Mute(s, a, c, op) PROVE <1>3!:
    <3>1. [op |-> op, pc |-> "sees", a |-> a, c |-> c, row |-> channel[c]] \in MuteReq(channel)
      BY <2>8 DEF Mute, Exists, Some, MuteReq, StateOk
    <3> QED
      BY <2>8, <3>1 DEF Mute, ReqOk
  <2> QED
    BY <1>1, <2>1, <2>2, <2>3, <2>4, <2>5, <2>6, <2>7, <2>8
<1>7. /\ UNCHANGED <<scope, role, channel, member, mute, stray>>
      /\ scope.backend # "legacy" /\ crossed' \subseteq Channels
  BY <1>0, <1>1 DEF AddMember, RemoveMember, TransferOwnership, CreateChannel, Rewrite, OnMember,
                    CreateOrGetDm, Mute, Free, StateOk
<1>4. ReqsOk'
  BY <1>0, <1>3, <1>7, SlotStep DEF ReqsOk, Keeps
<1>5. StateOk' /\ Calm' /\ scope' \in Scopes
  BY <1>0, <1>7 DEF StateOk, Calm
<1>6. waived' \in BOOLEAN
  <2>1. waived \in BOOLEAN
    BY TypeParts
  <2> QED
    BY <1>1, <2>1 DEF AddMember, RemoveMember, TransferOwnership, CreateChannel, Rewrite, OnMember,
                      CreateOrGetDm, Mute
<1> QED
  BY <1>4, <1>5, <1>6, TypeParts
-------------------------------------------------------------------------------
\* A request that goes on to its next place carries what it did.
LEMMA Places ==
  ASSUME NEW r, NEW ch, ReqOk(r, ch), NEW pc,
         \/ r.pc = "target" /\ pc \in {"remove", "list"}
         \/ r.pc = "promote" /\ pc = "demote"
         \/ r.pc = "manage" /\ pc = "write"
         \/ r.pc \in {"access", "members"} /\ pc \in {"members", "join", "leave"}
         \/ r.pc \in {"peer", "dm"} /\ pc \in {"dm", "existing"}
         \/ r.pc = "sees" /\ pc = "setMuted"
  PROVE  ReqOk([r EXCEPT !.pc = pc], ch)
<1> DEFINE n == [r EXCEPT !.pc = pc]
<1>1. CASE r.pc = "target"
  <2>1. n \in RemoveReq
    BY <1>1, ByPc DEF RemoveReq
  <2> QED
    BY <2>1 DEF ReqOk
<1>2. CASE r.pc = "promote"
  <2>1. n \in MoveReq
    BY <1>2, ByPc DEF MoveReq
  <2> QED
    BY <2>1 DEF ReqOk
<1>3. CASE r.pc = "manage"
  <2>1. n \in WriteReq(ch) /\ n.row.kind = ch[n.c].kind /\ n.row.by = ch[n.c].by
    BY <1>3, ByPc DEF WriteReq
  <2> QED
    BY <2>1 DEF ReqOk
<1>4. CASE r.pc \in {"access", "members"}
  <2>1. n \in MemberReq(ch)
    BY <1>4, ByPc DEF MemberReq
  <2> QED
    BY <2>1 DEF ReqOk
<1>5. CASE r.pc \in {"peer", "dm"}
  <2>1. n \in DmReq
    BY <1>5, ByPc DEF DmReq
  <2> QED
    BY <2>1 DEF ReqOk
<1>6. CASE r.pc = "sees"
  <2>1. n \in MuteReq(ch)
    BY <1>6, ByPc DEF MuteReq
  <2> QED
    BY <2>1 DEF ReqOk
<1> QED
  BY <1>1, <1>2, <1>3, <1>4, <1>5, <1>6

\* The steps that only read, whatever they find.
Reads(s) == \/ ReadTarget(s) \/ ListChannels(s) \/ DeleteRows(s) \/ Manage(s) \/ Access(s)
            \/ ManageMembers(s) \/ PeerAccess(s) \/ SelectDm(s) \/ CanAccessChannel(s)

LEMMA ReadsMove ==
  ASSUME TypeInv, NEW s \in Slots, Reads(s)
  PROVE  \E r : req' = [req EXCEPT ![s] = r] /\ ReqOk(r, channel)
<1> DEFINE Moves == \E r : req' = [req EXCEPT ![s] = r] /\ ReqOk(r, channel)
<1>0. StateOk /\ ReqOk(req[s], channel)
  BY TypeParts DEF ReqsOk
<1>1. ASSUME Done(s) PROVE Moves
  BY <1>1 DEF Done, ReqOk
<1>2. ASSUME NEW pc, Goto(s, pc), ReqOk([req[s] EXCEPT !.pc = pc], channel) PROVE Moves
  BY <1>2 DEF Goto
<1>3. CASE ReadTarget(s)
  BY <1>0, <1>1, <1>2, <1>3, Places DEF ReadTarget, At
<1>4. CASE Manage(s)
  BY <1>0, <1>1, <1>2, <1>4, Places DEF Manage, At
<1>5. CASE Access(s)
  BY <1>0, <1>1, <1>2, <1>5, Places DEF Access, At
<1>6. CASE ManageMembers(s)
  BY <1>0, <1>1, <1>2, <1>6, Places DEF ManageMembers, At
<1>7. CASE PeerAccess(s)
  BY <1>0, <1>1, <1>2, <1>7, Places DEF PeerAccess, At
<1>8. CASE CanAccessChannel(s)
  BY <1>0, <1>1, <1>2, <1>8, Places DEF CanAccessChannel, At
<1>9. CASE ListChannels(s)
  <2>1. req[s] \in RemoveReq
    BY <1>0, <1>9, ByPc DEF ListChannels, At
  <2>2. [op |-> "removeMember", pc |-> "rows", a |-> req[s].a, u |-> req[s].u, listed |-> Existing] \in RowsReq
    BY <2>1 DEF RemoveReq, RowsReq, Existing
  <2> QED
    BY <1>9, <2>2 DEF ListChannels, ReqOk
<1>10. CASE DeleteRows(s)
  <2> DEFINE rows == RowsOf(req[s].u, req[s].listed)
             r == [op |-> "removeMember", pc |-> "commit", a |-> req[s].a, u |-> req[s].u, rows |-> rows]
  <2>1. req[s] \in RowsReq
    BY <1>0, <1>10, ByPc DEF DeleteRows, At
  <2>2. rows \subseteq Channels \X Users /\ \A p \in rows : p[2] = req[s].u
    BY <1>0 DEF RowsOf, StateOk, Some
  <2>3. r \in CommitReq /\ \A p \in r.rows : p[2] = r.u
    BY <2>1, <2>2 DEF RowsReq, CommitReq
  <2>4. req' = [req EXCEPT ![s] = r]
    BY <1>10 DEF DeleteRows
  <2> HIDE DEF r
  <2> QED
    BY <2>3, <2>4 DEF ReqOk
<1>11. CASE SelectDm(s)
  <2>1. req[s] \in DmReq
    BY <1>0, <1>11, ByPc DEF SelectDm, At
  <2>2. ASSUME NEW c \in Existing
        PROVE [op |-> "createOrGetDm", pc |-> "both", a |-> req[s].a, u |-> req[s].u, c |-> c] \in BothReq(channel)
    BY <2>1 DEF DmReq, BothReq, Existing, Exists, Some
  <2> QED
    BY <1>1, <1>11, <2>2 DEF SelectDm, ReqOk
<1> QED
  BY <1>3, <1>4, <1>5, <1>6, <1>7, <1>8, <1>9, <1>10, <1>11 DEF Reads

\* A request at work is not idle, so the service is not the legacy one.
LEMMA Assemble ==
  ASSUME TypeInv, NEW s \in Slots, req[s].pc # "idle", StateOk', waived' \in BOOLEAN, scope' = scope,
         Keeps(channel, channel'), \E r : req' = [req EXCEPT ![s] = r] /\ ReqOk(r, channel')
  PROVE  TypeInv'
<1>1. ReqsOk'
  BY TypeParts, SlotStep DEF ReqsOk
<1>2. Calm'
  BY DEF TypeInv, Calm, Idle
<1> QED
  BY <1>1, <1>2, TypeParts

LEMMA TypeReads ==
  ASSUME TypeInv, NEW s \in Slots, Reads(s)
  PROVE  TypeInv'
<1>1. /\ req[s].pc # "idle" /\ UNCHANGED <<scope, role, channel, member, mute, waived, crossed, stray>>
  BY DEF Reads, At, ReadTarget, ListChannels, DeleteRows, Manage, Access, ManageMembers, PeerAccess,
         SelectDm, CanAccessChannel
<1>2. StateOk' /\ waived' \in BOOLEAN /\ Keeps(channel, channel')
  BY <1>1, TypeParts DEF StateOk, Keeps
<1> QED
  BY <1>1, <1>2, ReadsMove, Assemble

\* A channel is put where there is none.
LEMMA Inserted ==
  ASSUME TypeInv, NEW c, NEW row \in Row, NEW us \in SUBSET Users, c \in Channels,
         row.kind # "absent", InsertChannel(c, row, us)
  PROVE  /\ channel' \in [Channels -> Row] /\ Keeps(channel, channel')
         /\ member' \subseteq Some(channel') \X Users /\ Some(channel) \subseteq Some(channel')
         /\ stray' \subseteq Channels \X Users
<1>0. StateOk
  BY TypeParts
<1>1. channel' \in [Channels -> Row] /\ Keeps(channel, channel') /\ c \in Some(channel')
  BY <1>0 DEF InsertChannel, StateOk, Keeps, Exists, Some
<1>2. Some(channel) \subseteq Some(channel')
  BY <1>0, <1>1 DEF Some, Keeps
<1>3. {c} \X us \subseteq Some(channel') \X Users /\ {c} \X us \subseteq Channels \X Users
  BY <1>1
<1> QED
  BY <1>0, <1>1, <1>2, <1>3 DEF InsertChannel, StateOk, Strays

LEMMA RowsMade ==
  /\ \A n \in Names, a \in Users : NewRow(n, "channel", a) \in Row /\ NewRow(n, "channel", a).kind # "absent"
  /\ \A a, b \in Users : /\ NewRow(DmName(a, b), "dm", NoOne) \in Row
                         /\ NewRow(DmName(a, b), "dm", NoOne).kind # "absent"
                         /\ DmName(a, b) \subseteq Users
  /\ \A row \in Row, op \in RewriteOps, n \in AllNames :
        /\ Rewritten(row, op, n) \in Row
        /\ Rewritten(row, op, n).kind = row.kind /\ Rewritten(row, op, n).by = row.by
<1>1. \A row \in Row, op \in RewriteOps, n \in AllNames :
        /\ Rewritten(row, op, n) \in Row
        /\ Rewritten(row, op, n).kind = row.kind /\ Rewritten(row, op, n).by = row.by
  BY DEF Row, Rewritten, RewriteOps
<1>2. \A a, b \in Users : DmName(a, b) \in AllNames /\ DmName(a, b) \subseteq Users
  BY DEF AllNames, DmName
<1> QED
  BY <1>1, <1>2 DEF NewRow, Row, AllNames

Writes(s) == \/ UpsertMember(s) \/ DeleteInMemory(s) \/ DeleteCommit(s) \/ Promote(s) \/ Demote(s)
             \/ Create(s) \/ WriteChannel(s) \/ UpsertChannelMember(s) \/ DeleteChannelMember(s)
             \/ CreateDm(s) \/ InsertBoth(s) \/ SetMuted(s)

LEMMA TypeWrites ==
  ASSUME TypeInv, NEW s \in Slots, Writes(s)
  PROVE  TypeInv'
<1> DEFINE Moves == \E r : req' = [req EXCEPT ![s] = r] /\ ReqOk(r, channel')
           Right == StateOk' /\ Keeps(channel, channel') /\ Moves
<1>a. req[s].pc # "idle" /\ scope' = scope
  BY DEF Writes, At, UpsertMember, DeleteInMemory, DeleteCommit, Promote, Demote, Create, WriteChannel,
         UpsertChannelMember, DeleteChannelMember, CreateDm, InsertBoth, SetMuted
<1>b. waived' \in BOOLEAN
  <2>1. waived \in BOOLEAN
    BY TypeParts
  <2> QED
    BY <2>1 DEF Writes, UpsertMember, DeleteInMemory, DeleteCommit, Leave, Promote, Demote, Create,
                WriteChannel, UpsertChannelMember, DeleteChannelMember, CreateDm, InsertBoth, SetMuted
<1> SUFFICES Right
  BY <1>a, <1>b, Assemble
<1>0. StateOk /\ ReqOk(req[s], channel)
  BY TypeParts DEF ReqsOk
<1>i. ASSUME Done(s) PROVE Moves
  BY <1>i DEF Done, ReqOk
<1> HIDE DEF Moves
<1>u. UNCHANGED channel => Keeps(channel, channel')
  BY DEF Keeps
<1>1. CASE UpsertMember(s)
  <2>1. req[s] \in AddReq
    BY <1>0, <1>1, ByPc DEF UpsertMember, At
  <2> QED
    BY <1>0, <1>i, <1>u, <1>1, <2>1 DEF UpsertMember, AddReq, StateOk
<1>2. CASE DeleteInMemory(s)
  BY <1>0, <1>i, <1>u, <1>2 DEF DeleteInMemory, Leave, StateOk
<1>3. CASE DeleteCommit(s)
  BY <1>0, <1>i, <1>u, <1>3 DEF DeleteCommit, Leave, StateOk
<1>4. CASE Promote(s)
  <2>1. ReqOk([req[s] EXCEPT !.pc = "demote"], channel)
    BY <1>0, <1>4, Places DEF Promote, At
  <2> QED
    BY <1>0, <1>i, <1>u, <1>4, <2>1 DEF Promote, Goto, StateOk, Roles, Moves
<1>5. CASE Demote(s)
  BY <1>0, <1>i, <1>u, <1>5 DEF Demote, StateOk, Roles
<1>6. CASE Create(s)
  <2>1. req[s] \in CreateReq
    BY <1>0, <1>6, ByPc DEF Create, At
  <2>2. CASE UNCHANGED <<channel, member, stray>>
    BY <1>0, <1>i, <1>u, <1>6, <2>2 DEF Create, StateOk
  <2>3. ASSUME NEW c \in Channels, InsertChannel(c, NewRow(req[s].name, "channel", req[s].a), {req[s].a})
        PROVE  Right
    <3>1. /\ channel' \in [Channels -> Row] /\ Keeps(channel, channel')
          /\ member' \subseteq Some(channel') \X Users /\ Some(channel) \subseteq Some(channel')
          /\ stray' \subseteq Channels \X Users
      BY <2>1, <2>3, RowsMade, Inserted DEF CreateReq
    <3> QED
      BY <1>0, <1>i, <1>6, <3>1 DEF Create, StateOk
  <2> QED
    BY <1>6, <2>2, <2>3 DEF Create
<1>7. CASE CreateDm(s)
  <2>1. req[s] \in DmReq
    BY <1>0, <1>7, ByPc DEF CreateDm, At
  <2>2. CASE UNCHANGED <<channel, member, stray>>
    <3>1. ReqOk([req[s] EXCEPT !.pc = "existing"], channel)
      BY <1>0, <1>7, Places DEF CreateDm, At
    <3>2. Done(s) \/ Goto(s, "existing")
      BY <1>7 DEF CreateDm
    <3>3. Moves
      BY <1>i, <2>2, <3>1, <3>2 DEF Goto, Moves
    <3> QED
      BY <1>0, <1>u, <1>7, <2>2, <3>3 DEF CreateDm, StateOk
  <2>3. ASSUME NEW c \in Channels, Done(s),
               InsertChannel(c, NewRow(DmName(req[s].a, req[s].u), "dm", NoOne), DmName(req[s].a, req[s].u))
        PROVE  Right
    <3>1. /\ channel' \in [Channels -> Row] /\ Keeps(channel, channel')
          /\ member' \subseteq Some(channel') \X Users /\ Some(channel) \subseteq Some(channel')
          /\ stray' \subseteq Channels \X Users
      BY <2>1, <2>3, RowsMade, Inserted DEF DmReq
    <3> QED
      BY <1>0, <1>i, <1>7, <2>3, <3>1 DEF CreateDm, StateOk
  <2> QED
    BY <1>7, <2>2, <2>3 DEF CreateDm
<1>8. CASE WriteChannel(s)
  <2> DEFINE row == Rewritten(req[s].row, req[s].op, req[s].name)
  <2>1. req[s] \in WriteReq(channel) /\ req[s].row.kind = channel[req[s].c].kind
                                    /\ req[s].row.by = channel[req[s].c].by
    BY <1>0, <1>8, ByPc DEF WriteChannel, At
  <2>2. row \in Row /\ row.kind = channel[req[s].c].kind /\ row.by = channel[req[s].c].by
    BY <2>1, RowsMade DEF WriteReq
  <2>3. UNCHANGED channel \/ channel' = [channel EXCEPT ![req[s].c] = row]
    BY <1>8 DEF WriteChannel
  <2> HIDE DEF row
  <2>4. channel' \in [Channels -> Row] /\ Keeps(channel, channel') /\ Some(channel') = Some(channel)
    BY <1>0, <2>1, <2>2, <2>3 DEF StateOk, Keeps, Some, WriteReq
  <2> QED
    BY <1>0, <1>i, <1>8, <2>4 DEF WriteChannel, StateOk
<1>9. CASE UpsertChannelMember(s)
  <2>1. req[s] \in MemberReq(channel)
    BY <1>0, <1>9, ByPc DEF UpsertChannelMember, At
  <2> QED
    BY <1>0, <1>i, <1>u, <1>9, <2>1 DEF UpsertChannelMember, MemberReq, StateOk, Strays, Some
<1>10. CASE DeleteChannelMember(s)
  BY <1>0, <1>i, <1>u, <1>10 DEF DeleteChannelMember, StateOk
<1>11. CASE InsertBoth(s)
  <2>1. req[s] \in BothReq(channel)
    BY <1>0, <1>11, ByPc DEF InsertBoth, At
  <2>2. {req[s].c} \X DmName(req[s].a, req[s].u) \subseteq Some(channel) \X Users
    BY <2>1 DEF BothReq, DmName
  <2>3. Some(channel) \subseteq Channels
    BY DEF Some
  <2> QED
    BY <1>0, <1>i, <1>u, <1>11, <2>2, <2>3 DEF InsertBoth, StateOk, Strays
<1>12. CASE SetMuted(s)
  <2>1. req[s] \in MuteReq(channel)
    BY <1>0, <1>12, ByPc DEF SetMuted, At
  <2> QED
    BY <1>0, <1>i, <1>u, <1>12, <2>1 DEF SetMuted, MuteReq, StateOk
<1> QED
  BY <1>1, <1>2, <1>3, <1>4, <1>5, <1>6, <1>7, <1>8, <1>9, <1>10, <1>11, <1>12 DEF Writes
-------------------------------------------------------------------------------
LEMMA IsLegacy == LegacyStep => scope.backend = "legacy"
<1>1. /\ \A a, u : LegacyMembers(a, u) => scope.backend = "legacy"
      /\ \A a, u, n : LegacyCreate(a, u, n) => scope.backend = "legacy"
      /\ \A a, c, op : LegacyRewrite(a, c, op) => scope.backend = "legacy"
      /\ \A a, u, c : LegacyMember(a, u, c) => scope.backend = "legacy"
      /\ \A a, c : LegacyMute(a, c) => scope.backend = "legacy"
  BY Zenon DEF LegacyMembers, LegacyCreate, LegacyRewrite, LegacyMember, LegacyMute, Legacy
<1> QED
  BY <1>1 DEF LegacyStep

LEMMA TypeLegacy == TypeInv /\ LegacyStep => TypeInv'
<1> SUFFICES ASSUME TypeInv, LegacyStep PROVE TypeInv'
  OBVIOUS
<1> DEFINE Right == StateOk' /\ Keeps(channel, channel') /\ waived' \in BOOLEAN
<1>0. StateOk /\ waived \in BOOLEAN /\ scope \in Scopes
  BY TypeParts
<1>s. scope' = scope /\ req' = req /\ crossed' = crossed
  BY DEF LegacyStep
<1> SUFFICES Right
  <2>1. ReqsOk'
    BY <1>s, TypeParts, RequestKept DEF ReqsOk, ReqFn
  <2> QED
    BY <1>0, <1>s, <2>1, TypeParts DEF Calm
<1>u. UNCHANGED channel => Keeps(channel, channel')
  BY DEF Keeps
<1> PICK a \in scope.users, u \in scope.users :
      \/ LegacyMembers(a, u) /\ UNCHANGED <<channel, mute, stray>>
      \/ \E n \in Names : LegacyCreate(a, u, n) /\ UNCHANGED <<role, mute, waived>>
      \/ \E c \in Channels, op \in RewriteOps :
            LegacyRewrite(a, c, op) /\ UNCHANGED <<role, member, mute, waived, stray>>
      \/ \E c \in Channels : LegacyMember(a, u, c) /\ UNCHANGED <<role, channel, mute, waived>>
      \/ \E c \in Channels : LegacyMute(a, c) /\ UNCHANGED <<role, channel, member, waived, stray>>
  BY DEF LegacyStep
<1>m. a \in Users /\ u \in Users
  BY <1>0, ConstantsAssumption
<1>1. CASE LegacyMembers(a, u) /\ UNCHANGED <<channel, mute, stray>>
  <2>1. waived' \in BOOLEAN
    BY <1>0, <1>1 DEF LegacyMembers, Leave
  <2>2. role' \in [Users -> Roles \cup {"none"}] /\ member' \subseteq member
    BY <1>0, <1>m, <1>1 DEF LegacyMembers, Leave, StateOk, Roles
  <2> QED
    BY <1>0, <1>s, <1>u, <1>1, <2>1, <2>2 DEF StateOk
<1>2. ASSUME NEW n \in Names, LegacyCreate(a, u, n), UNCHANGED <<role, mute, waived>> PROVE Right
  <2>1. PICK c \in Channels :
          \/ InsertChannel(c, NewRow(n, "channel", a), {a})
          \/ InsertChannel(c, NewRow(DmName(a, u), "dm", NoOne), DmName(a, u))
    BY <1>2 DEF LegacyCreate
  <2>2. /\ channel' \in [Channels -> Row] /\ Keeps(channel, channel')
        /\ member' \subseteq Some(channel') \X Users /\ Some(channel) \subseteq Some(channel')
        /\ stray' \subseteq Channels \X Users
    BY <1>m, <2>1, RowsMade, Inserted
  <2> QED
    BY <1>0, <1>s, <1>2, <2>2 DEF StateOk
<1>3. ASSUME NEW c \in Channels, NEW op \in RewriteOps, LegacyRewrite(a, c, op),
             UNCHANGED <<role, member, mute, waived, stray>>
      PROVE  Right
  <2> DEFINE row == Rewritten(channel[c], op, channel[c].name)
  <2>1. channel[c] \in Row /\ channel[c].name \in AllNames
    BY <1>0 DEF StateOk, Row
  <2>2. row \in Row /\ row.kind = channel[c].kind /\ row.by = channel[c].by
    BY <2>1, RowsMade
  <2>3. channel' = [channel EXCEPT ![c] = row]
    BY <1>3 DEF LegacyRewrite
  <2> HIDE DEF row
  <2>4. channel' \in [Channels -> Row] /\ Keeps(channel, channel') /\ Some(channel') = Some(channel)
    BY <1>0, <2>2, <2>3 DEF StateOk, Keeps, Some
  <2> QED
    BY <1>0, <1>s, <1>3, <2>4 DEF StateOk
<1>4. ASSUME NEW c \in Channels, LegacyMember(a, u, c), UNCHANGED <<role, channel, mute, waived>> PROVE Right
  BY <1>0, <1>s, <1>m, <1>u, <1>4 DEF LegacyMember, StateOk, Strays, Exists, Some
<1>5. ASSUME NEW c \in Channels, LegacyMute(a, c), UNCHANGED <<role, channel, member, waived, stray>> PROVE Right
  BY <1>0, <1>s, <1>m, <1>u, <1>5 DEF LegacyMute, StateOk, Exists, Some
<1> QED
  BY <1>1, <1>2, <1>3, <1>4, <1>5

LEMMA TypeRest == TypeInv /\ (Restart \/ UNCHANGED vars) => TypeInv'
<1>1. ASSUME TypeInv, Restart PROVE TypeInv'
  <2>1. StateOk' /\ waived' \in BOOLEAN /\ scope' \in Scopes
    BY <1>1, TypeParts DEF Restart, StateOk
  <2>2. ReqsOk' /\ Calm'
    BY <1>1 DEF Restart, ReqsOk, ReqFn, ReqOk, Calm
  <2> QED
    BY <2>1, <2>2, TypeParts
<1>2. ASSUME TypeInv, UNCHANGED vars PROVE TypeInv'
  <2>1. StateOk' /\ waived' \in BOOLEAN /\ scope' \in Scopes
    BY <1>2, TypeParts DEF vars, StateOk
  <2>2. ReqsOk' /\ Calm'
    BY <1>2, TypeParts DEF vars, ReqsOk, ReqFn, Calm
  <2> QED
    BY <2>1, <2>2, TypeParts
<1> QED
  BY <1>1, <1>2

LEMMA TypeKept == TypeInv /\ [Next]_vars => TypeInv'
BY TypeAsk, TypeReads, TypeWrites, TypeLegacy, TypeRest DEF Next, Step, Reads, Writes

\* Whatever a request carries of a channel, however old, agrees with the channel
\* on kind and creator; memberships and mutes are of existing channels.
THEOREM WorkspaceTypes == Spec => []Inv
<1>1. TypeInv => Inv
  BY DEF TypeInv
<1> QED
  BY TypeInitOk, TypeKept, <1>1, PTL DEF Spec
-------------------------------------------------------------------------------
\* A step is by one request; the others stay.
LEMMA OneSlot ==
  ASSUME TypeInv, NEW s \in Slots, Ask(s) \/ Step(s)
  PROVE  \A t \in Slots \ {s} : req'[t] = req[t]
<1>0. ReqFn
  BY DEF TypeInv
<1>1. \E r : req' = [req EXCEPT ![s] = r]
  <2>1. CASE Ask(s)
    BY <2>1 DEF Ask, AddMember, RemoveMember, TransferOwnership, CreateChannel, Rewrite, OnMember,
                CreateOrGetDm, Mute
  <2>2. CASE Reads(s)
    BY <2>2, ReadsMove
  <2>3. CASE Writes(s)
    BY <2>3 DEF Writes, UpsertMember, DeleteInMemory, DeleteCommit, Promote, Demote, Create, WriteChannel,
                UpsertChannelMember, DeleteChannelMember, CreateDm, InsertBoth, SetMuted, Done, Goto
  <2> QED
    BY <2>1, <2>2, <2>3 DEF Step, Reads, Writes
<1> QED
  BY <1>0, <1>1 DEF ReqFn

\* Unless the history says that it may have come to lose its owner: a workspace
\* has one; one request on roles is at work at a time; a transfer is to somebody
\* else, who is an owner before the actor stops being one.
Alone  == \A s, t \in Slots : req[s].op \in MemberOps /\ req[t].op \in MemberOps => s = t
Passed == \A s \in Slots : req[s].op = "transferOwnership" =>
            req[s].a # req[s].u /\ (req[s].pc = "demote" => role[req[s].u] = "owner")
OwnerInv == ~waived => (\E u \in Users : role[u] = "owner") /\ Alone /\ Passed

\* The steps that touch no role, and are no part of a transfer.
RoleSteps(s) == UpsertMember(s) \/ DeleteInMemory(s) \/ DeleteCommit(s) \/ Promote(s) \/ Demote(s)

LEMMA OtherSteps ==
  ASSUME TypeInv, NEW s \in Slots, Step(s), ~RoleSteps(s)
  PROVE  /\ UNCHANGED <<role, waived>> /\ req[s].op # "transferOwnership"
         /\ req'[s].op = req[s].op \/ req'[s].op = "idle"
<1>0. ReqFn /\ ReqOk(req[s], channel)
  BY TypeParts DEF ReqsOk
<1>1. UNCHANGED <<role, waived>>
  BY DEF Step, RoleSteps, ReadTarget, ListChannels, DeleteRows, Manage, Access, ManageMembers, PeerAccess,
         SelectDm, CanAccessChannel, Create, WriteChannel, UpsertChannelMember, DeleteChannelMember,
         CreateDm, InsertBoth, SetMuted
<1>2. req[s].pc \notin {"promote", "demote"} /\ req[s].pc # "idle"
  BY DEF Step, RoleSteps, At, ReadTarget, ListChannels, DeleteRows, Manage, Access, ManageMembers, PeerAccess,
         SelectDm, CanAccessChannel, Create, WriteChannel, UpsertChannelMember, DeleteChannelMember,
         CreateDm, InsertBoth, SetMuted
<1>3. req[s].op # "transferOwnership"
  BY <1>0, <1>2 DEF ReqOk, Idle, AddReq, RemoveReq, RowsReq, CommitReq, MoveReq, CreateReq, MemberReq, DmReq,
                    BothReq, MuteReq, WriteReq, RewriteOps
<1>4. req'[s].op = req[s].op \/ req'[s].op = "idle"
  <2> DEFINE Same == req'[s].op = req[s].op \/ req'[s].op = "idle"
  <2> SUFFICES Same
    OBVIOUS
  <2>1. ASSUME Done(s) PROVE Same
    BY <1>0, <2>1 DEF Done, ReqFn, Idle
  <2>2. ASSUME NEW pc, Goto(s, pc) PROVE Same
    BY <1>0, <2>2 DEF Goto, ReqFn, ReqOk, Idle, AddReq, RemoveReq, RowsReq, CommitReq, MoveReq, CreateReq,
                      MemberReq, DmReq, BothReq, MuteReq, WriteReq
  <2>3. CASE ListChannels(s)
    BY <1>0, <2>3, ByPc DEF ListChannels, At, ReqFn, RemoveReq
  <2>4. CASE DeleteRows(s)
    BY <1>0, <2>4, ByPc DEF DeleteRows, At, ReqFn, RowsReq
  <2>5. CASE SelectDm(s)
    BY <1>0, <2>1, <2>5, ByPc DEF SelectDm, At, ReqFn, DmReq
  <2> HIDE DEF Same
  <2>6. CASE \/ ReadTarget(s) \/ Manage(s) \/ Access(s) \/ ManageMembers(s) \/ PeerAccess(s)
             \/ CanAccessChannel(s) \/ CreateDm(s)
    <3>1. Done(s) \/ \E pc : Goto(s, pc)
      BY <2>6 DEF ReadTarget, Manage, Access, ManageMembers, PeerAccess, CanAccessChannel, CreateDm
    <3> QED
      BY <2>1, <2>2, <3>1
  <2>7. CASE \/ Create(s) \/ WriteChannel(s) \/ UpsertChannelMember(s) \/ DeleteChannelMember(s)
             \/ InsertBoth(s) \/ SetMuted(s)
    BY <2>1, <2>7 DEF Create, WriteChannel, UpsertChannelMember, DeleteChannelMember, InsertBoth, SetMuted
  <2> QED
    BY <2>3, <2>4, <2>5, <2>6, <2>7 DEF Step, RoleSteps
<1> QED
  BY <1>1, <1>3, <1>4

LEMMA OwnerAsk ==
  ASSUME TypeInv, OwnerInv, NEW s \in Slots, Ask(s)
  PROVE  OwnerInv'
<1> SUFFICES ASSUME ~waived' PROVE OwnerInv'
  BY DEF OwnerInv
<1>0. ReqFn /\ \A t \in Slots \ {s} : req'[t] = req[t]
  BY OneSlot DEF TypeInv
<1>1. PICK a \in scope.users, u \in scope.users :
        \/ \E r \in Roles : AddMember(s, a, u, r)
        \/ RemoveMember(s, a, u)
        \/ TransferOwnership(s, a, u)
        \/ \E n \in Names : CreateChannel(s, a, n)
        \/ \E c \in Channels, op \in RewriteOps :
            \E n \in IF op = "updateChannel" THEN Names ELSE {channel[c].name} : Rewrite(s, a, c, op, n)
        \/ \E c \in Channels, op \in AllOps : OnMember(s, a, u, c, op)
        \/ CreateOrGetDm(s, a, u)
        \/ \E c \in Channels, op \in AllOps : Mute(s, a, c, op)
  BY DEF Ask
<1>2. CASE (\E r \in Roles : AddMember(s, a, u, r)) \/ RemoveMember(s, a, u) \/ TransferOwnership(s, a, u)
  <2>1. /\ UNCHANGED role /\ ~waived /\ ~Overlaps(s)
        /\ req'[s].op = "transferOwnership" => req'[s].a # req'[s].u /\ req'[s].pc # "demote"
    <3>1. UNCHANGED role /\ ~waived /\ ~Overlaps(s)
      BY <1>2 DEF AddMember, RemoveMember, TransferOwnership
    <3>2. CASE (\E r \in Roles : AddMember(s, a, u, r)) \/ RemoveMember(s, a, u)
      <4>1. req'[s].op # "transferOwnership"
        BY <1>0, <3>2 DEF AddMember, RemoveMember, ReqFn
      <4> QED
        BY <3>1, <4>1
    <3>3. CASE TransferOwnership(s, a, u)
      <4>1. a # u
        BY <3>3 DEF TransferOwnership
      <4>2. req'[s] = [op |-> "transferOwnership", pc |-> "promote", a |-> a, u |-> u]
        BY <1>0, <3>3 DEF TransferOwnership, ReqFn
      <4> QED
        BY <3>1, <4>1, <4>2
    <3> QED
      BY <1>2, <3>2, <3>3
  <2> QED
    BY <1>0, <2>1 DEF OwnerInv, Alone, Passed, Overlaps
<1>3. CASE ~((\E r \in Roles : AddMember(s, a, u, r)) \/ RemoveMember(s, a, u) \/ TransferOwnership(s, a, u))
  <2>1. UNCHANGED <<role, waived>> /\ req'[s].op \notin MemberOps
    BY <1>0, <1>1, <1>3 DEF CreateChannel, Rewrite, OnMember, CreateOrGetDm, Mute, ReqFn, MemberOps, RewriteOps
  <2> QED
    BY <1>0, <2>1 DEF OwnerInv, Alone, Passed, MemberOps
<1> QED
  BY <1>2, <1>3

LEMMA OwnerStep ==
  ASSUME TypeInv, OwnerInv, NEW s \in Slots, Step(s)
  PROVE  OwnerInv'
<1> SUFFICES ASSUME ~waived' PROVE OwnerInv'
  BY DEF OwnerInv
<1>0. /\ ReqFn /\ StateOk /\ ReqOk(req[s], channel) /\ \A t \in Slots \ {s} : req'[t] = req[t]
  BY OneSlot, TypeParts DEF ReqsOk
<1>1. CASE ~RoleSteps(s)
  <2>1. /\ UNCHANGED <<role, waived>> /\ req[s].op # "transferOwnership"
        /\ req'[s].op = req[s].op \/ req'[s].op = "idle"
    BY <1>1, OtherSteps
  <2> QED
    BY <1>0, <2>1 DEF OwnerInv, Alone, Passed, MemberOps
<1>2. CASE UpsertMember(s)
  <2>1. req[s] \in AddReq /\ req'[s] = Idle /\ ~waived
    BY <1>0, <1>2, ByPc DEF UpsertMember, At, Done, ReqFn
  <2>2. \E u \in Users : role'[u] = "owner"
    BY <1>0, <1>2, <2>1 DEF UpsertMember, StateOk, OwnerInv, AddReq
  <2> QED
    BY <1>0, <2>1, <2>2 DEF OwnerInv, Alone, Passed, AddReq, MemberOps, Idle
<1>3. CASE DeleteInMemory(s) \/ DeleteCommit(s)
  <2>1. req[s].op = "removeMember" /\ req[s].u \in Users /\ req'[s] = Idle
    BY <1>0, <1>3, ByPc DEF DeleteInMemory, DeleteCommit, At, Done, ReqFn, RemoveReq, CommitReq
  <2>2. ~waived /\ role[req[s].u] # "owner" /\ role' = [role EXCEPT ![req[s].u] = "none"]
    BY <1>3 DEF DeleteInMemory, DeleteCommit, Leave
  <2>3. \E u \in Users : role'[u] = "owner"
    BY <1>0, <2>2 DEF StateOk, OwnerInv
  <2> QED
    BY <1>0, <2>1, <2>2, <2>3 DEF OwnerInv, Alone, Passed, MemberOps, Idle
<1>4. CASE Promote(s)
  <2>1. req[s] \in MoveReq /\ ~waived
    BY <1>0, <1>4, ByPc DEF Promote, At
  <2>2. CASE Done(s) /\ UNCHANGED role
    BY <1>0, <2>1, <2>2 DEF Done, ReqFn, OwnerInv, Alone, Passed, MemberOps, Idle
  <2>3. CASE Goto(s, "demote") /\ role' = [role EXCEPT ![req[s].u] = "owner"]
    <3>1. req'[s].op = req[s].op /\ req'[s].a = req[s].a /\ req'[s].u = req[s].u
      BY <1>0, <2>1, <2>3 DEF Goto, ReqFn, MoveReq
    <3>2. role'[req[s].u] = "owner" /\ req[s].u \in Users /\ req[s].op = "transferOwnership"
      BY <1>0, <2>1, <2>3 DEF StateOk, MoveReq
    <3> QED
      BY <1>0, <2>1, <3>1, <3>2 DEF OwnerInv, Alone, Passed, MemberOps
  <2> QED
    BY <1>4, <2>2, <2>3 DEF Promote
<1>5. CASE Demote(s)
  <2>1. req[s] \in MoveReq /\ req[s].pc = "demote" /\ ~waived /\ req'[s] = Idle
    BY <1>0, <1>5, ByPc DEF Demote, At, Done, ReqFn
  <2>2. role'[req[s].u] = "owner" /\ req[s].u \in Users
    BY <1>0, <1>5, <2>1 DEF Demote, StateOk, MoveReq, OwnerInv, Passed
  <2> QED
    BY <1>0, <2>1, <2>2 DEF OwnerInv, Alone, Passed, MoveReq, MemberOps, Idle
<1> QED
  BY <1>1, <1>2, <1>3, <1>4, <1>5 DEF RoleSteps

LEMMA OwnerKept == TypeInv /\ OwnerInv /\ [Next]_vars => OwnerInv'
<1>1. ASSUME TypeInv, OwnerInv, LegacyStep PROVE OwnerInv'
  <2>0. scope.backend = "legacy"
    BY <1>1, IsLegacy
  <2>1. req' = req /\ StateOk /\ scope \in Scopes /\ \A s \in Slots : req[s] = Idle
    BY <1>1, <2>0, TypeParts DEF LegacyStep, Calm
  <2>2. ~waived' => \E u \in Users : role'[u] = "owner"
    <3> SUFFICES ASSUME ~waived' PROVE \E u \in Users : role'[u] = "owner"
      OBVIOUS
    <3>1. CASE UNCHANGED <<role, waived>>
      BY <1>1, <3>1 DEF OwnerInv
    <3>2. ASSUME NEW a \in scope.users, NEW u \in scope.users, LegacyMembers(a, u)
          PROVE  \E v \in Users : role'[v] = "owner"
      <4>1. a \in Users /\ u \in Users
        BY <2>1, ConstantsAssumption
      <4>2. ~waived
        BY <3>2 DEF LegacyMembers, Leave
      <4> QED
        BY <1>1, <2>1, <3>2, <4>1, <4>2 DEF LegacyMembers, Leave, OwnerInv, StateOk
    <3> QED
      BY <1>1, <3>1, <3>2 DEF LegacyStep
  <2> QED
    BY <2>1, <2>2 DEF OwnerInv, Alone, Passed, Idle, MemberOps
<1>2. ASSUME TypeInv, OwnerInv, Restart \/ UNCHANGED vars PROVE OwnerInv'
  BY <1>2 DEF Restart, vars, OwnerInv, Alone, Passed, Idle, MemberOps
<1> QED
  BY <1>1, <1>2, OwnerAsk, OwnerStep DEF Next

\* persistence-service.ts:154-190: for any users and any number of requests in
\* flight, through restarts between the two updates of a transfer, a workspace
\* has an owner unless requests on roles overlapped, an owner left or was
\* overwritten by addMember, or ownership was transferred to the owner himself.
THEOREM OwnerStays == Spec => []OwnerRemains
<1>1. Init => OwnerInv
  BY ConstantsAssumption DEF Init, OwnerInv, Alone, Passed, Idle, MemberOps
<1>2. OwnerInv => OwnerRemains
  BY DEF OwnerInv, OwnerRemains
<1> QED
  BY TypeInitOk, TypeKept, OwnerKept, <1>1, <1>2, PTL DEF Spec
-------------------------------------------------------------------------------
\* A removal under way over PostgreSQL has listed, or deletes, every membership
\* of the user but those given to him meanwhile.
LeftInv ==
    /\ NoLeftovers
    /\ \A s \in Slots : \A p \in member :
        /\ req[s].pc = "rows" /\ p[2] = req[s].u => p[1] \in req[s].listed \/ p \in stray
        /\ req[s].pc = "commit" /\ p[2] = req[s].u => p \in req[s].rows \/ p \in stray

\* Memberships given by a step: to members who are not being removed, or stray.
Grown == /\ stray \subseteq stray'
         /\ \A p \in member' \ member : ~Outside(p[2]) \/ p \in stray'

LEMMA GrownInserted ==
  ASSUME NEW c, NEW row, NEW us, InsertChannel(c, row, us) PROVE Grown
BY DEF InsertChannel, Strays, Grown

\* No step but these gives or takes a membership or a role away.
LEMMA MemberSteps ==
  ASSUME TypeInv, NEW s \in Slots, Ask(s) \/ Step(s),
         ~(DeleteInMemory(s) \/ DeleteCommit(s))
  PROVE  /\ Grown
         /\ \A u \in Users : role'[u] = "none" => role[u] = "none"
<1>0. StateOk /\ ReqOk(req[s], channel)
  BY TypeParts DEF ReqsOk
<1> DEFINE Keep == \A u \in Users : role'[u] = "none" => role[u] = "none"
<1>1. CASE Ask(s)
  BY <1>1 DEF Ask, AddMember, RemoveMember, TransferOwnership, CreateChannel, Rewrite, OnMember,
              CreateOrGetDm, Mute, Grown
<1>2. CASE Reads(s)
  BY <1>2 DEF Reads, ReadTarget, ListChannels, DeleteRows, Manage, Access, ManageMembers, PeerAccess, SelectDm,
              CanAccessChannel, Grown
<1>3. CASE UpsertMember(s)
  <2>1. req[s] \in AddReq
    BY <1>0, <1>3, ByPc DEF UpsertMember, At
  <2> QED
    BY <1>0, <1>3, <2>1 DEF UpsertMember, StateOk, AddReq, Roles, Grown
<1>4. CASE Promote(s) \/ Demote(s)
  BY <1>0, <1>4 DEF Promote, Demote, StateOk, Grown
<1>5. CASE Create(s) \/ CreateDm(s)
  <2>1. UNCHANGED role
    BY <1>5 DEF Create, CreateDm
  <2>2. UNCHANGED <<member, stray>> \/ \E c, row, us : InsertChannel(c, row, us)
    BY <1>5 DEF Create, CreateDm
  <2>3. Grown
    BY <2>2, GrownInserted DEF Grown
  <2> QED
    BY <2>1, <2>3
<1>6. CASE UpsertChannelMember(s) \/ InsertBoth(s)
  BY <1>6 DEF UpsertChannelMember, InsertBoth, Strays, Grown
<1>7. CASE DeleteChannelMember(s) \/ SetMuted(s) \/ WriteChannel(s)
  BY <1>7 DEF DeleteChannelMember, SetMuted, WriteChannel, Grown
<1> QED
  BY <1>1, <1>2, <1>3, <1>4, <1>5, <1>6, <1>7 DEF Step, Reads

\* Where the stepping request may be afterwards.
LEMMA NextPlace ==
  ASSUME TypeInv, NEW s \in Slots, Ask(s) \/ Step(s)
  PROVE  /\ req'[s].pc = "rows" => ListChannels(s)
         /\ req'[s].pc = "commit" => DeleteRows(s)
<1>0. ReqFn /\ ReqOk(req[s], channel)
  BY TypeParts DEF ReqsOk
<1> DEFINE Right == req'[s].pc \notin {"rows", "commit"}
<1>1. ASSUME Done(s) PROVE Right
  BY <1>0, <1>1 DEF Done, ReqFn, Idle
<1>2. ASSUME NEW pc, Goto(s, pc), pc \notin {"rows", "commit"} PROVE Right
  BY <1>0, <1>2 DEF Goto, ReqFn, ReqOk, Idle, AddReq, RemoveReq, RowsReq, CommitReq, MoveReq, CreateReq,
                    MemberReq, DmReq, BothReq, MuteReq, WriteReq
<1>3. CASE Ask(s)
  <2>1. Right
    BY <1>0, <1>3 DEF Ask, AddMember, RemoveMember, TransferOwnership, CreateChannel, Rewrite, OnMember,
                      CreateOrGetDm, Mute, ReqFn
  <2> QED
    BY <2>1
<1>4. CASE SelectDm(s)
  <2>1. Right
    BY <1>0, <1>1, <1>4 DEF SelectDm, ReqFn
  <2> QED
    BY <2>1
<1>5. CASE ListChannels(s)
  BY <1>0, <1>5 DEF ListChannels, ReqFn
<1>6. CASE DeleteRows(s)
  BY <1>0, <1>6 DEF DeleteRows, ReqFn
<1>7. CASE ~(Ask(s) \/ SelectDm(s) \/ ListChannels(s) \/ DeleteRows(s))
  <2>1. Done(s) \/ \E pc : Goto(s, pc) /\ pc \notin {"rows", "commit"}
    BY <1>7 DEF Step, UpsertMember, ReadTarget, DeleteInMemory, DeleteCommit, Promote, Demote, Create, Manage,
                WriteChannel, Access, ManageMembers, UpsertChannelMember, DeleteChannelMember, PeerAccess,
                CreateDm, InsertBoth, CanAccessChannel, SetMuted
  <2>2. Right
    BY <1>1, <1>2, <2>1
  <2> QED
    BY <2>2
<1> QED
  BY <1>3, <1>4, <1>5, <1>6, <1>7

LEMMA LeftStep ==
  ASSUME TypeInv, LeftInv, NEW s \in Slots, Ask(s) \/ Step(s)
  PROVE  LeftInv'
<1>0. /\ StateOk /\ ReqFn /\ \A t \in Slots : ReqOk(req[t], channel)
      /\ \A t \in Slots \ {s} : req'[t] = req[t]
  BY OneSlot, TypeParts DEF ReqsOk
<1>1. \A p \in member : p[1] \in Some(channel) /\ p[2] \in Users
  BY <1>0 DEF StateOk
<1>2. CASE DeleteInMemory(s) \/ DeleteCommit(s)
  <2>1. /\ req[s].u \in Users /\ role' = [role EXCEPT ![req[s].u] = "none"] /\ stray' = stray
        /\ member' \subseteq member /\ req'[s] = Idle
        /\ \A p \in member' : p[2] = req[s].u => p \in stray
    <3>1. CASE DeleteInMemory(s)
      <4>1. req[s] \in RemoveReq
        BY <1>0, <3>1, ByPc DEF DeleteInMemory, At
      <4> QED
        BY <1>0, <1>1, <3>1, <4>1 DEF DeleteInMemory, Leave, RowsOf, Existing, Exists, Some, RemoveReq, Done, ReqFn
    <3>2. CASE DeleteCommit(s)
      <4>1. req[s] \in CommitReq /\ req[s].pc = "commit"
        BY <1>0, <3>2, ByPc DEF DeleteCommit, At
      <4> QED
        BY <1>0, <3>2, <4>1 DEF DeleteCommit, Leave, CommitReq, LeftInv, Done, ReqFn
    <3> QED
      BY <1>2, <3>1, <3>2
  <2>2. NoLeftovers'
    BY <1>0, <1>1, <2>1 DEF NoLeftovers, LeftInv, StateOk
  <2>3. \A t \in Slots : \A p \in member' :
          /\ req'[t].pc = "rows" /\ p[2] = req'[t].u => p[1] \in req'[t].listed \/ p \in stray'
          /\ req'[t].pc = "commit" /\ p[2] = req'[t].u => p \in req'[t].rows \/ p \in stray'
    BY <1>0, <2>1 DEF LeftInv, Idle
  <2> QED
    BY <2>2, <2>3 DEF LeftInv
<1>3. CASE ~(DeleteInMemory(s) \/ DeleteCommit(s))
  <2>1. Grown /\ \A u \in Users : role'[u] = "none" => role[u] = "none"
    BY <1>3, MemberSteps
  <2>2. member' \subseteq Some(channel') \X Users
    BY TypeKept, TypeParts DEF StateOk, Next
  <2>3. NoLeftovers'
    BY <2>1, <2>2 DEF NoLeftovers, LeftInv, Grown, Outside
  <2>4. ASSUME NEW t \in Slots, NEW p \in member'
        PROVE  /\ req'[t].pc = "rows" /\ p[2] = req'[t].u => p[1] \in req'[t].listed \/ p \in stray'
               /\ req'[t].pc = "commit" /\ p[2] = req'[t].u => p \in req'[t].rows \/ p \in stray'
    <3>1. CASE t # s
      <4>1. req'[t] = req[t]
        BY <1>0, <3>1
      <4>2. req[t].pc \in {"rows", "commit"} => req[t].op = "removeMember"
        BY <1>0, ByPc DEF RowsReq, CommitReq
      <4> QED
        BY <2>1, <4>1, <4>2 DEF Grown, Outside, LeftInv
    <3>2. CASE t = s /\ ListChannels(s)
      <4>1. req'[s].listed = Existing /\ req'[s].pc = "rows" /\ member' = member
        BY <1>0, <3>2 DEF ListChannels, ReqFn
      <4> QED
        BY <1>1, <3>2, <4>1 DEF Existing, Exists, Some
    <3>3. CASE t = s /\ DeleteRows(s)
      <4>1. /\ req'[s].rows = RowsOf(req[s].u, req[s].listed) /\ req'[s].pc = "commit" /\ req'[s].u = req[s].u
            /\ UNCHANGED <<member, stray>> /\ req[s].pc = "rows"
        BY <1>0, <3>3 DEF DeleteRows, ReqFn, At
      <4> QED
        BY <3>3, <4>1 DEF RowsOf, LeftInv
    <3>4. CASE t = s /\ ~ListChannels(s) /\ ~DeleteRows(s)
      BY <3>4, NextPlace
    <3> QED
      BY <3>1, <3>2, <3>3, <3>4
  <2> QED
    BY <2>3, <2>4 DEF LeftInv
<1> QED
  BY <1>2, <1>3

LEMMA LeftKept == TypeInv /\ LeftInv /\ [Next]_vars => LeftInv'
<1>1. ASSUME TypeInv, LeftInv, LegacyStep PROVE LeftInv'
  <2>0. scope.backend = "legacy"
    BY <1>1, IsLegacy
  <2>1. req' = req /\ StateOk /\ StateOk' /\ scope \in Scopes /\ \A s \in Slots : req[s] = Idle
    BY <1>1, <2>0, TypeParts, TypeLegacy DEF LegacyStep, Calm
  <2>2. \A p \in member : p[1] \in Some(channel) /\ p[2] \in Users
    BY <2>1 DEF StateOk
  <2>3. \A p \in member' : p[2] \in Users
    BY <2>1 DEF StateOk
  <2>4. PICK a \in scope.users, u \in scope.users :
        \/ LegacyMembers(a, u) /\ UNCHANGED <<channel, mute, stray>>
        \/ \E n \in Names : LegacyCreate(a, u, n) /\ UNCHANGED <<role, mute, waived>>
        \/ \E c \in Channels, op \in RewriteOps :
              LegacyRewrite(a, c, op) /\ UNCHANGED <<role, member, mute, waived, stray>>
        \/ \E c \in Channels : LegacyMember(a, u, c) /\ UNCHANGED <<role, channel, mute, waived>>
        \/ \E c \in Channels : LegacyMute(a, c) /\ UNCHANGED <<role, channel, member, waived, stray>>
    BY <1>1 DEF LegacyStep
  <2>5. a \in Users /\ u \in Users
    BY <2>1, ConstantsAssumption
  <2>6. NoLeftovers'
    <3>1. CASE LegacyMembers(a, u) /\ UNCHANGED <<channel, mute, stray>>
      <4>1. CASE Leave(u, RowsOf(u, Existing))
        BY <1>1, <2>1, <2>2, <2>5, <3>1, <4>1
           DEF Leave, RowsOf, Existing, Exists, Some, NoLeftovers, LeftInv, StateOk
      <4>2. CASE ~Leave(u, RowsOf(u, Existing))
        <5>1. member' = member /\ \A v \in Users : role'[v] = "none" => role[v] = "none"
          BY <2>1, <2>5, <3>1, <4>2 DEF LegacyMembers, Roles, StateOk
        <5> QED
          BY <1>1, <2>2, <3>1, <5>1 DEF NoLeftovers, LeftInv
      <4> QED
        BY <4>1, <4>2
    <3>2. ASSUME UNCHANGED role, Grown PROVE NoLeftovers'
      BY <1>1, <3>2 DEF Grown, Outside, NoLeftovers, LeftInv
    <3>3. ASSUME NEW n \in Names, LegacyCreate(a, u, n), UNCHANGED <<role, mute, waived>> PROVE Grown
      BY <3>3, GrownInserted DEF LegacyCreate
    <3>4. ASSUME NEW c \in Channels, LegacyMember(a, u, c) PROVE Grown
      BY <3>4 DEF LegacyMember, Strays, Grown
    <3>5. ASSUME UNCHANGED <<member, stray>> PROVE Grown
      BY <3>5 DEF Grown
    <3> QED
      BY <2>4, <3>1, <3>2, <3>3, <3>4, <3>5
  <2> QED
    BY <2>1, <2>6 DEF LeftInv, Idle
<1>2. ASSUME TypeInv, LeftInv, Restart \/ UNCHANGED vars PROVE LeftInv'
  BY <1>2 DEF Restart, vars, LeftInv, NoLeftovers, Idle
<1> QED
  BY <1>1, <1>2, LeftStep DEF Next

\* persistence-service.ts:133-160, persistence.ts: who leaves the workspace keeps
\* no membership of a channel, whatever runs beside his removal, but those that
\* were given to him while he was outside or being removed.
THEOREM LeavesNothing == Spec => []NoLeftovers
<1>1. Init => LeftInv
  BY ConstantsAssumption DEF Init, LeftInv, NoLeftovers, Idle
<1>2. LeftInv => NoLeftovers
  BY DEF LeftInv
<1> QED
  BY TypeInitOk, TypeKept, LeftKept, <1>1, <1>2, PTL DEF Spec
-------------------------------------------------------------------------------
\* Of a channel that was never rewritten by two requests at a time, a rewriting
\* holds the row as it is; and no row is of a channel that is absent.
CopyInv ==
    /\ \A c \in Channels : channel[c].kind = "absent" => ~channel[c].deleted /\ ~channel[c].archived
    /\ \A s, t \in Slots :
          req[s].op \in RewriteOps /\ req[t].op \in RewriteOps /\ req[s].c = req[t].c /\ req[s].c \notin crossed
            => s = t
    /\ \A s \in Slots : req[s].op \in RewriteOps /\ req[s].c \notin crossed => req[s].row = channel[req[s].c]

Forward == \A c \in Channels : c \notin crossed =>
             /\ channel[c].deleted => channel'[c].deleted
             /\ channel[c].archived => channel'[c].archived

\* Of the requests at work only Manage leaves one that rewrites, as it was.
LEMMA NextRewrite ==
  ASSUME TypeInv, NEW s \in Slots, Step(s), req'[s].op \in RewriteOps
  PROVE  Manage(s) /\ req[s].op \in RewriteOps /\ req'[s].c = req[s].c /\ req'[s].row = req[s].row
<1>0. ReqFn /\ ReqOk(req[s], channel)
  BY TypeParts DEF ReqsOk
<1> DEFINE Other == req'[s].op \notin RewriteOps
<1>1. ASSUME Done(s) PROVE Other
  BY <1>0, <1>1 DEF Done, ReqFn, Idle, RewriteOps
<1>2. ASSUME NEW pc, Goto(s, pc), req[s].op \notin RewriteOps PROVE Other
  BY <1>0, <1>2 DEF Goto, ReqFn, ReqOk, Idle, AddReq, RemoveReq, RowsReq, CommitReq, MoveReq, CreateReq,
                    MemberReq, DmReq, BothReq, MuteReq, WriteReq, RewriteOps
<1>3. CASE Manage(s)
  <2>1. req[s] \in WriteReq(channel)
    BY <1>0, <1>3, ByPc DEF Manage, At
  <2>2. Goto(s, "write")
    BY <1>1, <1>3 DEF Manage
  <2> QED
    BY <1>0, <1>3, <2>1, <2>2 DEF Goto, ReqFn, WriteReq
<1>4. CASE ~Manage(s)
  <2>1. CASE ListChannels(s) \/ DeleteRows(s)
    BY <1>0, <2>1 DEF ListChannels, DeleteRows, ReqFn, RewriteOps
  <2>2. CASE SelectDm(s)
    BY <1>0, <1>1, <2>2 DEF SelectDm, ReqFn, RewriteOps
  <2>3. CASE ~(ListChannels(s) \/ DeleteRows(s) \/ SelectDm(s))
    <3>1. Done(s) \/ ((\E pc : Goto(s, pc)) /\ req[s].pc \notin {"idle", "manage", "write"})
      BY <1>4, <2>3 DEF Step, At, UpsertMember, ReadTarget, DeleteInMemory, DeleteCommit, Promote, Demote, Create,
            WriteChannel, Access, ManageMembers, UpsertChannelMember, DeleteChannelMember, PeerAccess, CreateDm,
            InsertBoth, CanAccessChannel, SetMuted
    <3>2. req[s].pc \notin {"idle", "manage", "write"} => req[s].op \notin RewriteOps
      BY <1>0 DEF ReqOk, Idle, AddReq, RemoveReq, RowsReq, CommitReq, MoveReq, CreateReq, MemberReq, DmReq,
                  BothReq, MuteReq, WriteReq, RewriteOps
    <3> QED
      BY <1>1, <1>2, <3>1, <3>2
  <2> QED
    BY <2>1, <2>2, <2>3
<1> QED
  BY <1>3, <1>4

\* Which request may rewrite a channel, and which steps change one at all.
LEMMA ChannelSteps ==
  ASSUME TypeInv, NEW s \in Slots, Ask(s) \/ Step(s), ~WriteChannel(s)
  PROVE  \/ UNCHANGED channel
         \/ \E row : \E c \in Channels : ~Exists(c) /\ channel' = [channel EXCEPT ![c] = row]
                                    /\ ~row.deleted /\ ~row.archived /\ row.kind # "absent"
<1>0. ASSUME NEW n, NEW k \in {"channel", "dm"}, NEW a, NEW us,
             \E c \in Channels : InsertChannel(c, NewRow(n, k, a), us)
      PROVE  \E row : \E c \in Channels : ~Exists(c) /\ channel' = [channel EXCEPT ![c] = row]
                                    /\ ~row.deleted /\ ~row.archived /\ row.kind # "absent"
  <2>1. ~NewRow(n, k, a).deleted /\ ~NewRow(n, k, a).archived /\ NewRow(n, k, a).kind # "absent"
    BY DEF NewRow
  <2> QED
    BY <1>0, <2>1 DEF InsertChannel
<1>1. CASE Create(s)
  BY <1>0, <1>1 DEF Create
<1>2. CASE CreateDm(s)
  BY <1>0, <1>2 DEF CreateDm
<1>3. CASE ~Create(s) /\ ~CreateDm(s)
  BY <1>3 DEF Ask, AddMember, RemoveMember, TransferOwnership, CreateChannel, Rewrite, OnMember, CreateOrGetDm,
              Mute, Step, UpsertMember, ReadTarget, DeleteInMemory, ListChannels, DeleteRows, DeleteCommit, Promote,
              Demote, Manage, Access, ManageMembers, UpsertChannelMember, DeleteChannelMember, PeerAccess,
              SelectDm, InsertBoth, CanAccessChannel, SetMuted
<1> QED
  BY <1>1, <1>2, <1>3

LEMMA CopyStep ==
  ASSUME TypeInv, CopyInv, NEW s \in Slots, Ask(s) \/ Step(s)
  PROVE  CopyInv' /\ Forward
<1>0. /\ StateOk /\ ReqFn /\ \A t \in Slots : ReqOk(req[t], channel)
      /\ \A t \in Slots \ {s} : req'[t] = req[t]
  BY OneSlot, TypeParts DEF ReqsOk
<1>1. \A t \in Slots : req[t].op \in RewriteOps => req[t] \in WriteReq(channel)
  BY <1>0 DEF ReqOk, Idle, AddReq, RemoveReq, RowsReq, CommitReq, MoveReq, CreateReq, MemberReq, DmReq,
              BothReq, MuteReq, WriteReq, RewriteOps
<1>2. \A t \in Slots : req[t].op \in RewriteOps => req[t].c \in Some(channel)
  BY <1>1 DEF WriteReq
<1>3. crossed \subseteq crossed'
  BY DEF Ask, AddMember, RemoveMember, TransferOwnership, CreateChannel, Rewrite, OnMember, CreateOrGetDm,
         Mute, Step, UpsertMember, ReadTarget, DeleteInMemory, ListChannels, DeleteRows, DeleteCommit, Promote,
         Demote, Create, WriteChannel, Manage, Access, ManageMembers, UpsertChannelMember, DeleteChannelMember,
         PeerAccess, CreateDm, SelectDm, InsertBoth, CanAccessChannel, SetMuted
<1>4. CASE WriteChannel(s)
  <2> DEFINE row == Rewritten(req[s].row, req[s].op, req[s].name)
  <2>1. req[s] \in WriteReq(channel) /\ req[s].row.kind = channel[req[s].c].kind
    BY <1>0, <1>4, ByPc DEF WriteChannel, At
  <2>2. /\ req[s].row.deleted => row.deleted
        /\ req[s].row.archived => row.archived
        /\ row.kind = req[s].row.kind
    BY <2>1 DEF Rewritten, RewriteOps, WriteReq, Row
  <2>3. /\ UNCHANGED channel \/ channel' = [channel EXCEPT ![req[s].c] = row]
        /\ req'[s] = Idle /\ crossed' = crossed
    BY <1>0, <1>4 DEF WriteChannel, Done, ReqFn
  <2>4. req[s].op \in RewriteOps /\ req[s].c \in Some(channel)
    BY <2>1 DEF WriteReq
  <2> HIDE DEF row
  <2>5. Forward
    BY <1>0, <2>2, <2>3, <2>4 DEF Forward, CopyInv, StateOk
  <2>6. \A c \in Channels : channel'[c].kind = "absent" => ~channel'[c].deleted /\ ~channel'[c].archived
    BY <1>0, <2>1, <2>2, <2>3, <2>4 DEF CopyInv, Exists, Some, StateOk
  <2>7. \A t, v \in Slots :
          req'[t].op \in RewriteOps /\ req'[v].op \in RewriteOps /\ req'[t].c = req'[v].c /\ req'[t].c \notin crossed'
            => t = v
    BY <1>0, <2>3 DEF CopyInv, Idle, RewriteOps
  <2>8. \A t \in Slots : req'[t].op \in RewriteOps /\ req'[t].c \notin crossed' => req'[t].row = channel'[req'[t].c]
    <3> SUFFICES ASSUME NEW t \in Slots, req'[t].op \in RewriteOps, req'[t].c \notin crossed'
                 PROVE  req'[t].row = channel'[req'[t].c]
      OBVIOUS
    <3>1. t # s
      BY <2>3 DEF Idle, RewriteOps
    <3>2. req'[t] = req[t] /\ req[t].row = channel[req[t].c] /\ req[t].c # req[s].c
      BY <1>0, <2>3, <2>4, <3>1 DEF CopyInv
    <3>3. channel'[req[t].c] = channel[req[t].c]
      BY <1>0, <1>2, <2>3, <3>2 DEF StateOk, Some
    <3> QED
      BY <3>2, <3>3
  <2> QED
    BY <2>5, <2>6, <2>7, <2>8 DEF CopyInv
<1>5. CASE ~WriteChannel(s)
  <2>1. \/ UNCHANGED channel
        \/ \E row : \E c \in Channels : ~Exists(c) /\ channel' = [channel EXCEPT ![c] = row]
                                   /\ ~row.deleted /\ ~row.archived /\ row.kind # "absent"
    BY <1>5, ChannelSteps
  <2>2. /\ \A c \in Some(channel) : channel'[c] = channel[c]
        /\ \A c \in Channels : channel'[c].kind = "absent" => channel'[c] = channel[c]
    BY <1>0, <2>1 DEF Exists, Some, StateOk
  <2>3. Forward
    BY <2>2 DEF Forward, CopyInv, Exists, Some
  <2>4. req'[s].op \in RewriteOps =>
          \/ req[s].op \in RewriteOps /\ req'[s].c = req[s].c /\ req'[s].row = req[s].row
          \/ /\ req'[s].c \in Some(channel) /\ req'[s].row = channel[req'[s].c]
             /\ Crosses(s, req'[s].c) => req'[s].c \in crossed'
    <3>1. CASE Step(s)
      BY <3>1, NextRewrite
    <3>2. ASSUME NEW a, NEW c \in Channels, NEW op \in RewriteOps, NEW n, Rewrite(s, a, c, op, n)
          PROVE  <2>4!:
      <4>1. /\ req'[s].c = c /\ req'[s].row = channel[c] /\ Exists(c)
            /\ Crosses(s, c) => c \in crossed'
        BY <1>0, <3>2 DEF Rewrite, ReqFn
      <4> QED
        BY <4>1 DEF Exists, Some
    <3>3. CASE Ask(s) /\ ~\E a, n : \E c \in Channels, op \in RewriteOps : Rewrite(s, a, c, op, n)
      <4>1. req'[s].op \notin RewriteOps
        BY <1>0, <3>3 DEF Ask, AddMember, RemoveMember, TransferOwnership, CreateChannel, OnMember,
                          CreateOrGetDm, Mute, ReqFn, RewriteOps
      <4> QED
        BY <4>1
    <3> QED
      BY <3>1, <3>2, <3>3
  <2>5. \A t \in Slots : req'[t].op \in RewriteOps /\ req'[t].c \notin crossed' => req'[t].row = channel'[req'[t].c]
    BY <1>0, <1>2, <1>3, <2>2, <2>4 DEF CopyInv
  <2>6. \A t, v \in Slots :
          req'[t].op \in RewriteOps /\ req'[v].op \in RewriteOps /\ req'[t].c = req'[v].c /\ req'[t].c \notin crossed'
            => t = v
    BY <1>0, <1>3, <2>4 DEF CopyInv, Crosses
  <2>7. \A c \in Channels : channel'[c].kind = "absent" => ~channel'[c].deleted /\ ~channel'[c].archived
    BY <2>2 DEF CopyInv
  <2> QED
    BY <2>3, <2>5, <2>6, <2>7 DEF CopyInv
<1> QED
  BY <1>4, <1>5

LEMMA CopyKept == TypeInv /\ CopyInv /\ [Next]_vars => CopyInv' /\ Forward
<1>1. ASSUME TypeInv, CopyInv, LegacyStep PROVE CopyInv' /\ Forward
  <2>1. req' = req /\ crossed' = crossed /\ StateOk
    BY <1>1, TypeParts DEF LegacyStep
  <2>2. \A c \in Channels :
          /\ channel[c].deleted => channel'[c].deleted
          /\ channel[c].archived => channel'[c].archived
          /\ channel'[c].kind = "absent" => ~channel'[c].deleted /\ ~channel'[c].archived
    <3>1. ASSUME NEW d \in Channels, NEW op \in RewriteOps, NEW a, LegacyRewrite(a, d, op) PROVE <2>2
      <4> DEFINE row == Rewritten(channel[d], op, channel[d].name)
      <4>1. /\ channel[d].deleted => row.deleted
            /\ channel[d].archived => row.archived
            /\ row.kind = channel[d].kind
        BY <2>1 DEF Rewritten, RewriteOps, StateOk, Row
      <4>2. channel' = [channel EXCEPT ![d] = row] /\ Exists(d)
        BY <3>1 DEF LegacyRewrite
      <4> HIDE DEF row
      <4> QED
        BY <1>1, <2>1, <4>1, <4>2 DEF StateOk, Exists, CopyInv
    <3>2. ASSUME NEW d \in Channels, NEW row, NEW us, InsertChannel(d, row, us), ~row.deleted, ~row.archived
          PROVE  <2>2
      BY <1>1, <2>1, <3>2 DEF InsertChannel, StateOk, Exists, CopyInv
    <3>3. ASSUME NEW a, NEW u, NEW n, LegacyCreate(a, u, n) PROVE <2>2
      BY <3>2, <3>3 DEF LegacyCreate, NewRow
    <3>4. ASSUME UNCHANGED channel PROVE <2>2
      BY <1>1, <3>4 DEF CopyInv, Exists
    <3> QED
      BY <1>1, <3>1, <3>3, <3>4 DEF LegacyStep
  <2>3. scope.backend = "legacy"
    BY <1>1, IsLegacy
  <2>4. \A s \in Slots : req[s] = Idle
    BY <1>1, <2>3, TypeParts DEF Calm
  <2> QED
    BY <2>1, <2>2, <2>4 DEF CopyInv, Forward, Idle, RewriteOps
<1>2. ASSUME TypeInv, CopyInv, Restart \/ UNCHANGED vars PROVE CopyInv' /\ Forward
  BY <1>2 DEF Restart, vars, CopyInv, Forward, Exists, Idle, RewriteOps
<1> QED
  BY <1>1, <1>2, CopyStep DEF Next

\* persistence-service.ts:196-262: every rewriting stores a whole copy of the
\* row it read, and yet no deleted channel comes back and no archived one is
\* opened again, unless two rewritings of the channel overlapped.
THEOREM NeverBack == Spec => LifecycleForward
<1>1. Init => CopyInv
  BY ConstantsAssumption DEF Init, CopyInv, Exists, Absent, NewRow, Idle, RewriteOps
<1>2. TypeInv /\ CopyInv /\ [Next]_vars => [Forward]_vars
  BY CopyKept
<1>3. TypeInv /\ CopyInv /\ [Next]_vars => CopyInv'
  BY CopyKept
<1> QED
  BY TypeInitOk, TypeKept, <1>1, <1>2, <1>3, PTL DEF Spec, LifecycleForward, Forward
===============================================================================
