----------------------------- MODULE PresenceProofs -----------------------------
(* Proofs about Presence, for any users, programs, connections and limits:     *)
(* counts, then who is shown online, then who is shown typing.  The last two   *)
(* look at what a program will show once it has received what waits for it, so *)
(* that each step only adds news to a box or takes the first away.             *)
EXTENDS Presence, FiniteSetTheorems, SequenceTheorems, TLAPS

-------------------------------------------------------------------------------
(* Type correctness *)

Event == [t : {"presence"}, u : Users, on : BOOLEAN]
           \cup [t : {"typing"}, u : Users, c : Channels, on : BOOLEAN]

Stages  == {"unused", "opening", "listed", "open", "leaving", "gone"}
SockRec == [at : Stages, alive : BOOLEAN, first : BOOLEAN, ws : SUBSET Workspaces]

\* What a connection holds by the stage of its handler.
SockOk(s) ==
    /\ sock[s] \in SockRec
    /\ sock[s].alive => s \in scope.socks /\ sock[s].at \in {"opening", "listed", "open"}
    /\ ~sock[s].alive => inbox[s] = <<>> /\ outbox[s] = <<>>
    /\ sock[s].at \in {"listed", "open"} => sock[s].ws = Member[U(s)]
    /\ sock[s].at \in {"listed", "open"} /\ sock[s].alive => Member[U(s)] \subseteq rooms[s]

TypeOK ==
    /\ scope \in Scopes
    /\ refs \in [Users -> Int]
    /\ DOMAIN sock = Socks /\ \A s \in Socks : SockOk(s)
    /\ rooms \in [Socks -> SUBSET (Workspaces \cup Channels)]
    /\ inbox \in [Socks -> Seq(Event)]
    /\ outbox \in [Socks -> Seq(Event)] /\ \A s \in Socks : \A i \in DOMAIN outbox[s] : outbox[s][i].u = U(s)
    /\ updates \subseteq Users /\ chans \subseteq Channels
    /\ bucket \in [Users -> Nat]
    /\ shown \in [Programs -> SUBSET Users]
    /\ typed \in [Programs -> [Users -> Channels \cup {None}]]
    /\ typing \in [Programs -> BOOLEAN]
    /\ timer \in [Programs -> Channels \cup {None}] /\ active \in [Programs -> Channels]
    /\ \A s, t \in Socks : sock[s].alive /\ sock[t].alive /\ ProgOf[s] = ProgOf[t] => s = t

LEMMA WhoseSock == \A s \in Socks : ProgOf[s] \in Programs /\ U(s) \in Users
  BY PresenceAssumption DEF U

LEMMA EventsAre ==
    /\ \A u \in Users, on \in BOOLEAN : Presence(u, on) \in Event
    /\ \A u \in Users, c \in Channels, on \in BOOLEAN : Typing(u, c, on) \in Event
  BY DEF Presence, Typing, Event

\* The sequence made of a finite set has its elements and no others.
LEMMA SeqOfSet ==
  ASSUME NEW S, IsFiniteSet(S)
  PROVE  /\ SetToSeq(S) \in Seq(S)
         /\ \A x \in S : \E i \in DOMAIN SetToSeq(S) : SetToSeq(S)[i] = x
<1> DEFINE n == Cardinality(S)
           q == SetToSeq(S)
<1>1. n \in Nat /\ ExistsBijection(1 .. n, S)
  BY FS_CardinalityType
<1>2. PICK f \in Bijection(1 .. n, S) : TRUE
  BY <1>1 DEF ExistsBijection
<1>3. f \in [1 .. n -> S] /\ IsInjective(f)
  BY <1>2 DEF Bijection, Injection, IsInjective
<1>4. q \in [1 .. n -> S] /\ IsInjective(q)
  BY <1>3 DEF SetToSeq
<1>5. q \in Injection(1 .. n, S)
  BY <1>4 DEF Injection, IsInjective
<1>6. Cardinality(1 .. n) = n /\ IsFiniteSet(1 .. n)
  BY <1>1, FS_Interval
<1>7. q \in Surjection(1 .. n, S)
  BY <1>5, <1>6, FS_Injection
<1>8. QED
  BY <1>1, <1>4, <1>7 DEF Surjection

\* A sequence over a set is one over a larger set.
LEMMA Widen == ASSUME NEW S, NEW T, S \subseteq T, NEW q \in Seq(S) PROVE q \in Seq(T)
<1>1. q \in [1 .. Len(q) -> S] /\ Len(q) \in Nat
  BY SeqDef, LenProperties
<1>2. q \in [1 .. Len(q) -> T]
  BY <1>1
<1> QED
  BY <1>1, <1>2, SeqDef

\* What a new connection is told.
LEMMA ToldTypes ==
  ASSUME NEW q \in Seq(Users)
  PROVE  [i \in DOMAIN q |-> Presence(q[i], TRUE)] \in Seq(Event)
<1>1. DOMAIN q = 1 .. Len(q) /\ Len(q) \in Nat /\ \A i \in DOMAIN q : q[i] \in Users
  OBVIOUS
<1>2. [i \in DOMAIN q |-> Presence(q[i], TRUE)] \in [1 .. Len(q) -> Event]
  BY <1>1, EventsAre
<1> QED
  BY <1>1, <1>2, SeqDef

\* Where an event is emitted.
LEMMA EmitAt ==
  ASSUME NEW box \in [Socks -> Seq(Event)], NEW rs, NEW e \in Event
  PROVE  /\ Emit(box, rs, e) \in [Socks -> Seq(Event)]
         /\ \A s \in Socks : Emit(box, rs, e)[s] =
              IF sock[s].alive /\ rooms[s] \cap rs # {} THEN Append(box[s], e) ELSE box[s]
  BY DEF Emit
LEMMA EmitKeeps ==
  ASSUME NEW box \in [Socks -> Seq(Event)], NEW rs, NEW e \in Event
  PROVE  /\ Emit(box, rs, e) \in [Socks -> Seq(Event)]
         /\ \A s \in Socks : ~sock[s].alive => Emit(box, rs, e)[s] = box[s]
<1> DEFINE b == Emit(box, rs, e)
<1>1. b \in [Socks -> Seq(Event)] /\ \A s \in Socks : b[s] =
        IF sock[s].alive /\ rooms[s] \cap rs # {} THEN Append(box[s], e) ELSE box[s]
  BY EmitAt
<1> HIDE DEF b
<1>2. \A s \in Socks : ~sock[s].alive => b[s] = box[s]
  BY <1>1
<1> QED
  BY <1>1, <1>2 DEF b

LEMMA InitTypes == Init => TypeOK
<1> SUFFICES ASSUME Init PROVE TypeOK
  OBVIOUS
<1>1. /\ scope \in Scopes /\ scope.ready \subseteq scope.socks /\ scope.socks \subseteq Socks
      /\ IsFiniteSet(scope.ready)
      /\ \A s, t \in scope.ready : ProgOf[s] = ProgOf[t] => s = t
  BY PresenceAssumption DEF Init
<1>2. refs \in [Users -> Int]
  <2>1. \A u \in Users : {s \in scope.ready : U(s) = u} \in SUBSET scope.ready
    OBVIOUS
  <2>2. \A u \in Users : Cardinality({s \in scope.ready : U(s) = u}) \in Nat
    BY <1>1, <2>1, FS_Subset, FS_CardinalityType
  <2>3. QED
    BY <2>2 DEF Init
<1>3. ASSUME NEW s \in Socks PROVE SockOk(s)
  <2>1. Member[U(s)] \subseteq Workspaces
    BY WhoseSock, PresenceAssumption
  <2>2. CASE s \in scope.ready
    <3>1. sock[s] = [at |-> "open", alive |-> TRUE, first |-> FALSE, ws |-> Member[U(s)]]
      BY <2>2 DEF Init
    <3>2. Member[U(s)] \subseteq rooms[s] /\ inbox[s] = <<>> /\ outbox[s] = <<>>
      BY <2>2 DEF Init
    <3>3. QED
      BY <1>1, <2>1, <2>2, <3>1, <3>2 DEF SockOk, SockRec, Stages
  <2>3. CASE s \notin scope.ready
    <3>1. sock[s] = Idle /\ inbox[s] = <<>> /\ outbox[s] = <<>>
      BY <2>3 DEF Init
    <3>2. QED
      BY <3>1 DEF SockOk, SockRec, Stages, Idle
  <2>4. QED
    BY <2>2, <2>3
<1>4. rooms \in [Socks -> SUBSET (Workspaces \cup Channels)]
  BY WhoseSock, PresenceAssumption DEF Init
<1>5. inbox \in [Socks -> Seq(Event)] /\ outbox \in [Socks -> Seq(Event)]
      /\ \A s \in Socks : DOMAIN outbox[s] = {}
  BY DEF Init
<1>6. shown \in [Programs -> SUBSET Users]
  BY <1>1, WhoseSock DEF Init, Online
<1>7. \A s, t \in Socks : sock[s].alive /\ sock[t].alive /\ ProgOf[s] = ProgOf[t] => s = t
  BY <1>1 DEF Init, Idle
<1>8. active \in [Programs -> Channels]
  <2>1. \E c \in Channels \ {Fresh} : TRUE
    BY PresenceAssumption
  <2>2. QED
    BY <2>1 DEF Init
<1>9. updates \subseteq Users /\ chans \subseteq Channels /\ bucket \in [Users -> Nat]
      /\ typed \in [Programs -> [Users -> Channels \cup {None}]]
      /\ typing \in [Programs -> BOOLEAN] /\ timer \in [Programs -> Channels \cup {None}]
  BY DEF Init
<1>10. QED
  BY <1>1, <1>2, <1>3, <1>4, <1>5, <1>6, <1>7, <1>8, <1>9 DEF TypeOK, Init

\* The socket a connected program speaks and listens on.
LEMMA OneSock ==
  ASSUME TypeOK, NEW p \in Programs, Connected(p)
  PROVE  /\ SocketOf(p) \in Socks /\ sock[SocketOf(p)].alive /\ ProgOf[SocketOf(p)] = p
         /\ SocketOf(p) \in scope.socks
         /\ \A s \in Socks : sock[s].alive /\ ProgOf[s] = p => s = SocketOf(p)
<1>1. scope.socks \subseteq Socks
  BY PresenceAssumption DEF TypeOK
<1>2. SocketOf(p) \in Alive(p)
  BY DEF SocketOf, Connected
<1>3. QED
  BY <1>1, <1>2 DEF Alive, TypeOK

LEMMA AliveConnected ==
  ASSUME TypeOK, NEW s \in Socks, sock[s].alive
  PROVE  Connected(ProgOf[s]) /\ SocketOf(ProgOf[s]) = s /\ s \in scope.socks
<1>1. s \in Alive(ProgOf[s])
  BY DEF TypeOK, SockOk, Alive
<1>2. QED
  BY <1>1, OneSock, WhoseSock DEF TypeOK, SockOk, Connected
-------------------------------------------------------------------------------
(* Types are kept *)

\* Connections stay as they are while their boxes change only where they are attached.
LEMMA BoxesKeep ==
  ASSUME TypeOK, UNCHANGED <<scope, sock, rooms>>,
         \A s \in Socks : ~sock[s].alive => inbox'[s] = inbox[s] /\ outbox'[s] = outbox[s]
  PROVE  \A s \in Socks : SockOk(s)'
  BY DEF TypeOK, SockOk, U

\* One connection moves on, what it holds being right.
LEMMA OneMoves ==
  ASSUME TypeOK, NEW s \in Socks, NEW r, scope' = scope, sock' = [sock EXCEPT ![s] = r], SockOk(s)',
         \A t \in Socks \ {s} : rooms'[t] = rooms[t] /\ outbox'[t] = outbox[t]
                                /\ (~sock[t].alive => inbox'[t] = inbox[t])
  PROVE  DOMAIN sock' = Socks /\ sock'[s] = r /\ \A t \in Socks : SockOk(t)'
<1>1. DOMAIN sock' = Socks /\ sock'[s] = r /\ \A t \in Socks \ {s} : sock'[t] = sock[t]
  BY DEF TypeOK
<1>2. \A t \in Socks \ {s} : SockOk(t)'
  BY <1>1 DEF TypeOK, SockOk, U
<1>3. QED
  BY <1>1, <1>2

LEMMA ConnectTypes == ASSUME TypeOK, NEW s \in Socks, Connect(s) PROVE TypeOK'
<1> DEFINE r == [sock[s] EXCEPT !.at = "opening", !.alive = TRUE, !.first = refs[U(s)] = 0]
<1>1. r \in SockRec /\ r.at = "opening" /\ r.alive /\ s \in scope.socks
  BY DEF Connect, TypeOK, SockOk, SockRec, Stages
<1>2. sock' = [sock EXCEPT ![s] = r] /\ sock'[s] = r
  BY DEF Connect, TypeOK
<1>3. SockOk(s)'
  BY <1>1, <1>2 DEF SockOk, Connect
<1>4. /\ outbox' = [outbox EXCEPT ![s] = Hello(s)]
      /\ UNCHANGED <<scope, rooms, inbox, updates, bucket, chans, client>>
  BY DEF Connect
<1>5. DOMAIN sock' = Socks /\ \A t \in Socks : SockOk(t)'
  <2> HIDE DEF r
  <2>1. \A t \in Socks \ {s} : rooms'[t] = rooms[t] /\ outbox'[t] = outbox[t] /\ inbox'[t] = inbox[t]
    BY <1>4 DEF TypeOK
  <2>2. QED
    BY <1>2, <1>3, <1>4, <2>1, OneMoves
<1>6. Hello(s) \in Seq(Event) /\ \A i \in DOMAIN Hello(s) : Hello(s)[i].u = U(s)
  <2> DEFINE e == Presence(U(s), TRUE)
  <2>1. e \in Event /\ e.u = U(s) /\ Hello(s) = <<e>>
    BY EventsAre, WhoseSock DEF Presence, Hello
  <2> HIDE DEF e
  <2>2. QED
    BY <2>1
<1>7. outbox' \in [Socks -> Seq(Event)] /\ \A t \in Socks : \A i \in DOMAIN outbox'[t] : outbox'[t][i].u = U(t)
  BY <1>4, <1>6 DEF TypeOK
<1>8. refs' \in [Users -> Int]
  BY WhoseSock DEF Connect, TypeOK
<1>9. \A t, q \in Socks : sock'[t].alive /\ sock'[q].alive /\ ProgOf[t] = ProgOf[q] => t = q
  <2>1. \A t \in Socks \ {s} : sock'[t] = sock[t] /\ (sock[t].alive => ProgOf[t] # ProgOf[s])
    BY <1>2, AliveConnected DEF Connect, TypeOK
  <2>2. \A t, q \in Socks : sock[t].alive /\ sock[q].alive /\ ProgOf[t] = ProgOf[q] => t = q
    BY DEF TypeOK
  <2> HIDE DEF r
  <2>3. QED
    BY <2>1, <2>2
<1>10. QED
  BY <1>4, <1>5, <1>7, <1>8, <1>9 DEF TypeOK, client

LEMMA JoinTypes == ASSUME TypeOK, NEW s \in Socks, JoinWorkspaces(s) PROVE TypeOK'
<1> DEFINE r == [sock[s] EXCEPT !.at = "listed", !.ws = Member[U(s)]]
<1>0. sock[s] \in SockRec /\ Member[U(s)] \subseteq Workspaces
  BY WhoseSock, PresenceAssumption DEF TypeOK, SockOk
<1>1. r \in SockRec /\ r.at = "listed" /\ r.alive = sock[s].alive /\ r.ws = Member[U(s)]
  BY <1>0 DEF SockRec, Stages
<1>2. sock' = [sock EXCEPT ![s] = r] /\ sock'[s] = r
  BY DEF JoinWorkspaces, TypeOK
<1>3. /\ rooms' = IF sock[s].alive THEN [rooms EXCEPT ![s] = Member[U(s)]] ELSE rooms
      /\ UNCHANGED <<scope, refs, inbox, outbox, updates, bucket, chans, client>>
  BY DEF JoinWorkspaces
<1>4. SockOk(s)'
  BY <1>0, <1>1, <1>2, <1>3 DEF SockOk, TypeOK, U
<1>5. DOMAIN sock' = Socks /\ \A t \in Socks : SockOk(t)'
  <2> HIDE DEF r
  <2>1. \A t \in Socks \ {s} : rooms'[t] = rooms[t] /\ outbox'[t] = outbox[t] /\ inbox'[t] = inbox[t]
    BY <1>3 DEF TypeOK
  <2>2. QED
    BY <1>2, <1>3, <1>4, <2>1, OneMoves
<1>6. \A t \in Socks : sock'[t].alive = sock[t].alive
  BY <1>1, <1>2 DEF JoinWorkspaces, TypeOK
<1>7. rooms' \in [Socks -> SUBSET (Workspaces \cup Channels)]
  BY <1>0, <1>3 DEF TypeOK
<1>8. QED
  BY <1>3, <1>5, <1>6, <1>7 DEF TypeOK, client

LEMMA OpenTypes ==
  ASSUME TypeOK, NEW s \in Socks, Open(s), IsFiniteSet({u \in Users : refs[u] > 0})
  PROVE  TypeOK'
<1> DEFINE others == SetToSeq({u \in Users : refs[u] > 0} \ {U(s)})
           told   == [i \in DOMAIN others |-> Presence(others[i], TRUE)]
           box    == IF sock[s].alive THEN [inbox EXCEPT ![s] = @ \o told] ELSE inbox
           r      == [sock[s] EXCEPT !.at = "open"]
<1>1. /\ sock[s].at = "listed" /\ sock' = [sock EXCEPT ![s] = r]
      /\ rooms' = IF sock[s].alive THEN [rooms EXCEPT ![s] = @ \cup chans] ELSE rooms
      /\ inbox' = IF sock[s].first THEN Emit(box, sock[s].ws, Presence(U(s), TRUE)) ELSE box
      /\ UNCHANGED <<scope, refs, outbox, updates, bucket, chans, client>>
  BY DEF Open
<1>2. others \in Seq(Users)
  <2>1. IsFiniteSet({u \in Users : refs[u] > 0} \ {U(s)})
    BY FS_Subset
  <2>2. others \in Seq({u \in Users : refs[u] > 0} \ {U(s)})
    BY <2>1, SeqOfSet
  <2>3. QED
    BY <2>2, Widen
<1> HIDE DEF others
<1>3. told \in Seq(Event)
  BY <1>2, ToldTypes
<1> HIDE DEF told
<1>4. box \in [Socks -> Seq(Event)] /\ \A t \in Socks : ~sock[t].alive => box[t] = inbox[t]
  <2> HIDE DEF Event
  <2> QED
    BY <1>3 DEF TypeOK
<1> HIDE DEF box
<1>5. Presence(U(s), TRUE) \in Event
  BY EventsAre, WhoseSock
<1>6. inbox' \in [Socks -> Seq(Event)] /\ \A t \in Socks : ~sock[t].alive => inbox'[t] = inbox[t]
  <2> HIDE DEF Event
  <2>1. CASE sock[s].first
    BY <1>1, <1>4, <1>5, <2>1, EmitKeeps
  <2>2. CASE ~sock[s].first
    BY <1>1, <1>4, <2>2
  <2>3. QED
    BY <2>1, <2>2
<1>7. r \in SockRec /\ r.at = "open" /\ r.alive = sock[s].alive /\ r.ws = sock[s].ws /\ sock'[s] = r
  <2>1. sock[s] \in SockRec /\ sock'[s] = r
    BY <1>1 DEF TypeOK, SockOk
  <2>2. QED
    BY <2>1 DEF SockRec, Stages
<1>8. SockOk(s)'
  <2> HIDE DEF r
  <2> QED
    BY <1>1, <1>6, <1>7 DEF SockOk, TypeOK, U
<1>9. DOMAIN sock' = Socks /\ \A t \in Socks : SockOk(t)'
  <2> HIDE DEF r
  <2>1. \A t \in Socks \ {s} : rooms'[t] = rooms[t] /\ outbox'[t] = outbox[t]
    BY <1>1 DEF TypeOK
  <2>2. QED
    BY <1>1, <1>6, <1>8, <2>1, OneMoves
<1>10. \A t \in Socks : sock'[t].alive = sock[t].alive
  BY <1>1, <1>7 DEF TypeOK
<1>11. rooms' \in [Socks -> SUBSET (Workspaces \cup Channels)]
  BY <1>1 DEF TypeOK
<1>12. QED
  BY <1>1, <1>6, <1>9, <1>10, <1>11 DEF TypeOK, client

LEMMA DropTypes == ASSUME TypeOK, NEW s \in Socks, Drop(s) PROVE TypeOK'
<1> DEFINE stage == IF sock[s].at # "open" THEN sock[s].at ELSE IF refs[U(s)] <= 1 THEN "leaving" ELSE "gone"
           r == [sock[s] EXCEPT !.alive = FALSE, !.at = stage]
<1>1. /\ sock[s] \in SockRec /\ sock[s].at \in {"opening", "listed", "open"} /\ s \in scope.socks
      /\ stage \in Stages /\ (stage \in {"listed", "open"} => stage = sock[s].at)
  BY DEF TypeOK, SockOk, Drop, Stages
<1>2. r \in SockRec /\ r.at = stage /\ ~r.alive /\ r.ws = sock[s].ws
  <2> HIDE DEF stage
  <2> QED
    BY <1>1 DEF SockRec
<1>3. sock' = [sock EXCEPT ![s] = r] /\ sock'[s] = r
  <2>1. sock' = [sock EXCEPT ![s] = r]
    BY DEF Drop
  <2> HIDE DEF r
  <2>2. QED
    BY <2>1 DEF TypeOK
<1>4. /\ refs' = IF sock[s].at = "open" THEN [refs EXCEPT ![U(s)] = @ - 1] ELSE refs
      /\ rooms' = [rooms EXCEPT ![s] = {}]
      /\ inbox' = [inbox EXCEPT ![s] = <<>>] /\ outbox' = [outbox EXCEPT ![s] = <<>>]
      /\ UNCHANGED <<scope, updates, bucket, chans, client>>
  BY DEF Drop
<1>5. SockOk(s)'
  <2> HIDE DEF r, stage
  <2> QED
    BY <1>1, <1>2, <1>3, <1>4 DEF SockOk, TypeOK, U
<1>6. DOMAIN sock' = Socks /\ \A t \in Socks : SockOk(t)'
  <2> HIDE DEF r
  <2>1. \A t \in Socks \ {s} : rooms'[t] = rooms[t] /\ outbox'[t] = outbox[t] /\ inbox'[t] = inbox[t]
    BY <1>4 DEF TypeOK
  <2>2. QED
    BY <1>3, <1>4, <1>5, <2>1, OneMoves
<1>7. \A t \in Socks : sock'[t].alive => sock[t].alive
  BY <1>2, <1>3 DEF TypeOK
<1>8. inbox' \in [Socks -> Seq(Event)] /\ outbox' \in [Socks -> Seq(Event)]
      /\ \A t \in Socks : \A i \in DOMAIN outbox'[t] : outbox'[t][i].u = U(t)
  BY <1>4 DEF TypeOK
<1>9. rooms' \in [Socks -> SUBSET (Workspaces \cup Channels)] /\ refs' \in [Users -> Int]
  BY <1>4, WhoseSock DEF TypeOK
<1>10. QED
  BY <1>4, <1>6, <1>7, <1>8, <1>9 DEF TypeOK, client

\* A step that leaves the connections and the programs alone.
LEMMA BoxesTyped ==
  ASSUME TypeOK, UNCHANGED <<scope, refs, sock, rooms, chans, client>>,
         inbox' \in [Socks -> Seq(Event)], outbox' \in [Socks -> Seq(Event)],
         \A s \in Socks : ~sock[s].alive => inbox'[s] = inbox[s] /\ outbox'[s] = outbox[s],
         \A s \in Socks : \A i \in DOMAIN outbox'[s] : outbox'[s][i].u = U(s),
         updates' \subseteq Users, bucket' \in [Users -> Nat]
  PROVE  TypeOK'
<1>1. \A s \in Socks : SockOk(s)'
  BY BoxesKeep
<1>2. QED
  BY <1>1 DEF TypeOK, client

LEMMA OfflineTypes == ASSUME TypeOK, NEW s \in Socks, AnnounceOffline(s) PROVE TypeOK'
<1> DEFINE r == [sock[s] EXCEPT !.at = "gone"]
<1>1. /\ sock[s].at = "leaving" /\ sock' = [sock EXCEPT ![s] = r]
      /\ inbox' = Emit(inbox, Member[U(s)], Presence(U(s), FALSE))
      /\ UNCHANGED <<scope, refs, rooms, outbox, updates, bucket, chans, client>>
  BY DEF AnnounceOffline
<1>2. inbox' \in [Socks -> Seq(Event)] /\ \A t \in Socks : ~sock[t].alive => inbox'[t] = inbox[t]
  <2>1. Presence(U(s), FALSE) \in Event /\ inbox \in [Socks -> Seq(Event)]
    BY EventsAre, WhoseSock DEF TypeOK
  <2> HIDE DEF Event
  <2>2. QED
    BY <1>1, <2>1, EmitKeeps
<1>3. r \in SockRec /\ r.at = "gone" /\ r.alive = sock[s].alive /\ sock'[s] = r /\ ~sock[s].alive
  <2>1. sock[s] \in SockRec /\ sock'[s] = r /\ ~sock[s].alive
    BY <1>1 DEF TypeOK, SockOk
  <2>2. QED
    BY <2>1 DEF SockRec, Stages
<1>4. SockOk(s)'
  <2> HIDE DEF r
  <2> QED
    BY <1>1, <1>2, <1>3 DEF SockOk, TypeOK, U
<1>5. DOMAIN sock' = Socks /\ \A t \in Socks : SockOk(t)'
  <2> HIDE DEF r
  <2> QED
    BY <1>1, <1>2, <1>4, OneMoves
<1>6. \A t \in Socks : sock'[t].alive = sock[t].alive
  BY <1>1, <1>3 DEF TypeOK
<1>7. QED
  BY <1>1, <1>2, <1>5, <1>6 DEF TypeOK, client

LEMMA HandleTypes == ASSUME TypeOK, NEW s \in Socks, Handle(s) PROVE TypeOK'
<1> DEFINE e  == Head(outbox[s])
           rs == IF e.t = "typing" THEN {e.c} ELSE {}
<1>0. outbox[s] \in Seq(Event) /\ outbox[s] # <<>> /\ sock[s].alive
  BY DEF Handle, TypeOK
<1>1. e \in Event /\ e.u = U(s) /\ e.u \in Users
  <2>1. 1 \in DOMAIN outbox[s] /\ e = outbox[s][1]
    <3> HIDE DEF Event
    <3> QED
      BY <1>0
  <2>2. e \in Event
    <3> HIDE DEF Event
    <3> QED
      BY <1>0, <2>1
  <2>3. QED
    BY <2>1, <2>2, WhoseSock DEF TypeOK
<1>2. /\ outbox' = [outbox EXCEPT ![s] = Tail(@)]
      /\ (inbox' = inbox \/ inbox' = Emit(inbox, rs, e))
      /\ (bucket' = bucket \/ bucket' = [bucket EXCEPT ![U(s)] = @ + 1])
      /\ updates' \subseteq updates \cup {U(s)}
      /\ UNCHANGED <<scope, refs, sock, rooms, chans, client>>
  BY DEF Handle
<1>3. inbox' \in [Socks -> Seq(Event)] /\ \A t \in Socks : ~sock[t].alive => inbox'[t] = inbox[t]
  <2>1. inbox \in [Socks -> Seq(Event)]
    BY DEF TypeOK
  <2> HIDE DEF e, rs, Event
  <2>2. QED
    BY <1>1, <1>2, <2>1, EmitKeeps
<1>4. outbox' \in [Socks -> Seq(Event)] /\ \A t \in Socks : ~sock[t].alive => outbox'[t] = outbox[t]
  <2> HIDE DEF e, Event
  <2> QED
    BY <1>0, <1>2 DEF TypeOK
<1>5. \A t \in Socks : \A i \in DOMAIN outbox'[t] : outbox'[t][i].u = U(t)
  <2>1. \A i \in DOMAIN Tail(outbox[s]) : i + 1 \in DOMAIN outbox[s] /\ Tail(outbox[s])[i] = outbox[s][i + 1]
    <3> HIDE DEF Event
    <3> QED
      BY <1>0
  <2>2. QED
    BY <1>2, <2>1 DEF TypeOK
<1>6. bucket' \in [Users -> Nat] /\ updates' \subseteq Users
  <2>1. U(s) \in Users /\ bucket \in [Users -> Nat] /\ updates \subseteq Users
    BY WhoseSock DEF TypeOK
  <2> HIDE DEF e, rs
  <2>2. bucket' \in [Users -> Nat]
    BY <1>2, <2>1
  <2>3. QED
    BY <1>2, <2>1, <2>2
<1>7. QED
  BY <1>2, <1>3, <1>4, <1>5, <1>6, BoxesTyped

LEMMA UpdateTypes == ASSUME TypeOK, NEW u \in Users, AnnounceUpdate(u) PROVE TypeOK'
<1>1. inbox' = Emit(inbox, Member[u], Presence(u, TRUE)) /\ updates' = updates \ {u}
      /\ UNCHANGED <<scope, refs, sock, rooms, outbox, bucket, chans, client>>
  BY DEF AnnounceUpdate
<1>2. inbox' \in [Socks -> Seq(Event)] /\ \A t \in Socks : ~sock[t].alive => inbox'[t] = inbox[t]
  <2>1. Presence(u, TRUE) \in Event /\ inbox \in [Socks -> Seq(Event)]
    BY EventsAre DEF TypeOK
  <2> HIDE DEF Event
  <2>2. QED
    BY <1>1, <2>1, EmitKeeps
<1>3. QED
  BY <1>1, <1>2, BoxesTyped DEF TypeOK

LEMMA WindowTypes == ASSUME TypeOK, NEW u \in Users, NewWindow(u) PROVE TypeOK'
  BY BoxesTyped DEF NewWindow, TypeOK

LEMMA ReceiveTypes == ASSUME TypeOK, NEW p \in Programs, Receive(p) PROVE TypeOK'
<1> DEFINE s == SocketOf(p)
           e == Head(inbox[s])
<1>1. s \in Socks /\ sock[s].alive
  BY OneSock DEF Receive
<1>2. inbox[s] \in Seq(Event) /\ inbox[s] # <<>>
  BY <1>1 DEF Receive, TypeOK
<1>3. e \in Event
  <2> HIDE DEF Event, s
  <2> QED
    BY <1>2
<1>4. e.u \in Users /\ (e.t = "typing" => e.c \in Channels)
  BY <1>3 DEF Event
<1>5. /\ inbox' = [inbox EXCEPT ![s] = Tail(@)]
      /\ (shown' = shown \/ shown' = [shown EXCEPT ![p] = shown[p] \cup {e.u}]
                         \/ shown' = [shown EXCEPT ![p] = shown[p] \ {e.u}])
      /\ (typed' = typed \/ typed' = [typed EXCEPT ![p][e.u] = None]
                         \/ (e.t = "typing" /\ typed' = [typed EXCEPT ![p][e.u] = e.c]))
      /\ UNCHANGED <<scope, refs, sock, rooms, outbox, updates, bucket, chans, typing, timer, active>>
  BY DEF Receive
<1> HIDE DEF s, e
<1>6. inbox' \in [Socks -> Seq(Event)] /\ \A t \in Socks : ~sock[t].alive => inbox'[t] = inbox[t]
  <2> HIDE DEF Event
  <2> QED
    BY <1>1, <1>2, <1>5 DEF TypeOK
<1>7. shown' \in [Programs -> SUBSET Users] /\ typed' \in [Programs -> [Users -> Channels \cup {None}]]
  <2>1. shown \in [Programs -> SUBSET Users] /\ typed \in [Programs -> [Users -> Channels \cup {None}]]
    BY DEF TypeOK
  <2>2. shown' \in [Programs -> SUBSET Users]
    BY <1>4, <1>5, <2>1
  <2>3. \A c \in Channels \cup {None} : [typed EXCEPT ![p][e.u] = c] \in [Programs -> [Users -> Channels \cup {None}]]
    BY <1>4, <2>1
  <2>4. QED
    BY <1>4, <1>5, <2>1, <2>2, <2>3
<1>8. \A t \in Socks : SockOk(t)'
  BY <1>5, <1>6, BoxesKeep
<1>9. QED
  BY <1>5, <1>6, <1>7, <1>8 DEF TypeOK

LEMMA SaidOn ==
  ASSUME NEW q \in Seq(Event), NEW e \in Event, NEW u, e.u = u, \A i \in DOMAIN q : q[i].u = u
  PROVE  Append(q, e) \in Seq(Event) /\ \A i \in DOMAIN Append(q, e) : Append(q, e)[i].u = u
<1>1. /\ Append(q, e) \in Seq(Event) /\ DOMAIN Append(q, e) = 1 .. Len(q) + 1 /\ DOMAIN q = 1 .. Len(q)
      /\ Len(q) \in Nat /\ Append(q, e)[Len(q) + 1] = e /\ \A i \in 1 .. Len(q) : Append(q, e)[i] = q[i]
  BY AppendProperties, LenProperties
<1>2. \A i \in 1 .. Len(q) + 1 : i = Len(q) + 1 \/ i \in 1 .. Len(q)
  BY <1>1
<1> QED
  BY <1>1, <1>2

\* What a program says goes into the box of its connection, if it has one.
LEMMA SayTypes ==
  ASSUME TypeOK, NEW p \in Programs, NEW c \in Channels, NEW on \in BOOLEAN, Say(p, c, on)
  PROVE  /\ outbox' \in [Socks -> Seq(Event)]
         /\ \A s \in Socks : outbox'[s] = IF sock[s].alive /\ ProgOf[s] = p
              THEN Append(outbox[s], Typing(UserOf[p], c, on)) ELSE outbox[s]
         /\ \A s \in Socks : \A i \in DOMAIN outbox'[s] : outbox'[s][i].u = U(s)
<1> DEFINE e == Typing(UserOf[p], c, on)
<1>1. e \in Event /\ e.u = UserOf[p]
  BY EventsAre, PresenceAssumption DEF Typing
<1>2. \A s \in Socks : outbox'[s] = IF sock[s].alive /\ ProgOf[s] = p THEN Append(outbox[s], e) ELSE outbox[s]
  <2>1. CASE Connected(p)
    <3>1. outbox' = [outbox EXCEPT ![SocketOf(p)] = Append(@, e)]
      BY <2>1 DEF Say
    <3> HIDE DEF e
    <3>2. QED
      BY <2>1, <3>1, OneSock DEF TypeOK
  <2>2. CASE ~Connected(p)
    BY <2>2, AliveConnected DEF Say
  <2>3. QED
    BY <2>1, <2>2
<1>3. DOMAIN outbox' = Socks /\ outbox' = [s \in Socks |-> outbox'[s]]
  BY DEF Say, TypeOK
<1> HIDE DEF e
<1>4. ASSUME NEW s \in Socks
      PROVE  outbox'[s] \in Seq(Event) /\ \A i \in DOMAIN outbox'[s] : outbox'[s][i].u = U(s)
  <2>1. outbox[s] \in Seq(Event) /\ \A i \in DOMAIN outbox[s] : outbox[s][i].u = U(s)
    BY DEF TypeOK
  <2>2. CASE sock[s].alive /\ ProgOf[s] = p
    <3>1. U(s) = UserOf[p]
      BY <2>2 DEF U
    <3>2. outbox'[s] = Append(outbox[s], e)
      BY <1>2, <2>2
    <3>3. QED
      BY <1>1, <2>1, <3>1, <3>2, SaidOn
  <2>3. CASE ~(sock[s].alive /\ ProgOf[s] = p)
    BY <1>2, <2>1, <2>3
  <2>4. QED
    BY <2>2, <2>3
<1>5. QED
  BY <1>2, <1>3, <1>4 DEF e

\* Steps of a program that only says something.
LEMMA ProgramTypes ==
  ASSUME TypeOK, UNCHANGED <<scope, refs, sock, rooms, inbox, updates, bucket, shown, typed>>,
         outbox' = outbox \/ \E p \in Programs, c \in Channels, on \in BOOLEAN : Say(p, c, on),
         chans' \subseteq Channels, typing' \in [Programs -> BOOLEAN],
         timer' \in [Programs -> Channels \cup {None}], active' \in [Programs -> Channels]
  PROVE  TypeOK'
<1>1. /\ outbox' \in [Socks -> Seq(Event)]
      /\ \A s \in Socks : \A i \in DOMAIN outbox'[s] : outbox'[s][i].u = U(s)
      /\ \A s \in Socks : ~sock[s].alive => outbox'[s] = outbox[s]
  BY SayTypes DEF TypeOK
<1>2. \A s \in Socks : SockOk(s)'
  BY <1>1, BoxesKeep
<1>3. QED
  BY <1>1, <1>2 DEF TypeOK

LEMMA ClientTypes ==
  ASSUME TypeOK, NEW p \in Programs,
         \/ Key(p) \/ Pause(p) \/ Create(p) \/ Submit(p) \/ \E c \in Channels : Finish(p, c)
  PROVE  TypeOK'
<1>0. timer[p] \in Channels \cup {None} /\ active[p] \in Channels
  BY DEF TypeOK
<1>1. CASE Key(p)
  BY <1>0, <1>1, ProgramTypes DEF Key, TypeOK
<1>2. CASE Pause(p)
  BY <1>0, <1>2, ProgramTypes DEF Pause, StopTyping, TypeOK
<1>3. CASE Create(p)
  BY <1>3, ProgramTypes, PresenceAssumption DEF Create, TypeOK
<1>4. CASE Submit(p)
  BY <1>0, <1>4, ProgramTypes DEF Submit, SendTypingEvent, client, TypeOK
<1>5. ASSUME NEW c \in Channels, Finish(p, c) PROVE TypeOK'
  <2>1. active' \in [Programs -> Channels]
    BY <1>5 DEF Finish, TypeOK
  <2>2. typing' \in [Programs -> BOOLEAN] /\ timer' \in [Programs -> Channels \cup {None}]
    BY <1>5 DEF Finish, StopTyping, TypeOK
  <2>3. outbox' = outbox \/ Say(p, active[p], FALSE)
    BY <1>5 DEF Finish, StopTyping
  <2> QED
    BY <1>0, <1>5, <2>1, <2>2, <2>3, ProgramTypes DEF Finish, TypeOK
<1>6. QED
  BY <1>1, <1>2, <1>3, <1>4, <1>5

-------------------------------------------------------------------------------
(* Counting *)

\* A connection that is counted: attached, or closed before its handler was through.
Counts(s)   == sock[s].alive \/ sock[s].at \in {"opening", "listed", "open"}
Attached(u) == {s \in Socks : U(s) = u /\ Counts(s)}
CInv == IsFiniteSet({s \in Socks : Counts(s)}) /\ Counted

LEMMA CountedIs == Counted <=> \A u \in Users : refs[u] = Cardinality(Attached(u))
  BY DEF Counted, Attached, Counts

LEMMA AttachedFinite == ASSUME CInv PROVE \A u \in Users : IsFiniteSet(Attached(u))
<1>1. \A u \in Users : Attached(u) \in SUBSET {s \in Socks : Counts(s)}
  BY DEF Attached
<1> QED
  BY <1>1, FS_Subset DEF CInv

\* Who is counted has a connection, and there are finitely many of them.
LEMMA CountedHas ==
  ASSUME TypeOK, CInv
  PROVE  /\ \A s \in Socks : Counts(s) => refs[U(s)] > 0
         /\ \A u \in Users : refs[u] > 0 => \E s \in Socks : U(s) = u /\ Counts(s)
         /\ \A u \in Users : refs[u] \in Nat
         /\ IsFiniteSet({u \in Users : refs[u] > 0})
<1>1. \A u \in Users : refs[u] = Cardinality(Attached(u)) /\ IsFiniteSet(Attached(u))
  BY CountedIs, AttachedFinite DEF CInv
<1>2. \A u \in Users : refs[u] \in Nat /\ (refs[u] = 0 <=> Attached(u) = {})
  BY <1>1, FS_CardinalityType, FS_EmptySet
<1>3. \A s \in Socks : Counts(s) => s \in Attached(U(s)) /\ U(s) \in Users
  BY WhoseSock DEF Attached
<1>4. \A u \in Users : refs[u] > 0 => \E s \in Socks : U(s) = u /\ Counts(s)
  BY <1>2 DEF Attached
<1>5. IsFiniteSet({u \in Users : refs[u] > 0})
  <2> DEFINE A == {s \in Socks : Counts(s)}
             B == {u \in Users : refs[u] > 0}
             f == [s \in A |-> U(s)]
  <2>1. \A s \in A : U(s) \in B
    BY <1>2, <1>3
  <2>2. \A u \in B : \E s \in A : U(s) = u
    BY <1>4
  <2>3. f \in Surjection(A, B)
    <3> HIDE DEF A, B
    <3> QED
      BY <2>1, <2>2 DEF Surjection
  <2>4. IsFiniteSet(A)
    BY DEF CInv
  <2> HIDE DEF A, B, f
  <2> QED
    BY <2>3, <2>4, FS_Surjection DEF B
<1> QED
  BY <1>2, <1>3, <1>4, <1>5

LEMMA InitCounted == ASSUME Init PROVE CInv
<1>1. /\ scope \in Scopes /\ scope.ready \subseteq scope.socks /\ scope.socks \subseteq Socks
      /\ IsFiniteSet(scope.ready)
  BY PresenceAssumption DEF Init
<1>2. \A s \in Socks : Counts(s) <=> s \in scope.ready
  BY DEF Init, Idle, Counts
<1>3. {s \in Socks : Counts(s)} = scope.ready
  BY <1>1, <1>2
<1>4. \A u \in Users : Attached(u) = {s \in scope.ready : U(s) = u}
  BY <1>1, <1>2 DEF Attached
<1>5. Counted
  BY <1>4, CountedIs DEF Init
<1> QED
  BY <1>1, <1>3, <1>5 DEF CInv

\* Steps that attach and detach nobody.
LEMMA CountKeeps ==
  ASSUME CInv, refs' = refs, \A s \in Socks : Counts(s)' <=> Counts(s)
  PROVE  CInv'
<1>1. {s \in Socks : Counts(s)}' = {s \in Socks : Counts(s)}
  OBVIOUS
<1>2. \A u \in Users : Attached(u)' = Attached(u)
  BY DEF Attached, U
<1>3. Counted' <=> \A u \in Users : refs'[u] = Cardinality(Attached(u)')
  BY DEF Counted, Attached, Counts, U
<1>4. Counted'
  BY <1>2, <1>3, CountedIs DEF CInv
<1> QED
  BY <1>1, <1>4 DEF CInv

\* One connection comes or goes, and is counted.
LEMMA CountMoves ==
  ASSUME CInv, TypeOK, NEW s \in Socks, NEW d \in {1, -1},
         IF d = 1 THEN ~Counts(s) /\ Counts(s)' ELSE Counts(s) /\ ~Counts(s)',
         \A t \in Socks \ {s} : Counts(t)' <=> Counts(t),
         refs' = [refs EXCEPT ![U(s)] = @ + d]
  PROVE  CInv'
<1> DEFINE All == {t \in Socks : Counts(t)}
<1>1. IsFiniteSet(All)
  BY DEF CInv
<1>2. All' = IF d = 1 THEN All \cup {s} ELSE All \ {s}
  OBVIOUS
<1>3. IsFiniteSet(All')
  <2> HIDE DEF All
  <2> QED
    BY <1>1, <1>2, FS_AddElement, FS_RemoveElement
<1>4. ASSUME NEW u \in Users PROVE refs'[u] = Cardinality(Attached(u)')
  <2> DEFINE A == Attached(u)
  <2>1. refs[u] = Cardinality(A) /\ IsFiniteSet(A) /\ Cardinality(A) \in Nat
    BY CountedIs, AttachedFinite, FS_CardinalityType DEF CInv
  <2>2. refs \in [Users -> Int] /\ U(s) \in Users
    BY WhoseSock DEF TypeOK
  <2>3. CASE U(s) # u
    <3>1. Attached(u)' = A
      BY <2>3 DEF Attached, U
    <3>2. refs'[u] = refs[u]
      BY <2>2, <2>3
    <3> QED
      BY <2>1, <3>1, <3>2
  <2>4. CASE U(s) = u
    <3>1. refs'[u] = refs[u] + d
      BY <2>2, <2>4
    <3>2. CASE d = 1
      <4>1. Attached(u)' = A \cup {s} /\ s \notin A
        BY <2>4, <3>2 DEF Attached, U
      <4> HIDE DEF A
      <4>2. Cardinality(A \cup {s}) = Cardinality(A) + 1
        BY <2>1, <4>1, FS_AddElement
      <4> QED
        BY <2>1, <3>1, <3>2, <4>1, <4>2
    <3>3. CASE d = -1
      <4>1. Attached(u)' = A \ {s} /\ s \in A
        BY <2>4, <3>3 DEF Attached, U
      <4> HIDE DEF A
      <4>2. Cardinality(A \ {s}) = Cardinality(A) - 1
        BY <2>1, <4>1, FS_RemoveElement
      <4> QED
        BY <2>1, <3>1, <3>3, <4>1, <4>2
    <3> QED
      BY <3>2, <3>3
  <2> QED
    BY <2>3, <2>4
<1>5. Counted' <=> \A u \in Users : refs'[u] = Cardinality(Attached(u)')
  BY DEF Counted, Attached, Counts, U
<1> QED
  BY <1>3, <1>4, <1>5 DEF CInv

\* How a connection moves on, field by field.
LEMMA Moves ==
  ASSUME TypeOK, NEW s \in Socks
  PROVE  /\ Connect(s) => /\ ~sock[s].alive /\ sock[s].at = "unused"
                          /\ sock'[s].alive /\ sock'[s].at = "opening" /\ sock'[s].first = (refs[U(s)] = 0)
         /\ JoinWorkspaces(s) => /\ sock[s].at = "opening" /\ sock'[s].at = "listed"
                                 /\ sock'[s].alive = sock[s].alive /\ sock'[s].first = sock[s].first
         /\ Open(s) => /\ sock[s].at = "listed" /\ sock'[s].at = "open"
                       /\ sock'[s].alive = sock[s].alive /\ sock'[s].first = sock[s].first
         /\ AnnounceOffline(s) => /\ sock[s].at = "leaving" /\ sock'[s].at = "gone"
                                  /\ ~sock[s].alive /\ ~sock'[s].alive
         /\ Drop(s) => /\ sock[s].alive /\ ~sock'[s].alive /\ sock'[s].first = sock[s].first
                       /\ IF sock[s].at # "open" THEN sock'[s].at = sock[s].at
                          ELSE sock'[s].at = IF refs[U(s)] <= 1 THEN "leaving" ELSE "gone"
         /\ Connect(s) \/ JoinWorkspaces(s) \/ Open(s) \/ AnnounceOffline(s) \/ Drop(s) =>
              \A t \in Socks \ {s} : sock'[t] = sock[t]
<1>0. DOMAIN sock = Socks /\ sock[s] \in SockRec /\ (sock[s].alive => sock[s].at \in {"opening", "listed", "open"})
  BY DEF TypeOK, SockOk
<1> DEFINE r1 == [sock[s] EXCEPT !.at = "opening", !.alive = TRUE, !.first = refs[U(s)] = 0]
           r2 == [sock[s] EXCEPT !.at = "listed", !.ws = Member[U(s)]]
           r3 == [sock[s] EXCEPT !.at = "open"]
           r4 == [sock[s] EXCEPT !.at = "gone"]
           stage == IF sock[s].at # "open" THEN sock[s].at ELSE IF refs[U(s)] <= 1 THEN "leaving" ELSE "gone"
           r5 == [sock[s] EXCEPT !.alive = FALSE, !.at = stage]
<1>1. /\ Connect(s) => sock' = [sock EXCEPT ![s] = r1] /\ sock[s] = Idle
      /\ JoinWorkspaces(s) => sock' = [sock EXCEPT ![s] = r2] /\ sock[s].at = "opening"
      /\ Open(s) => sock' = [sock EXCEPT ![s] = r3] /\ sock[s].at = "listed"
      /\ AnnounceOffline(s) => sock' = [sock EXCEPT ![s] = r4] /\ sock[s].at = "leaving"
  BY DEF Connect, JoinWorkspaces, Open, AnnounceOffline
<1>2. Drop(s) => sock' = [sock EXCEPT ![s] = r5] /\ sock[s].alive
  BY DEF Drop
<1>3. r1.at = "opening" /\ r1.alive /\ r1.first = (refs[U(s)] = 0)
  BY <1>0 DEF SockRec
<1>4. r2.at = "listed" /\ r2.alive = sock[s].alive /\ r2.first = sock[s].first
  BY <1>0 DEF SockRec
<1>5. r3.at = "open" /\ r3.alive = sock[s].alive /\ r3.first = sock[s].first
  BY <1>0 DEF SockRec
<1>6. r4.at = "gone" /\ r4.alive = sock[s].alive
  BY <1>0 DEF SockRec
<1>7. ~r5.alive /\ r5.at = stage /\ r5.first = sock[s].first
  <2> HIDE DEF stage
  <2> QED
    BY <1>0 DEF SockRec
<1>8. ASSUME NEW r, sock' = [sock EXCEPT ![s] = r]
      PROVE  sock'[s] = r /\ \A t \in Socks \ {s} : sock'[t] = sock[t]
  BY <1>0, <1>8
<1> HIDE DEF r1, r2, r3, r4, r5
<1> QED
  BY <1>0, <1>1, <1>2, <1>3, <1>4, <1>5, <1>6, <1>7, <1>8 DEF Idle

LEMMA CountedKept == ASSUME TypeOK, CInv, [Next]_vars PROVE CInv'
<1>1. ASSUME NEW s \in Socks, Connect(s) PROVE CInv'
  <2>1. ~Counts(s) /\ Counts(s)' /\ \A t \in Socks \ {s} : Counts(t)' <=> Counts(t)
    BY <1>1, Moves DEF Counts
  <2>2. refs' = [refs EXCEPT ![U(s)] = @ + 1]
    BY <1>1 DEF Connect
  <2> QED
    BY <2>1, <2>2, CountMoves
<1>2. ASSUME NEW s \in Socks, Drop(s) PROVE CInv'
  <2>1. \A t \in Socks \ {s} : Counts(t)' <=> Counts(t)
    BY <1>2, Moves DEF Counts
  <2>2. CASE sock[s].at = "open"
    <3>1. Counts(s) /\ ~Counts(s)'
      BY <1>2, <2>2, Moves DEF Counts
    <3> DEFINE d == -1
    <3>2. refs' = [refs EXCEPT ![U(s)] = @ + d]
      <4>1. refs[U(s)] \in Int
        BY WhoseSock DEF TypeOK
      <4>2. refs[U(s)] - 1 = refs[U(s)] + d
        BY <4>1
      <4>3. refs' = [refs EXCEPT ![U(s)] = refs[U(s)] - 1]
        BY <1>2, <2>2 DEF Drop
      <4> HIDE DEF d
      <4> QED
        BY <4>2, <4>3
    <3>3. d \in {1, -1} /\ d # 1
      OBVIOUS
    <3> HIDE DEF d
    <3> QED
      BY <2>1, <3>1, <3>2, <3>3, CountMoves
  <2>3. CASE sock[s].at # "open"
    <3>1. refs' = refs /\ (Counts(s)' <=> Counts(s))
      BY <1>2, <2>3, Moves DEF Counts, Drop, TypeOK, SockOk
    <3> QED
      BY <2>1, <3>1, CountKeeps
  <2> QED
    BY <2>2, <2>3
<1>3. ASSUME NEW s \in Socks, JoinWorkspaces(s) \/ Open(s) \/ AnnounceOffline(s) PROVE CInv'
  <2>1. \A t \in Socks : Counts(t)' <=> Counts(t)
    BY <1>3, Moves DEF Counts
  <2>2. refs' = refs
    BY <1>3 DEF JoinWorkspaces, Open, AnnounceOffline
  <2> QED
    BY <2>1, <2>2, CountKeeps
<1>4. CASE UNCHANGED <<refs, sock>>
  BY <1>4, CountKeeps DEF Counts
<1>5. UNCHANGED <<refs, sock>> \/ \E s \in Socks : Connect(s) \/ Drop(s) \/ JoinWorkspaces(s) \/ Open(s) \/ AnnounceOffline(s)
  BY DEF Next, vars, server, Server, Handle, AnnounceUpdate, NewWindow, Receive, Key, Pause, Create, Submit, Finish
<1> QED
  BY <1>1, <1>2, <1>3, <1>4, <1>5

LEMMA TypesKept == ASSUME TypeOK, CInv, [Next]_vars PROVE TypeOK'
<1>1. ASSUME NEW s \in Socks, Open(s) PROVE TypeOK'
  BY <1>1, OpenTypes, CountedHas
<1>2. ASSUME NEW s \in Socks, Connect(s) \/ Drop(s) \/ JoinWorkspaces(s) \/ AnnounceOffline(s) \/ Handle(s) PROVE TypeOK'
  BY <1>2, ConnectTypes, DropTypes, JoinTypes, OfflineTypes, HandleTypes
<1>3. ASSUME NEW u \in Users, AnnounceUpdate(u) \/ NewWindow(u) PROVE TypeOK'
  BY <1>3, UpdateTypes, WindowTypes
<1>4. ASSUME NEW p \in Programs, Receive(p) \/ Key(p) \/ Pause(p) \/ Create(p) \/ Submit(p) \/ \E c \in Channels : Finish(p, c)
      PROVE  TypeOK'
  BY <1>4, ReceiveTypes, ClientTypes
<1>5. CASE UNCHANGED vars
  BY <1>5 DEF vars, server, client, TypeOK, SockOk, U
<1> QED
  BY <1>1, <1>2, <1>3, <1>4, <1>5 DEF Next, Server

\* Types and counting, for any users, connections and interleavings.
Base == TypeOK /\ CInv
LEMMA BaseInit == Init => Base
  BY InitTypes, InitCounted DEF Base
LEMMA BaseKept == Base /\ [Next]_vars => Base'
  BY TypesKept, CountedKept DEF Base

-------------------------------------------------------------------------------
(* News in a box *)

\* The news of a kind about a user in a box, and whether they leave him at on,
\* b being what he was.
News(q, k, v) == {i \in DOMAIN q : q[i].t = k /\ q[i].u = v}
Ends(q, k, v, b, on) ==
    \/ News(q, k, v) = {} /\ b = on
    \/ \E i \in News(q, k, v) : q[i].on = on /\ \A j \in News(q, k, v) : j <= i

LEMMA EndsEmpty == ASSUME NEW k, NEW v, NEW b, NEW on PROVE Ends(<<>>, k, v, b, on) <=> b = on
  BY DEF Ends, News

LEMMA EndsAppend ==
  ASSUME NEW q \in Seq(Event), NEW e \in Event, NEW k, NEW v, NEW b, NEW on
  PROVE  Ends(Append(q, e), k, v, b, on) <=> IF e.t = k /\ e.u = v THEN e.on = on ELSE Ends(q, k, v, b, on)
<1> DEFINE z == Append(q, e)
           n == Len(q) + 1
<1>1. /\ DOMAIN z = 1 .. n /\ DOMAIN q = 1 .. Len(q) /\ Len(q) \in Nat
      /\ z[n] = e /\ \A i \in 1 .. Len(q) : z[i] = q[i]
  BY AppendProperties, LenProperties
<1>2. n \in Nat /\ 1 .. n = (1 .. Len(q)) \cup {n} /\ \A i \in 1 .. Len(q) : i < n /\ i # n
  BY <1>1
<1> DEFINE N == News(q, k, v)
           M == News(z, k, v)
<1>3. N \subseteq 1 .. Len(q) /\ \A i \in N : z[i] = q[i]
  BY <1>1 DEF News
<1>4. M = IF e.t = k /\ e.u = v THEN N \cup {n} ELSE N
  <2> HIDE DEF z, n
  <2> QED
    BY <1>1, <1>2 DEF News
<1>5. CASE e.t = k /\ e.u = v
  <2>1. M = N \cup {n} /\ z[n] = e /\ \A i \in N : i < n
    BY <1>1, <1>2, <1>3, <1>4, <1>5
  <2>2. \A j \in M : j <= n
    BY <1>2, <1>3, <2>1
  <2>3. \A i \in M : (\A j \in M : j <= i) => i = n
    BY <1>2, <1>3, <2>1
  <2> HIDE DEF z, n, M
  <2>4. Ends(z, k, v, b, on) <=> e.on = on
    BY <2>1, <2>2, <2>3 DEF Ends, M
  <2> QED
    BY <1>5, <2>4 DEF z
<1>6. CASE ~(e.t = k /\ e.u = v)
  <2>1. M = N /\ \A i \in N : z[i] = q[i]
    BY <1>3, <1>4, <1>6
  <2> HIDE DEF z
  <2>2. Ends(z, k, v, b, on) <=> Ends(q, k, v, b, on)
    BY <2>1 DEF Ends
  <2> QED
    BY <1>6, <2>2 DEF z
<1> QED
  BY <1>5, <1>6

LEMMA EndsTail ==
  ASSUME NEW q \in Seq(Event), q # <<>>, NEW k, NEW v, NEW b, NEW on, NEW c,
         c = IF Head(q).t = k /\ Head(q).u = v THEN Head(q).on ELSE b
  PROVE  Ends(Tail(q), k, v, c, on) <=> Ends(q, k, v, b, on)
<1> DEFINE z == Tail(q)
<1>1. /\ DOMAIN q = 1 .. Len(q) /\ DOMAIN z = 1 .. Len(q) - 1 /\ Len(q) \in Nat /\ Len(q) >= 1
      /\ q[1] = Head(q) /\ \A i \in 1 .. Len(q) - 1 : z[i] = q[i + 1]
  <2>1. DOMAIN q = 1 .. Len(q) /\ Len(q) \in Nat /\ Len(q) >= 1 /\ q[1] = Head(q)
    BY LenProperties, EmptySeq, HeadTailProperties
  <2> QED
    BY <2>1, HeadTailProperties
<1> DEFINE N == News(q, k, v)
           M == News(z, k, v)
           h == Head(q).t = k /\ Head(q).u = v
<1>2. M \subseteq Nat /\ N \subseteq Nat /\ \A i \in Nat : i \in M => i >= 1 /\ i + 1 \in N /\ q[i + 1] = z[i]
  BY <1>1 DEF News
<1>3. \A i \in N : i = 1 \/ (i - 1 \in M /\ z[i - 1] = q[i])
  <2> SUFFICES ASSUME NEW i \in N, i # 1 PROVE i - 1 \in M /\ z[i - 1] = q[i]
    OBVIOUS
  <2>1. i \in 1 .. Len(q) /\ q[i].t = k /\ q[i].u = v
    BY <1>1 DEF News
  <2>2. i - 1 \in 1 .. Len(q) - 1 /\ (i - 1) + 1 = i
    BY <1>1, <2>1
  <2>3. z[i - 1] = q[i]
    BY <1>1, <2>2
  <2> QED
    BY <1>1, <2>1, <2>2, <2>3 DEF News
<1>4. 1 \in N <=> h
  BY <1>1 DEF News
<1> HIDE DEF N, M, z, h
<1>5. Ends(z, k, v, c, on) <=> (M = {} /\ c = on) \/ \E i \in M : z[i].on = on /\ \A j \in M : j <= i
  BY DEF Ends, M
<1>6. Ends(q, k, v, b, on) <=> (N = {} /\ b = on) \/ \E i \in N : q[i].on = on /\ \A j \in N : j <= i
  BY DEF Ends, N
<1>7. CASE M = {}
  <2>0. \A i \in N : i = 1
    BY <1>3, <1>7
  <2>1. N = IF h THEN {1} ELSE {}
    BY <1>4, <2>0
  <2>2. c = IF h THEN q[1].on ELSE b
    BY <1>1 DEF h
  <2> QED
    BY <1>5, <1>6, <1>7, <2>1, <2>2 DEF z
<1>8. CASE M # {}
  <2>1. N # {}
    BY <1>2, <1>8
  <2>2. ASSUME NEW i \in M, \A j \in M : j <= i
        PROVE  i + 1 \in N /\ q[i + 1] = z[i] /\ \A j \in N : j <= i + 1
    <3>1. \A j \in N : j = 1 \/ j - 1 <= i
      BY <1>3, <2>2
    <3> QED
      BY <1>2, <3>1
  <2>3. ASSUME NEW i \in N, \A j \in N : j <= i
        PROVE  i - 1 \in M /\ z[i - 1] = q[i] /\ \A j \in M : j <= i - 1
    <3>1. PICK m \in M : TRUE
      BY <1>8
    <3>2. i # 1 /\ i \in Nat
      BY <1>2, <2>3, <3>1
    <3>3. \A j \in M : j + 1 <= i
      BY <1>2, <2>3
    <3> QED
      BY <1>2, <1>3, <3>2, <3>3
  <2>4. (\E i \in M : z[i].on = on /\ \A j \in M : j <= i) <=> \E i \in N : q[i].on = on /\ \A j \in N : j <= i
    <3>1. ASSUME NEW i \in M, z[i].on = on, \A j \in M : j <= i
          PROVE  \E l \in N : q[l].on = on /\ \A j \in N : j <= l
      BY <2>2, <3>1
    <3>2. ASSUME NEW i \in N, q[i].on = on, \A j \in N : j <= i
          PROVE  \E l \in M : z[l].on = on /\ \A j \in M : j <= l
      BY <2>3, <3>2
    <3> QED
      BY <3>1, <3>2
  <2> QED
    BY <1>5, <1>6, <1>8, <2>1, <2>4 DEF z
<1> QED
  BY <1>7, <1>8

LEMMA EndsConcat ==
  ASSUME NEW q \in Seq(Event), NEW w \in Seq(Event), NEW k, NEW v, NEW b, NEW on
  PROVE  /\ News(w, k, v) = {} => (Ends(q \o w, k, v, b, on) <=> Ends(q, k, v, b, on))
         /\ \A i \in DOMAIN w : News(w, k, v) = {i} /\ w[i].on = on => Ends(q \o w, k, v, b, on)
<1> DEFINE z == q \o w
           n == Len(q)
<1>1. /\ n \in Nat /\ Len(w) \in Nat /\ DOMAIN q = 1 .. n /\ DOMAIN w = 1 .. Len(w) /\ DOMAIN z = 1 .. n + Len(w)
      /\ \A i \in 1 .. n : z[i] = q[i]
      /\ \A i \in 1 .. Len(w) : z[n + i] = w[i]
  BY ConcatProperties, LenProperties
<1>2. \A i \in 1 .. n + Len(w) : i \in 1 .. n \/ (i - n \in 1 .. Len(w) /\ n + (i - n) = i)
  BY <1>1
<1> HIDE DEF z, n
<1>3. ASSUME NEW i \in News(z, k, v) PROVE (i \in News(q, k, v) /\ z[i] = q[i]) \/ i - n \in News(w, k, v)
  <2>1. i \in 1 .. n + Len(w) /\ z[i].t = k /\ z[i].u = v
    BY <1>1 DEF News
  <2>2. CASE i \in 1 .. n
    BY <1>1, <2>1, <2>2 DEF News
  <2>3. CASE i - n \in 1 .. Len(w) /\ n + (i - n) = i
    <3>1. z[i] = w[i - n]
      BY <1>1, <2>3
    <3> QED
      BY <1>1, <2>1, <2>3, <3>1 DEF News
  <2> QED
    BY <1>2, <2>1, <2>2, <2>3
<1>4. \A i \in News(q, k, v) : i \in News(z, k, v) /\ z[i] = q[i] /\ i \in 1 .. n
  BY <1>1 DEF News
<1>5. \A i \in News(w, k, v) : n + i \in News(z, k, v) /\ z[n + i] = w[i] /\ i \in 1 .. Len(w)
  <2> SUFFICES ASSUME NEW i \in News(w, k, v) PROVE n + i \in News(z, k, v) /\ z[n + i] = w[i] /\ i \in 1 .. Len(w)
    OBVIOUS
  <2>1. i \in 1 .. Len(w) /\ w[i].t = k /\ w[i].u = v
    BY <1>1 DEF News
  <2>2. n + i \in 1 .. n + Len(w) /\ z[n + i] = w[i]
    BY <1>1, <2>1
  <2> QED
    BY <1>1, <2>1, <2>2 DEF News
<1>6. ASSUME News(w, k, v) = {} PROVE Ends(z, k, v, b, on) <=> Ends(q, k, v, b, on)
  <2>1. News(z, k, v) = News(q, k, v) /\ \A i \in News(q, k, v) : z[i] = q[i]
    BY <1>3, <1>4, <1>6
  <2> QED
    BY <2>1 DEF Ends
<1>7. ASSUME NEW i \in DOMAIN w, News(w, k, v) = {i}, w[i].on = on PROVE Ends(z, k, v, b, on)
  <2>1. n + i \in News(z, k, v) /\ z[n + i].on = on /\ i \in Nat /\ i >= 1
    BY <1>1, <1>5, <1>7
  <2>2. ASSUME NEW j \in News(z, k, v) PROVE j <= n + i
    <3>1. CASE j \in News(q, k, v)
      BY <1>1, <1>4, <2>1, <3>1
    <3>2. CASE j - n \in News(w, k, v)
      <4>1. j \in 1 .. n + Len(w) /\ j - n = i
        BY <1>1, <1>7, <3>2 DEF News
      <4> QED
        BY <1>1, <2>1, <4>1
    <3> QED
      BY <1>3, <3>1, <3>2
  <2> QED
    BY <2>1, <2>2 DEF Ends
<1> QED
  BY <1>6, <1>7 DEF z

-------------------------------------------------------------------------------
(* Who is shown online *)

\* No other connection of the program is there.
Sole(s) == \A t \in Socks : sock[t].alive /\ ProgOf[t] = ProgOf[s] => t = s

\* What the program will make of v once it has received what waits for it.
WillShow(s, v) == Ends(inbox[s], "presence", v, v \in shown[ProgOf[s]], TRUE)
WillType(s, v) == Ends(inbox[s], "typing", v, typed[ProgOf[s]][v] # None, TRUE)

\* v is another user of one of the connection's workspaces; v's last connection
\* is about to be announced offline; v's first one is about to be announced online.
Shares(s, v) == v # U(s) /\ Member[v] \cap Member[U(s)] # {}
Leaving(v)   == \E s \in Socks : U(s) = v /\ sock[s].at = "leaving"
Rising(v)    == \E s \in Socks : U(s) = v /\ sock[s].at \in {"opening", "listed"} /\ sock[s].first

\* Whoever will be shown is counted, or his offline event is to come.
Backed(s, v) == Sole(s) /\ <<ProgOf[s], v>> \notin stale /\ WillShow(s, v) => refs[v] > 0 \/ Leaving(v)
\* Whoever is counted will be shown, or his online event is to come.
Known(s, v) ==
    sock[s].alive /\ sock[s].at = "open" /\ <<ProgOf[s], v>> \notin stale /\ refs[v] > 0
        => Rising(v) \/ WillShow(s, v)

LEMMA InScope == ASSUME TypeOK PROVE scope.socks \subseteq Socks /\ \A s \in Socks : sock[s].alive => s \in scope.socks
  BY PresenceAssumption DEF TypeOK, SockOk

\* What an emission adds.
LEMMA EmitEnds ==
  ASSUME NEW box \in [Socks -> Seq(Event)], NEW rs, NEW e \in Event, NEW s \in Socks, NEW k, NEW v, NEW b, NEW on
  PROVE  Ends(Emit(box, rs, e)[s], k, v, b, on) <=>
           IF (sock[s].alive /\ rooms[s] \cap rs # {}) /\ e.t = k /\ e.u = v THEN e.on = on ELSE Ends(box[s], k, v, b, on)
<1>1. Emit(box, rs, e)[s] = IF sock[s].alive /\ rooms[s] \cap rs # {} THEN Append(box[s], e) ELSE box[s]
  BY EmitAt
<1>2. box[s] \in Seq(Event)
  OBVIOUS
<1>3. CASE sock[s].alive /\ rooms[s] \cap rs # {}
  BY <1>1, <1>2, <1>3, EndsAppend
<1>4. CASE ~(sock[s].alive /\ rooms[s] \cap rs # {})
  BY <1>1, <1>4
<1> QED
  BY <1>3, <1>4

\* The sequence made of a finite set has each of its elements in one place.
LEMMA SeqOnce == ASSUME NEW S, IsFiniteSet(S) PROVE \A i, j \in DOMAIN SetToSeq(S) : SetToSeq(S)[i] = SetToSeq(S)[j] => i = j
<1> DEFINE n == Cardinality(S)
           q == SetToSeq(S)
<1>1. PICK f \in Bijection(1 .. n, S) : TRUE
  BY FS_CardinalityType DEF ExistsBijection
<1>2. f \in [1 .. n -> S] /\ IsInjective(f)
  BY <1>1 DEF Bijection, Injection, IsInjective
<1>3. IsInjective(q)
  BY <1>2 DEF SetToSeq
<1> QED
  BY <1>3 DEF IsInjective

\* What a new connection is told: of everybody online, once.
Told(S) == [i \in DOMAIN SetToSeq(S) |-> Presence(SetToSeq(S)[i], TRUE)]
LEMMA TellAll ==
  ASSUME NEW S, S \subseteq Users, IsFiniteSet(S)
  PROVE  /\ Told(S) \in Seq(Event)
         /\ \A v \in Users :
              /\ News(Told(S), "typing", v) = {}
              /\ v \notin S => News(Told(S), "presence", v) = {}
              /\ v \in S => \E i \in DOMAIN Told(S) : News(Told(S), "presence", v) = {i} /\ Told(S)[i].on = TRUE
<1> DEFINE q == SetToSeq(S)
           w == Told(S)
<1>1. q \in Seq(S) /\ \A x \in S : \E i \in DOMAIN q : q[i] = x
  BY SeqOfSet
<1>2. \A i, j \in DOMAIN q : q[i] = q[j] => i = j
  BY SeqOnce
<1>3. q \in Seq(Users)
  BY <1>1, Widen
<1>4. \A i \in DOMAIN q : q[i] \in S
  BY <1>1
<1>5. w = [i \in DOMAIN q |-> Presence(q[i], TRUE)] /\ DOMAIN w = DOMAIN q
  BY DEF Told
<1> HIDE DEF q, w
<1>6. w \in Seq(Event)
  BY <1>3, <1>5, ToldTypes
<1>7. \A i \in DOMAIN w : w[i].t = "presence" /\ w[i].u = q[i] /\ w[i].on = TRUE
  BY <1>5 DEF Presence
<1>8. ASSUME NEW v \in Users
      PROVE  /\ News(w, "typing", v) = {}
             /\ v \notin S => News(w, "presence", v) = {}
             /\ v \in S => \E i \in DOMAIN w : News(w, "presence", v) = {i} /\ w[i].on = TRUE
  <2>1. News(w, "typing", v) = {}
    BY <1>7 DEF News
  <2>2. News(w, "presence", v) = {i \in DOMAIN q : q[i] = v}
    BY <1>5, <1>7 DEF News
  <2>3. ASSUME v \in S PROVE \E i \in DOMAIN w : News(w, "presence", v) = {i} /\ w[i].on = TRUE
    <3>1. PICK i \in DOMAIN q : q[i] = v
      BY <1>1, <2>3
    <3>2. {j \in DOMAIN q : q[j] = v} = {i}
      BY <1>2, <3>1
    <3> QED
      BY <1>5, <1>7, <2>2, <3>1, <3>2
  <2> QED
    BY <1>4, <2>1, <2>2, <2>3
<1> QED
  BY <1>6, <1>8 DEF w

\* What a connection makes of what it is told when it opens.
LEMMA OpenWill ==
  ASSUME Base, NEW s0 \in Socks, Open(s0), NEW s \in Socks, NEW v \in Users
  PROVE  /\ WillType(s, v)' <=> WillType(s, v)
         /\ WillShow(s, v)' => WillShow(s, v) \/ refs[v] > 0
         /\ WillShow(s, v) => WillShow(s, v)'
         /\ sock[s].alive /\ s = s0 /\ v # U(s0) /\ refs[v] > 0 => WillShow(s, v)'
         /\ sock[s].alive /\ v = U(s0) /\ sock[s0].first /\ rooms[s] \cap Member[v] # {} => WillShow(s, v)'
<1> DEFINE S    == {u \in Users : refs[u] > 0} \ {U(s0)}
           told == Told(S)
           box  == IF sock[s0].alive THEN [inbox EXCEPT ![s0] = @ \o told] ELSE inbox
           e    == Presence(U(s0), TRUE)
<1>1. inbox' = (IF sock[s0].first THEN Emit(box, sock[s0].ws, e) ELSE box) /\ UNCHANGED <<shown, typed>>
      /\ sock[s0].at = "listed"
  BY DEF Open, client, Told
<1>2. /\ inbox \in [Socks -> Seq(Event)] /\ IsFiniteSet(S) /\ S \in SUBSET Users /\ refs[U(s0)] > 0
      /\ sock[s0].ws = Member[U(s0)]
  <2>1. IsFiniteSet({u \in Users : refs[u] > 0}) /\ refs[U(s0)] > 0
    BY <1>1, CountedHas DEF Base, Counts
  <2>2. IsFiniteSet(S)
    BY <2>1, FS_Subset
  <2> QED
    BY <1>1, <2>1, <2>2 DEF Base, TypeOK, SockOk
<1>3. /\ told \in Seq(Event)
      /\ News(told, "typing", v) = {}
      /\ v \notin S => News(told, "presence", v) = {}
      /\ v \in S => \E i \in DOMAIN told : News(told, "presence", v) = {i} /\ told[i].on = TRUE
  <2> HIDE DEF S
  <2>2. /\ told \in Seq(Event)
        /\ \A x \in Users :
             /\ News(told, "typing", x) = {}
             /\ x \notin S => News(told, "presence", x) = {}
             /\ x \in S => \E i \in DOMAIN told : News(told, "presence", x) = {i} /\ told[i].on = TRUE
    BY <1>2, TellAll
  <2> QED
    BY <2>2
<1>4. e \in Event /\ e.t = "presence" /\ e.u = U(s0) /\ e.on = TRUE
  BY EventsAre, WhoseSock DEF Presence
<1> HIDE DEF told, e
<1> DEFINE q == inbox[s]
           z == box[s]
<1>5. q \in Seq(Event) /\ z = IF sock[s0].alive /\ s = s0 THEN q \o told ELSE q
  BY <1>2
<1>6. box \in [Socks -> Seq(Event)]
  <2>1. inbox[s0] \o told \in Seq(Event)
    BY <1>2, <1>3, ConcatProperties
  <2> HIDE DEF Event
  <2> QED
    BY <1>2, <2>1
<1> HIDE DEF box, z, q
<1>7. \A b : Ends(z, "typing", v, b, TRUE) <=> Ends(q, "typing", v, b, TRUE)
  BY <1>3, <1>5, EndsConcat
<1>8. ASSUME NEW b
      PROVE  IF sock[s0].alive /\ s = s0 /\ v \in S THEN Ends(z, "presence", v, b, TRUE)
             ELSE Ends(z, "presence", v, b, TRUE) <=> Ends(q, "presence", v, b, TRUE)
  BY <1>3, <1>5, EndsConcat
<1>9. \A k, b : Ends(inbox'[s], k, v, b, TRUE) <=>
        IF sock[s0].first /\ (sock[s].alive /\ rooms[s] \cap Member[U(s0)] # {}) /\ k = "presence" /\ v = U(s0)
        THEN TRUE ELSE Ends(z, k, v, b, TRUE)
  <2>1. CASE sock[s0].first
    <3>1. inbox' = Emit(box, Member[U(s0)], e)
      BY <1>1, <1>2, <2>1
    <3>2. ASSUME NEW k, NEW b
          PROVE  Ends(Emit(box, Member[U(s0)], e)[s], k, v, b, TRUE) <=>
                   IF (sock[s].alive /\ rooms[s] \cap Member[U(s0)] # {}) /\ e.t = k /\ e.u = v
                   THEN e.on = TRUE ELSE Ends(box[s], k, v, b, TRUE)
      BY <1>4, <1>6, EmitEnds
    <3> QED
      BY <1>4, <2>1, <3>1, <3>2 DEF z
  <2>2. CASE ~sock[s0].first
    BY <1>1, <2>2 DEF z
  <2> QED
    BY <2>1, <2>2
<1> DEFINE bt == typed[ProgOf[s]][v] # None
           bs == v \in shown[ProgOf[s]]
<1>10. (WillType(s, v)' <=> Ends(inbox'[s], "typing", v, bt, TRUE)) /\ (WillType(s, v) <=> Ends(q, "typing", v, bt, TRUE))
  BY <1>1 DEF WillType, q
<1>11. (WillShow(s, v)' <=> Ends(inbox'[s], "presence", v, bs, TRUE)) /\ (WillShow(s, v) <=> Ends(q, "presence", v, bs, TRUE))
  BY <1>1 DEF WillShow, q
<1> HIDE DEF bt, bs
<1>12. WillType(s, v)' <=> WillType(s, v)
  BY <1>7, <1>9, <1>10
<1>13. v \in S <=> refs[v] > 0 /\ v # U(s0)
  OBVIOUS
<1> HIDE DEF S
<1> QED
  BY <1>2, <1>8, <1>9, <1>11, <1>12, <1>13

\* Both, for every connection and every user it is told of.
ShownCounted == \A s \in scope.socks : \A v \in Users : Shares(s, v) => Backed(s, v)
CountedShown == \A s \in scope.socks : \A v \in Users : Shares(s, v) => Known(s, v)

LEMMA ShownFrom ==
  ASSUME scope' = scope,
         \A s \in scope.socks : \A v \in Users :
            Shares(s, v) /\ Sole(s)' /\ <<ProgOf[s], v>> \notin stale' /\ WillShow(s, v)' => refs'[v] > 0 \/ Leaving(v)'
  PROVE  ShownCounted'
  BY DEF ShownCounted, Backed, Shares, U

LEMMA KnownFrom ==
  ASSUME scope' = scope,
         \A s \in scope.socks : \A v \in Users :
            Shares(s, v) /\ sock'[s].alive /\ sock'[s].at = "open" /\ <<ProgOf[s], v>> \notin stale' /\ refs'[v] > 0
              => Rising(v)' \/ WillShow(s, v)'
  PROVE  CountedShown'
  BY DEF CountedShown, Known, Shares, U

\* A step that moves no connection and tells nothing of presence.
LEMMA NoNews ==
  ASSUME ShownCounted, CountedShown, UNCHANGED <<scope, refs, sock, shown, stale>>,
         \A s \in Socks : \A v \in Users : WillShow(s, v)' <=> WillShow(s, v), scope.socks \subseteq Socks
  PROVE  ShownCounted' /\ CountedShown'
<1>1. \A s \in Socks : Sole(s)' <=> Sole(s)
  BY DEF Sole
<1>2. \A v \in Users : (Leaving(v)' <=> Leaving(v)) /\ (Rising(v)' <=> Rising(v))
  BY DEF Leaving, Rising, U
<1> QED
  BY <1>1, <1>2, ShownFrom, KnownFrom DEF ShownCounted, CountedShown, Backed, Known

LEMMA ConnectPresence == ASSUME Base, ShownCounted, CountedShown, NEW s0 \in Socks, Connect(s0) PROVE ShownCounted' /\ CountedShown'
<1>1. /\ UNCHANGED <<scope, inbox, shown, stale>> /\ refs' = [refs EXCEPT ![U(s0)] = @ + 1]
      /\ ~sock[s0].alive /\ sock[s0].at = "unused" /\ sock'[s0].at = "opening" /\ sock'[s0].first = (refs[U(s0)] = 0)
      /\ \A t \in Socks \ {s0} : sock'[t] = sock[t]
      /\ scope.socks \subseteq Socks /\ U(s0) \in Users /\ refs \in [Users -> Int] /\ \A v \in Users : refs[v] \in Nat
  BY Moves, InScope, WhoseSock, CountedHas DEF Base, Connect, client, TypeOK
<1>2. \A v \in Users : refs'[v] = IF v = U(s0) THEN refs[v] + 1 ELSE refs[v]
  BY <1>1
<1>3. \A s \in Socks : Sole(s)' => Sole(s)
  BY <1>1 DEF Sole
<1>4. \A s \in Socks : \A v \in Users : WillShow(s, v)' <=> WillShow(s, v)
  BY <1>1 DEF WillShow
<1>5. \A v \in Users : (Leaving(v) => Leaving(v)') /\ (Rising(v) => Rising(v)') /\ (v = U(s0) /\ refs[v] = 0 => Rising(v)')
  BY <1>1 DEF Leaving, Rising, U
<1>6. \A v \in Users : refs[v] > 0 => refs'[v] > 0
  BY <1>1, <1>2
<1>7. \A v \in Users : refs'[v] > 0 => refs[v] > 0 \/ (v = U(s0) /\ refs[v] = 0)
  BY <1>1, <1>2
<1>8. ShownCounted'
  BY <1>1, <1>3, <1>4, <1>5, <1>6, ShownFrom DEF ShownCounted, Backed
<1>9. CountedShown'
  <2>1. \A s \in scope.socks : sock'[s].at = "open" => sock'[s] = sock[s]
    BY <1>1
  <2> QED
    BY <1>1, <1>4, <1>5, <1>7, <2>1, KnownFrom DEF CountedShown, Known
<1> QED
  BY <1>8, <1>9

LEMMA JoinPresence ==
  ASSUME Base, ShownCounted, CountedShown, NEW s0 \in Socks, JoinWorkspaces(s0)
  PROVE  ShownCounted' /\ CountedShown'
<1>1. /\ UNCHANGED <<scope, inbox, shown, stale, refs>>
      /\ sock[s0].at = "opening" /\ sock'[s0].at = "listed" /\ sock'[s0].alive = sock[s0].alive
      /\ sock'[s0].first = sock[s0].first
      /\ \A t \in Socks \ {s0} : sock'[t] = sock[t]
      /\ scope.socks \subseteq Socks
  BY Moves, InScope DEF Base, JoinWorkspaces, client
<1>2. \A s \in Socks : Sole(s)' <=> Sole(s)
  BY <1>1 DEF Sole
<1>3. \A s \in Socks : \A v \in Users : WillShow(s, v)' <=> WillShow(s, v)
  BY <1>1 DEF WillShow
<1>4. \A v \in Users : (Leaving(v) => Leaving(v)') /\ (Rising(v) => Rising(v)')
  BY <1>1 DEF Leaving, Rising, U
<1>5. ShownCounted'
  BY <1>1, <1>2, <1>3, <1>4, ShownFrom DEF ShownCounted, Backed
<1>6. CountedShown'
  <2>1. \A s \in scope.socks : sock'[s].at = "open" => sock'[s] = sock[s]
    BY <1>1
  <2> QED
    BY <1>1, <1>3, <1>4, <2>1, KnownFrom DEF CountedShown, Known
<1> QED
  BY <1>5, <1>6

LEMMA OpenPresence ==
  ASSUME Base, ShownCounted, CountedShown, NEW s0 \in Socks, Open(s0)
  PROVE  ShownCounted' /\ CountedShown'
<1>1. /\ UNCHANGED <<scope, shown, stale, refs>>
      /\ sock[s0].at = "listed" /\ sock'[s0].at = "open" /\ sock'[s0].alive = sock[s0].alive
      /\ sock'[s0].first = sock[s0].first
      /\ \A t \in Socks \ {s0} : sock'[t] = sock[t]
      /\ scope.socks \subseteq Socks
  BY Moves, InScope DEF Base, Open, client
<1>2. \A s \in Socks : Sole(s)' <=> Sole(s)
  BY <1>1 DEF Sole
<1>3. \A v \in Users : Leaving(v) => Leaving(v)'
  BY <1>1 DEF Leaving, U
<1>4. \A v \in Users : Rising(v) => Rising(v)' \/ (v = U(s0) /\ sock[s0].first)
  BY <1>1 DEF Rising, U
<1>5. ShownCounted'
  <2>1. ASSUME NEW s \in scope.socks, NEW v \in Users, Shares(s, v), Sole(s)', <<ProgOf[s], v>> \notin stale', WillShow(s, v)'
        PROVE  refs'[v] > 0 \/ Leaving(v)'
    <3>1. WillShow(s, v) \/ refs[v] > 0
      BY <1>1, <2>1, OpenWill
    <3> QED
      BY <1>1, <1>2, <1>3, <2>1, <3>1 DEF ShownCounted, Backed
  <2> QED
    BY <1>1, <2>1, ShownFrom
<1>6. CountedShown'
  <2>1. ASSUME NEW s \in scope.socks, NEW v \in Users, Shares(s, v), sock'[s].alive, sock'[s].at = "open",
               <<ProgOf[s], v>> \notin stale', refs'[v] > 0
        PROVE  Rising(v)' \/ WillShow(s, v)'
    <3>1. CASE s = s0
      BY <1>1, <2>1, <3>1, OpenWill DEF Shares
    <3>2. CASE s # s0
      <4>1. sock'[s] = sock[s] /\ (Rising(v) \/ WillShow(s, v))
        BY <1>1, <2>1, <3>2 DEF CountedShown, Known
      <4>2. Member[U(s)] \subseteq rooms[s]
        BY <1>1, <2>1, <4>1 DEF Base, TypeOK, SockOk
      <4>3. CASE WillShow(s, v)
        BY <1>1, <4>3, OpenWill
      <4>4. CASE v = U(s0) /\ sock[s0].first
        <5>1. rooms[s] \cap Member[v] # {}
          BY <2>1, <4>2 DEF Shares
        <5> QED
          BY <1>1, <2>1, <4>1, <4>4, <5>1, OpenWill
      <4> QED
        BY <1>4, <4>1, <4>3, <4>4
    <3> QED
      BY <3>1, <3>2
  <2> QED
    BY <1>1, <2>1, KnownFrom
<1> QED
  BY <1>5, <1>6

\* Where no news of a user waits he will stay as he is.
LEMMA NewsWaits ==
  ASSUME NEW q \in Seq(Event), NEW k, NEW v, NEW b, Ends(q, k, v, b, TRUE)
  PROVE  b = TRUE \/ \E i \in DOMAIN q : q[i].t = k /\ q[i].u = v
  BY DEF Ends, News

LEMMA DropPresence ==
  ASSUME Base, ShownCounted, CountedShown, NEW s0 \in Socks, Drop(s0)
  PROVE  ShownCounted' /\ CountedShown'
<1>1. /\ UNCHANGED <<scope, shown>> /\ inbox' = [inbox EXCEPT ![s0] = <<>>]
      /\ refs' = IF sock[s0].at = "open" THEN [refs EXCEPT ![U(s0)] = @ - 1] ELSE refs
      /\ sock[s0].alive /\ ~sock'[s0].alive /\ sock'[s0].first = sock[s0].first
      /\ IF sock[s0].at # "open" THEN sock'[s0].at = sock[s0].at
         ELSE sock'[s0].at = IF refs[U(s0)] <= 1 THEN "leaving" ELSE "gone"
      /\ \A t \in Socks \ {s0} : sock'[t] = sock[t]
      /\ stale' = stale \cup {<<ProgOf[s0], e.u>> : e \in {x \in {inbox[s0][i] : i \in DOMAIN inbox[s0]} : x.t = "presence"}}
  BY Moves DEF Base, Drop, Lost, client
<1>2. /\ scope.socks \subseteq Socks /\ s0 \in scope.socks /\ U(s0) \in Users /\ refs \in [Users -> Int]
      /\ \A v \in Users : refs[v] \in Nat
      /\ inbox \in [Socks -> Seq(Event)]
      /\ \A s \in Socks : ~sock[s].alive => inbox[s] = <<>>
      /\ \A s \in Socks : sock[s].alive /\ ProgOf[s] = ProgOf[s0] => s = s0
  BY <1>1, InScope, WhoseSock, CountedHas DEF Base, TypeOK, SockOk
<1>3. sock[s0].at \in {"opening", "listed", "open"}
  BY <1>1 DEF Base, TypeOK, SockOk
<1>4. \A v \in Users : /\ refs[v] > 0 => refs'[v] > 0 \/ Leaving(v)'
                       /\ Leaving(v) => Leaving(v)'
                       /\ Rising(v) => Rising(v)'
                       /\ refs'[v] > 0 => refs[v] > 0
  <2>1. ASSUME NEW v \in Users PROVE (Leaving(v) => Leaving(v)') /\ (Rising(v) => Rising(v)')
    BY <1>1, <1>3 DEF Leaving, Rising, U
  <2>2. ASSUME NEW v \in Users PROVE (refs[v] > 0 => refs'[v] > 0 \/ Leaving(v)') /\ (refs'[v] > 0 => refs[v] > 0)
    <3>1. CASE sock[s0].at = "open" /\ v = U(s0)
      <4>1. refs'[v] = refs[v] - 1 /\ refs[v] \in Nat
        BY <1>1, <1>2, <3>1
      <4>2. refs[v] <= 1 => Leaving(v)'
        BY <1>1, <3>1 DEF Leaving, U
      <4> QED
        BY <4>1, <4>2
    <3>2. CASE ~(sock[s0].at = "open" /\ v = U(s0))
      BY <1>1, <1>2, <3>2
    <3> QED
      BY <3>1, <3>2
  <2> QED
    BY <2>1, <2>2
<1>5. ShownCounted'
  <2>1. ASSUME NEW s \in scope.socks, NEW v \in Users, Shares(s, v), Sole(s)', <<ProgOf[s], v>> \notin stale', WillShow(s, v)'
        PROVE  refs[v] > 0 \/ Leaving(v)
    <3>1. CASE ProgOf[s] = ProgOf[s0]
      <4>1. s \in Socks /\ inbox'[s] = <<>>
        BY <1>1, <1>2, <3>1
      <4>2. v \in shown[ProgOf[s0]]
        <5>1. Ends(<<>>, "presence", v, v \in shown[ProgOf[s0]], TRUE)
          BY <1>1, <2>1, <3>1, <4>1 DEF WillShow
        <5> QED
          BY <5>1 DEF Ends, News
      <4>3. \A i \in DOMAIN inbox[s0] : ~(inbox[s0][i].t = "presence" /\ inbox[s0][i].u = v)
        BY <1>1, <2>1, <3>1
      <4>4. WillShow(s0, v) /\ Sole(s0) /\ Shares(s0, v) /\ <<ProgOf[s0], v>> \notin stale
        BY <1>1, <1>2, <2>1, <3>1, <4>2, <4>3 DEF WillShow, Ends, News, Sole, Shares, U
      <4> QED
        BY <1>2, <4>4 DEF ShownCounted, Backed
    <3>2. CASE ProgOf[s] # ProgOf[s0]
      <4>1. s # s0 /\ inbox'[s] = inbox[s] /\ <<ProgOf[s], v>> \notin stale
        BY <1>1, <1>2, <2>1, <3>2
      <4>2. WillShow(s, v)
        BY <1>1, <2>1, <4>1 DEF WillShow
      <4>3. Sole(s)
        BY <1>1, <1>2, <2>1, <3>2 DEF Sole
      <4> QED
        BY <2>1, <4>1, <4>2, <4>3 DEF ShownCounted, Backed
    <3> QED
      BY <3>1, <3>2
  <2> QED
    BY <1>1, <1>4, <2>1, ShownFrom
<1>6. CountedShown'
  <2>1. ASSUME NEW s \in scope.socks, NEW v \in Users, Shares(s, v), sock'[s].alive, sock'[s].at = "open",
               <<ProgOf[s], v>> \notin stale', refs'[v] > 0
        PROVE  Rising(v)' \/ WillShow(s, v)'
    <3>1. s # s0 /\ sock'[s] = sock[s] /\ inbox'[s] = inbox[s] /\ <<ProgOf[s], v>> \notin stale /\ refs[v] > 0
      BY <1>1, <1>2, <1>4, <2>1
    <3>2. Rising(v) \/ WillShow(s, v)
      BY <2>1, <3>1 DEF CountedShown, Known
    <3>3. WillShow(s, v) => WillShow(s, v)'
      BY <1>1, <3>1 DEF WillShow
    <3> QED
      BY <1>4, <3>2, <3>3
  <2> QED
    BY <1>1, <2>1, KnownFrom
<1> QED
  BY <1>5, <1>6

LEMMA OfflinePresence ==
  ASSUME Base, ShownCounted, CountedShown, NEW s0 \in Socks, AnnounceOffline(s0)
  PROVE  ShownCounted' /\ CountedShown'
<1> DEFINE u == U(s0)
           e == Presence(u, FALSE)
           gone == {q \in Here : refs[u] > 0 \/ (q \in Deaf(Member[u]) /\ Shows(q, u))}
<1>1. /\ UNCHANGED <<scope, shown, refs, rooms>> /\ inbox' = Emit(inbox, Member[u], e)
      /\ sock[s0].at = "leaving" /\ sock'[s0].at = "gone" /\ ~sock[s0].alive /\ ~sock'[s0].alive
      /\ \A t \in Socks \ {s0} : sock'[t] = sock[t]
      /\ stale' = stale \cup {<<p, u>> : p \in gone}
  BY Moves DEF Base, AnnounceOffline, client
<1>2. /\ scope.socks \subseteq Socks /\ u \in Users /\ inbox \in [Socks -> Seq(Event)]
      /\ e \in Event /\ e.t = "presence" /\ e.u = u /\ e.on = FALSE
      /\ \A s \in Socks : ~sock[s].alive => inbox[s] = <<>>
  BY InScope, WhoseSock, EventsAre DEF Base, TypeOK, SockOk, Presence
<1> HIDE DEF e
<1>3. \A s \in Socks : Sole(s)' <=> Sole(s)
  BY <1>1 DEF Sole
<1>4. \A v \in Users : (Leaving(v) /\ v # u => Leaving(v)') /\ (Rising(v) => Rising(v)')
  BY <1>1 DEF Leaving, Rising, U
<1>5. ASSUME NEW s \in Socks, NEW v \in Users
      PROVE  WillShow(s, v)' <=>
               IF (sock[s].alive /\ rooms[s] \cap Member[u] # {}) /\ v = u THEN FALSE ELSE WillShow(s, v)
  <2>1. \A b : Ends(Emit(inbox, Member[u], e)[s], "presence", v, b, TRUE) <=>
           IF (sock[s].alive /\ rooms[s] \cap Member[u] # {}) /\ e.t = "presence" /\ e.u = v
           THEN e.on = TRUE ELSE Ends(inbox[s], "presence", v, b, TRUE)
    BY <1>2, EmitEnds
  <2> QED
    BY <1>1, <1>2, <2>1 DEF WillShow
<1>6. \A s \in scope.socks : refs[u] > 0 => <<ProgOf[s], u>> \in stale'
  BY <1>1 DEF Here
<1>7. ASSUME NEW s \in scope.socks, Sole(s), WillShow(s, u), ~(sock[s].alive /\ rooms[s] \cap Member[u] # {})
      PROVE  <<ProgOf[s], u>> \in stale'
  <2>1. ProgOf[s] \in Here
    BY DEF Here
  <2>2. \A t \in Alive(ProgOf[s]) : t = s /\ sock[s].alive
    BY <1>2, <1>7 DEF Alive, Sole
  <2>3. ProgOf[s] \in Deaf(Member[u])
    BY <1>7, <2>1, <2>2 DEF Deaf
  <2>4. u \in shown[ProgOf[s]] \/ \E i \in DOMAIN inbox[s] : inbox[s][i].u = u
    BY <1>7 DEF WillShow, Ends, News
  <2>5. Shows(ProgOf[s], u)
    <3>1. CASE u \in shown[ProgOf[s]]
      BY <3>1 DEF Shows
    <3>2. CASE \E i \in DOMAIN inbox[s] : inbox[s][i].u = u
      <4>1. inbox[s] # <<>>
        BY <3>2
      <4>2. s \in Alive(ProgOf[s])
        BY <1>2, <4>1 DEF Alive
      <4> QED
        BY <3>2, <4>2 DEF Shows
    <3> QED
      BY <2>4, <3>1, <3>2
  <2> QED
    BY <1>1, <2>1, <2>3, <2>5
<1>8. ShownCounted'
  <2>1. ASSUME NEW s \in scope.socks, NEW v \in Users, Shares(s, v), Sole(s)', <<ProgOf[s], v>> \notin stale', WillShow(s, v)'
        PROVE  refs'[v] > 0 \/ Leaving(v)'
    <3>1. s \in Socks /\ Sole(s) /\ WillShow(s, v) /\ <<ProgOf[s], v>> \notin stale
      BY <1>1, <1>2, <1>3, <1>5, <2>1
    <3>2. v # u
      BY <1>2, <1>5, <1>7, <2>1, <3>1
    <3> QED
      BY <1>1, <1>4, <2>1, <3>1, <3>2 DEF ShownCounted, Backed
  <2> QED
    BY <1>1, <2>1, ShownFrom
<1>9. CountedShown'
  <2>1. ASSUME NEW s \in scope.socks, NEW v \in Users, Shares(s, v), sock'[s].alive, sock'[s].at = "open",
               <<ProgOf[s], v>> \notin stale', refs'[v] > 0
        PROVE  Rising(v)' \/ WillShow(s, v)'
    <3>1. s \in Socks /\ s # s0 /\ sock'[s] = sock[s] /\ refs[v] > 0 /\ <<ProgOf[s], v>> \notin stale
      BY <1>1, <1>2, <2>1
    <3>2. v # u
      BY <1>6, <2>1, <3>1
    <3> QED
      BY <1>4, <1>5, <2>1, <3>1, <3>2 DEF CountedShown, Known
  <2> QED
    BY <1>1, <2>1, KnownFrom
<1> QED
  BY <1>8, <1>9

\* What is emitted of typing is no news of presence.
LEMMA HandlePresence ==
  ASSUME Base, ShownCounted, CountedShown, NEW s0 \in Socks, Handle(s0)
  PROVE  ShownCounted' /\ CountedShown'
<1> DEFINE e  == Head(outbox[s0])
           rs == IF e.t = "typing" THEN {e.c} ELSE {}
<1>1. /\ UNCHANGED <<scope, refs, sock, shown, stale>> /\ outbox[s0] # <<>>
      /\ inbox' = inbox \/ (inbox' = Emit(inbox, rs, e) /\ e.t = "typing")
  BY DEF Handle, client
<1>2. e \in Event /\ inbox \in [Socks -> Seq(Event)] /\ scope.socks \subseteq Socks
  <2>1. outbox[s0] \in Seq(Event) /\ inbox \in [Socks -> Seq(Event)] /\ scope.socks \subseteq Socks
    BY InScope DEF Base, TypeOK
  <2> HIDE DEF Event
  <2>2. Head(outbox[s0]) \in Event
    BY <1>1, <2>1
  <2> QED
    BY <2>1, <2>2
<1> HIDE DEF e, rs
<1>3. ASSUME NEW s \in Socks, NEW v \in Users PROVE WillShow(s, v)' <=> WillShow(s, v)
  <2>1. CASE inbox' = inbox
    BY <1>1, <2>1 DEF WillShow
  <2>2. CASE inbox' = Emit(inbox, rs, e) /\ e.t = "typing"
    <3>1. \A b : Ends(Emit(inbox, rs, e)[s], "presence", v, b, TRUE) <=> Ends(inbox[s], "presence", v, b, TRUE)
      BY <1>2, <2>2, EmitEnds
    <3> QED
      BY <1>1, <2>2, <3>1 DEF WillShow
  <2> QED
    BY <1>1, <2>1, <2>2
<1> QED
  BY <1>1, <1>2, <1>3, NoNews

LEMMA UpdatePresence ==
  ASSUME Base, ShownCounted, CountedShown, NEW u \in Users, AnnounceUpdate(u)
  PROVE  ShownCounted' /\ CountedShown'
<1> DEFINE e == Presence(u, TRUE)
<1>1. /\ UNCHANGED <<scope, refs, sock, shown>> /\ inbox' = Emit(inbox, Member[u], e)
      /\ stale' = IF refs[u] = 0 THEN stale \cup (Here \X {u}) ELSE stale
  BY DEF AnnounceUpdate, client
<1>2. /\ scope.socks \subseteq Socks /\ inbox \in [Socks -> Seq(Event)] /\ refs[u] \in Nat
      /\ e \in Event /\ e.t = "presence" /\ e.u = u /\ e.on = TRUE
  BY InScope, EventsAre, CountedHas DEF Base, TypeOK, Presence
<1> HIDE DEF e
<1>3. \A s \in Socks : Sole(s)' <=> Sole(s)
  BY <1>1 DEF Sole
<1>4. \A v \in Users : (Leaving(v)' <=> Leaving(v)) /\ (Rising(v)' <=> Rising(v))
  BY <1>1 DEF Leaving, Rising, U
<1>5. ASSUME NEW s \in Socks, NEW v \in Users
      PROVE  (WillShow(s, v) => WillShow(s, v)') /\ (v # u /\ WillShow(s, v)' => WillShow(s, v))
  <2>1. \A b : Ends(Emit(inbox, Member[u], e)[s], "presence", v, b, TRUE) <=>
           IF (sock[s].alive /\ rooms[s] \cap Member[u] # {}) /\ e.t = "presence" /\ e.u = v
           THEN e.on = TRUE ELSE Ends(inbox[s], "presence", v, b, TRUE)
    BY <1>2, EmitEnds
  <2> QED
    BY <1>1, <1>2, <2>1 DEF WillShow
<1>6. \A s \in scope.socks : refs[u] = 0 => <<ProgOf[s], u>> \in stale'
  BY <1>1 DEF Here
<1>7. ShownCounted'
  <2>1. ASSUME NEW s \in scope.socks, NEW v \in Users, Shares(s, v), Sole(s)', <<ProgOf[s], v>> \notin stale', WillShow(s, v)'
        PROVE  refs'[v] > 0 \/ Leaving(v)'
    <3>1. CASE v = u
      <4>1. refs[u] # 0
        BY <1>6, <2>1, <3>1
      <4> QED
        BY <1>1, <1>2, <3>1, <4>1
    <3>2. CASE v # u
      <4>1. s \in Socks /\ Sole(s) /\ WillShow(s, v) /\ <<ProgOf[s], v>> \notin stale
        BY <1>1, <1>2, <1>3, <1>5, <2>1, <3>2
      <4> QED
        BY <1>1, <1>4, <2>1, <4>1 DEF ShownCounted, Backed
    <3> QED
      BY <3>1, <3>2
  <2> QED
    BY <1>1, <2>1, ShownFrom
<1>8. CountedShown'
  <2>1. stale \subseteq stale'
    BY <1>1
  <2> QED
    BY <1>1, <1>2, <1>4, <1>5, <2>1, KnownFrom DEF CountedShown, Known
<1> QED
  BY <1>7, <1>8

\* What a program receives it makes what it was to make of it.
LEMMA ReceiveWill ==
  ASSUME Base, NEW p \in Programs, Receive(p), NEW s \in Socks, Sole(s), NEW v \in Users
  PROVE  /\ WillShow(s, v)' <=> WillShow(s, v)
         /\ p \in Tuis \/ v # UserOf[p] \/ ProgOf[s] # p => (WillType(s, v)' <=> WillType(s, v))
<1> DEFINE s0 == SocketOf(p)
           e  == Head(inbox[s0])
<1>1. s0 \in Socks /\ sock[s0].alive /\ ProgOf[s0] = p /\ ProgOf[s] \in Programs
  BY OneSock, WhoseSock DEF Base, Receive
<1>2. /\ inbox' = [inbox EXCEPT ![s0] = Tail(@)] /\ inbox[s0] # <<>>
      /\ shown' = IF e.t # "presence" THEN shown
                  ELSE [shown EXCEPT ![p] = IF e.on THEN shown[p] \cup {e.u} ELSE shown[p] \ {e.u}]
      /\ typed' = IF e.t = "typing" /\ (p \in Tuis \/ e.u # UserOf[p])
                  THEN [typed EXCEPT ![p] = [typed[p] EXCEPT ![e.u] = IF e.on THEN e.c ELSE None]] ELSE typed
  BY DEF Receive
<1>3. inbox \in [Socks -> Seq(Event)] /\ shown \in [Programs -> SUBSET Users]
      /\ typed \in [Programs -> [Users -> Channels \cup {None}]] /\ None \notin Channels
  BY PresenceAssumption DEF Base, TypeOK
<1>4. e \in Event
  <2> HIDE DEF Event, s0
  <2> QED
    BY <1>1, <1>2, <1>3
<1>5. e.t \in {"presence", "typing"} /\ e.on \in BOOLEAN /\ e.u \in Users /\ (e.t = "typing" => e.c \in Channels)
  BY <1>4 DEF Event
<1>6. CASE s = s0
  <2> DEFINE c1 == v \in shown'[p]
             c2 == typed'[p][v] # None
             b1 == v \in shown[p]
             b2 == typed[p][v] # None
  <2>1. inbox'[s] = Tail(inbox[s]) /\ inbox[s] \in Seq(Event) /\ inbox[s] # <<>> /\ Head(inbox[s]) = e /\ ProgOf[s] = p
    BY <1>1, <1>2, <1>3, <1>6
  <2> HIDE DEF e, s0
  <2>2. c1 <=> IF e.t = "presence" /\ e.u = v THEN e.on ELSE b1
    BY <1>2, <1>3, <1>5
  <2>3. p \in Tuis \/ v # UserOf[p] => (c2 <=> IF e.t = "typing" /\ e.u = v THEN e.on ELSE b2)
    BY <1>2, <1>3, <1>5
  <2>4. c1 \in BOOLEAN /\ c2 \in BOOLEAN /\ b1 \in BOOLEAN /\ b2 \in BOOLEAN
    OBVIOUS
  <2>5. (WillShow(s, v)' <=> Ends(Tail(inbox[s]), "presence", v, c1, TRUE)) /\ (WillShow(s, v) <=> Ends(inbox[s], "presence", v, b1, TRUE))
    BY <2>1 DEF WillShow
  <2>6. (WillType(s, v)' <=> Ends(Tail(inbox[s]), "typing", v, c2, TRUE)) /\ (WillType(s, v) <=> Ends(inbox[s], "typing", v, b2, TRUE))
    BY <2>1 DEF WillType
  <2> HIDE DEF c1, c2, b1, b2
  <2>7. c1 = IF e.t = "presence" /\ e.u = v THEN e.on ELSE b1
    BY <1>5, <2>2, <2>4
  <2>8. p \in Tuis \/ v # UserOf[p] => c2 = IF e.t = "typing" /\ e.u = v THEN e.on ELSE b2
    BY <1>5, <2>3, <2>4
  <2>9. WillShow(s, v)' <=> WillShow(s, v)
    BY <2>1, <2>5, <2>7, EndsTail
  <2>10. p \in Tuis \/ v # UserOf[p] => (WillType(s, v)' <=> WillType(s, v))
    BY <2>1, <2>6, <2>8, EndsTail
  <2> QED
    BY <2>1, <2>9, <2>10
<1>7. CASE s # s0
  <2>1. ProgOf[s] # p
    BY <1>1, <1>7 DEF Sole
  <2>2. inbox'[s] = inbox[s] /\ shown'[ProgOf[s]] = shown[ProgOf[s]] /\ typed'[ProgOf[s]] = typed[ProgOf[s]]
    BY <1>1, <1>2, <1>3, <1>7, <2>1
  <2> QED
    BY <2>2 DEF WillShow, WillType
<1> QED
  BY <1>6, <1>7

LEMMA ReceivePresence ==
  ASSUME Base, ShownCounted, CountedShown, NEW p \in Programs, Receive(p)
  PROVE  ShownCounted' /\ CountedShown'
<1>1. UNCHANGED <<scope, refs, sock, stale>> /\ scope.socks \subseteq Socks
  BY InScope DEF Base, Receive
<1>2. \A s \in Socks : (Sole(s)' <=> Sole(s)) /\ (sock[s].alive => Sole(s))
  BY <1>1 DEF Sole, Base, TypeOK
<1>3. \A v \in Users : (Leaving(v)' <=> Leaving(v)) /\ (Rising(v)' <=> Rising(v))
  BY <1>1 DEF Leaving, Rising, U
<1>4. \A s \in Socks : \A v \in Users : Sole(s) => (WillShow(s, v)' <=> WillShow(s, v))
  BY ReceiveWill
<1>5. ShownCounted'
  BY <1>1, <1>2, <1>3, <1>4, ShownFrom DEF ShownCounted, Backed
<1>6. CountedShown'
  BY <1>1, <1>2, <1>3, <1>4, KnownFrom DEF CountedShown, Known
<1> QED
  BY <1>5, <1>6

LEMMA InitPresence == ASSUME Init PROVE ShownCounted /\ CountedShown
<1>1. /\ \A s \in Socks : inbox[s] = <<>>
      /\ \A s \in Socks : IF s \in scope.ready THEN sock[s].alive /\ ~sock[s].first ELSE sock[s] = Idle
      /\ scope \in Scopes /\ scope.ready \subseteq scope.socks /\ scope.socks \subseteq Socks
      /\ stale = {} /\ shown = [p \in Programs |-> IF p \in {ProgOf[s] : s \in scope.ready} THEN Online ELSE {}]
  BY PresenceAssumption DEF Init
<1>2. CInv /\ TypeOK
  BY InitCounted, InitTypes
<1>3. \A v \in Users : refs[v] > 0 <=> v \in Online
  <2>1. \A s \in Socks : Counts(s) <=> s \in scope.ready
    BY <1>1 DEF Counts, Idle, Init
  <2> QED
    BY <1>1, <1>2, <2>1, CountedHas DEF Online
<1>4. \A s \in Socks : \A v \in Users : WillShow(s, v) <=> v \in shown[ProgOf[s]]
  BY <1>1 DEF WillShow, Ends, News
<1>5. \A s \in Socks : \A v \in Users : v \in shown[ProgOf[s]] => refs[v] > 0
  BY <1>1, <1>3, WhoseSock
<1>6. \A s \in Socks : \A v \in Users : sock[s].alive /\ refs[v] > 0 => v \in shown[ProgOf[s]]
  BY <1>1, <1>3, WhoseSock DEF Idle
<1> QED
  BY <1>1, <1>4, <1>5, <1>6 DEF ShownCounted, CountedShown, Backed, Known

PresInv == ShownCounted /\ CountedShown
LEMMA PresenceKept == ASSUME Base, PresInv, [Next]_vars PROVE PresInv'
<1>1. ASSUME NEW s \in Socks, Connect(s) \/ Drop(s) \/ JoinWorkspaces(s) \/ Open(s) \/ AnnounceOffline(s) \/ Handle(s)
      PROVE  PresInv'
  BY <1>1, ConnectPresence, DropPresence, JoinPresence, OpenPresence, OfflinePresence, HandlePresence DEF PresInv
<1>2. ASSUME NEW u \in Users, AnnounceUpdate(u) PROVE PresInv'
  BY <1>2, UpdatePresence DEF PresInv
<1>3. ASSUME NEW p \in Programs, Receive(p) PROVE PresInv'
  BY <1>3, ReceivePresence DEF PresInv
<1>4. CASE UNCHANGED <<scope, refs, sock, inbox, shown, stale>>
  <2>1. \A s \in Socks : \A v \in Users : WillShow(s, v)' <=> WillShow(s, v)
    BY <1>4 DEF WillShow
  <2>2. scope.socks \subseteq Socks
    BY InScope DEF Base
  <2> QED
    BY <1>4, <2>1, <2>2, NoNews DEF PresInv
<1>5. \/ \E s \in Socks : Connect(s) \/ Drop(s) \/ JoinWorkspaces(s) \/ Open(s) \/ AnnounceOffline(s) \/ Handle(s)
      \/ \E u \in Users : AnnounceUpdate(u)
      \/ \E p \in Programs : Receive(p)
      \/ UNCHANGED <<scope, refs, sock, inbox, shown, stale>>
  BY DEF Next, vars, server, client, Server, NewWindow, Key, Pause, Create, Submit, Finish
<1> QED
  BY <1>1, <1>2, <1>3, <1>4, <1>5

\* Once nothing is under way, what a program will show is what it shows.
LEMMA RightWhenSettled == ASSUME Base, PresInv PROVE PresenceRight
<1> SUFFICES ASSUME Settled, NEW p \in Programs, NEW v \in Users \ {UserOf[p]},
                    Connected(p), Member[v] \cap Member[UserOf[p]] # {}, <<p, v>> \notin stale
             PROVE  v \in shown[p] <=> refs[v] > 0
  BY DEF PresenceRight
<1> DEFINE s == SocketOf(p)
<1>1. s \in Socks /\ sock[s].alive /\ ProgOf[s] = p /\ s \in scope.socks /\ Sole(s)
  BY OneSock DEF Base, Sole
<1> HIDE DEF s
<1>2. Shares(s, v) /\ inbox[s] = <<>> /\ sock[s].at = "open"
  BY <1>1 DEF Shares, U, Settled, Base, TypeOK, SockOk
<1>3. WillShow(s, v) <=> v \in shown[p]
  BY <1>1, <1>2 DEF WillShow, Ends, News
<1>4. ~Leaving(v) /\ ~Rising(v)
  BY DEF Settled, Leaving, Rising
<1> QED
  BY <1>1, <1>2, <1>3, <1>4 DEF PresInv, ShownCounted, CountedShown, Backed, Known

-------------------------------------------------------------------------------
(* Typing *)

\* A stop waits in a box; every start in it is followed by a stop, unless b.
Start(e)     == e.t = "typing" /\ e.on
Stop(e)      == e.t = "typing" /\ ~e.on
Stops(q)     == \E i \in DOMAIN q : Stop(q[i])
Closed(q, b) == \A i \in DOMAIN q : Start(q[i]) => b \/ \E j \in DOMAIN q : j > i /\ Stop(q[j])

\* A stop of v will be said, or has been and is not handled.
Stopping(v) == \/ \E q \in Programs : UserOf[q] = v /\ typing[q]
               \/ \E s \in Socks : U(s) = v /\ Stops(outbox[s])
\* Does p listen to v's typing?
Hears(p, v) == p \in Tuis \/ v # UserOf[p]
\* Whoever will be shown typing has a stop to come, unless his last one was lost.
Ended(s, v) == Sole(s) /\ <<ProgOf[s], v>> \notin unsaid /\ WillType(s, v) => Stopping(v)

\* Who types has a timer; who said start says stop; so who is shown is stopped.
Timed      == \A q \in Programs : typing[q] => timer[q] # None
StartsStop == \A s \in Socks : Closed(outbox[s], typing[ProgOf[s]])
TypedStops == \A s \in scope.socks : \A v \in Users : Hears(ProgOf[s], v) => Ended(s, v)
Unheard    == \A p \in Programs : \A v \in Users : p \notin Here \/ ~Hears(p, v) => typed[p][v] = None

TypInv == Timed /\ StartsStop /\ TypedStops /\ Unheard

LEMMA BoxAppend ==
  ASSUME NEW q \in Seq(Event), NEW e \in Event, NEW b \in BOOLEAN
  PROVE  /\ Stops(q) \/ Stop(e) => Stops(Append(q, e))
         /\ Closed(q, b) /\ (b \/ ~Start(e)) => Closed(Append(q, e), b)
         /\ Stop(e) => Closed(Append(q, e), b)
<1> DEFINE z == Append(q, e)
           n == Len(q) + 1
<1>1. /\ DOMAIN z = 1 .. n /\ DOMAIN q = 1 .. Len(q) /\ Len(q) \in Nat
      /\ z[n] = e /\ \A i \in 1 .. Len(q) : z[i] = q[i]
  BY AppendProperties, LenProperties
<1>2. n \in 1 .. n /\ (\A i \in 1 .. Len(q) : i \in 1 .. n /\ n > i) /\ \A i \in 1 .. n : i = n \/ i \in 1 .. Len(q)
  BY <1>1
<1> HIDE DEF z, n
<1>3. Stops(q) \/ Stop(e) => Stops(z)
  BY <1>1, <1>2 DEF Stops
<1>4. ASSUME Closed(q, b), b \/ ~Start(e) PROVE Closed(z, b)
  BY <1>1, <1>2, <1>4 DEF Closed
<1>5. ASSUME Stop(e) PROVE Closed(z, b)
  BY <1>1, <1>2, <1>5 DEF Closed, Start, Stop
<1> QED
  BY <1>3, <1>4, <1>5 DEF z

LEMMA BoxTail ==
  ASSUME NEW q \in Seq(Event), q # <<>>, NEW b \in BOOLEAN
  PROVE  /\ Closed(q, b) => Closed(Tail(q), b)
         /\ Closed(q, b) /\ Start(Head(q)) => b \/ Stops(Tail(q))
         /\ Stops(q) /\ ~Stop(Head(q)) => Stops(Tail(q))
<1> DEFINE z == Tail(q)
           n == Len(q) - 1
<1>1. /\ DOMAIN q = 1 .. Len(q) /\ DOMAIN z = 1 .. n /\ Len(q) \in Nat /\ Len(q) >= 1
      /\ q[1] = Head(q) /\ \A i \in 1 .. n : z[i] = q[i + 1]
  <2>1. DOMAIN q = 1 .. Len(q) /\ Len(q) \in Nat /\ Len(q) >= 1 /\ q[1] = Head(q)
    BY LenProperties, EmptySeq, HeadTailProperties
  <2> QED
    BY <2>1, HeadTailProperties
<1>2. /\ \A i \in 1 .. n : i + 1 \in 1 .. Len(q) /\ i \in Int
      /\ \A i \in 1 .. Len(q) : i \in Int /\ (i = 1 \/ (i - 1 \in 1 .. n /\ (i - 1) + 1 = i))
      /\ 1 \in 1 .. Len(q)
  BY <1>1
<1> HIDE DEF z, n
<1>3. \A j \in 1 .. Len(q) : j # 1 => z[j - 1] = q[j]
  BY <1>1, <1>2
<1>4. ASSUME Closed(q, b) PROVE Closed(z, b)
  <2> SUFFICES ASSUME NEW i \in 1 .. n, Start(z[i]), ~b PROVE \E j \in 1 .. n : j > i /\ Stop(z[j])
    BY <1>1 DEF Closed
  <2>1. PICK j \in 1 .. Len(q) : j > i + 1 /\ Stop(q[j])
    BY <1>1, <1>2, <1>4 DEF Closed
  <2>2. j # 1 /\ j - 1 > i /\ i >= 1
    BY <1>2, <2>1
  <2> QED
    BY <1>2, <1>3, <2>1, <2>2
<1>5. ASSUME Closed(q, b), Start(Head(q)), ~b PROVE Stops(z)
  <2>1. PICK j \in 1 .. Len(q) : j > 1 /\ Stop(q[j])
    BY <1>1, <1>2, <1>5 DEF Closed
  <2>2. j - 1 \in 1 .. n /\ Stop(z[j - 1])
    BY <1>2, <1>3, <2>1
  <2> QED
    BY <1>1, <2>2 DEF Stops
<1>6. ASSUME Stops(q), ~Stop(Head(q)) PROVE Stops(z)
  <2>1. PICK j \in 1 .. Len(q) : Stop(q[j])
    BY <1>1, <1>6 DEF Stops
  <2>2. j # 1
    BY <1>1, <1>6, <2>1
  <2>3. j - 1 \in 1 .. n /\ Stop(z[j - 1])
    BY <1>2, <1>3, <2>1, <2>2
  <2> QED
    BY <1>1, <2>3 DEF Stops
<1> QED
  BY <1>4, <1>5, <1>6 DEF z

LEMMA BoxEmpty == ASSUME NEW b PROVE ~Stops(<<>>) /\ Closed(<<>>, b)
  BY DEF Stops, Closed

LEMMA TypedFrom ==
  ASSUME scope' = scope,
         \A s \in scope.socks : \A v \in Users :
            Hears(ProgOf[s], v) /\ Sole(s)' /\ <<ProgOf[s], v>> \notin unsaid' /\ WillType(s, v)' => Stopping(v)'
  PROVE  TypedStops'
  BY DEF TypedStops, Ended, Hears

\* Steps at which nothing is heard or said of typing.
LEMMA NothingTyped ==
  ASSUME Base, TypInv, UNCHANGED <<scope, typed, typing, timer>>, unsaid \subseteq unsaid',
         \A s \in Socks : Sole(s)' => Sole(s),
         \A s \in Socks : \A v \in Users : WillType(s, v)' <=> WillType(s, v),
         \A s \in Socks : Closed(outbox[s], typing[ProgOf[s]]) => Closed(outbox'[s], typing[ProgOf[s]]),
         \A s \in Socks : Stops(outbox[s]) => Stops(outbox'[s])
  PROVE  TypInv'
<1>1. scope.socks \subseteq Socks
  BY InScope DEF Base
<1>2. \A v \in Users : Stopping(v) => Stopping(v)'
  BY DEF Stopping, U
<1>3. TypedStops'
  BY <1>1, <1>2, TypedFrom DEF TypInv, TypedStops, Ended
<1>4. Timed' /\ StartsStop' /\ Unheard'
  BY DEF TypInv, Timed, StartsStop, Unheard, Here, Hears
<1> QED
  BY <1>3, <1>4 DEF TypInv

LEMMA ConnectTyping == ASSUME Base, TypInv, NEW s0 \in Socks, Connect(s0) PROVE TypInv'
<1>1. /\ UNCHANGED <<scope, inbox, typed, typing, timer, unsaid>> /\ outbox' = [outbox EXCEPT ![s0] = <<Presence(U(s0), TRUE)>>]
      /\ ~sock[s0].alive /\ \A t \in Socks \ {s0} : sock'[t] = sock[t]
  BY Moves DEF Base, Connect, client, Hello
<1>2. outbox[s0] = <<>> /\ outbox \in [Socks -> Seq(Event)]
  BY <1>1 DEF Base, TypeOK, SockOk
<1>3. \A s \in Socks : Sole(s)' => Sole(s)
  BY <1>1 DEF Sole
<1>4. \A s \in Socks : \A v \in Users : WillType(s, v)' <=> WillType(s, v)
  BY <1>1 DEF WillType
<1>5. ~Stops(outbox[s0]) /\ Closed(outbox'[s0], typing[ProgOf[s0]])
  <2> DEFINE e == Presence(U(s0), TRUE)
  <2>1. outbox'[s0] = <<e>> /\ e.t = "presence"
    BY <1>1, <1>2 DEF Presence
  <2> HIDE DEF e
  <2> QED
    BY <1>2, <2>1 DEF Stops, Closed, Start
<1>6. \A s \in Socks \ {s0} : outbox'[s] = outbox[s]
  BY <1>1, <1>2
<1> QED
  BY <1>1, <1>3, <1>4, <1>5, <1>6, NothingTyped

\* Presence is no news of typing.
LEMMA PresenceTypes ==
  ASSUME TypeOK, NEW rs, NEW e \in Event, e.t = "presence", inbox' = Emit(inbox, rs, e), typed' = typed
  PROVE  \A s \in Socks : \A v \in Users : WillType(s, v)' <=> WillType(s, v)
<1> TAKE s \in Socks
<1> TAKE v \in Users
<1>1. inbox \in [Socks -> Seq(Event)]
  BY DEF TypeOK
<1>2. \A b : Ends(Emit(inbox, rs, e)[s], "typing", v, b, TRUE) <=> Ends(inbox[s], "typing", v, b, TRUE)
  BY <1>1, EmitEnds
<1> QED
  BY <1>2 DEF WillType

LEMMA QuietTyping ==
  ASSUME Base, TypInv,
         \/ \E s \in Socks : JoinWorkspaces(s) \/ Open(s) \/ AnnounceOffline(s)
         \/ \E u \in Users : AnnounceUpdate(u) \/ NewWindow(u)
         \/ \E p \in Programs : Create(p)
         \/ UNCHANGED vars
  PROVE  TypInv'
<1>1. UNCHANGED <<scope, outbox, typed, typing, timer, unsaid>>
  BY DEF JoinWorkspaces, Open, AnnounceOffline, AnnounceUpdate, NewWindow, Create, vars, server, client
<1>2. \A s \in Socks : (sock'[s].alive <=> sock[s].alive)
  <2>1. ASSUME NEW s0 \in Socks, JoinWorkspaces(s0) \/ Open(s0) \/ AnnounceOffline(s0)
        PROVE  \A s \in Socks : (sock'[s].alive <=> sock[s].alive)
    BY <2>1, Moves DEF Base
  <2>2. sock' = sock \/ \E s \in Socks : JoinWorkspaces(s) \/ Open(s) \/ AnnounceOffline(s)
    BY DEF AnnounceUpdate, NewWindow, Create, vars, server
  <2> QED
    BY <2>1, <2>2
<1>3. \A s \in Socks : Sole(s)' => Sole(s)
  BY <1>2 DEF Sole
<1>4. \A s \in Socks : \A v \in Users : WillType(s, v)' <=> WillType(s, v)
  <2>1. ASSUME NEW s0 \in Socks, Open(s0)
        PROVE  \A s \in Socks : \A v \in Users : WillType(s, v)' <=> WillType(s, v)
    BY <2>1, OpenWill
  <2>2. ASSUME NEW s0 \in Socks, AnnounceOffline(s0)
        PROVE  \A s \in Socks : \A v \in Users : WillType(s, v)' <=> WillType(s, v)
    <3> DEFINE e == Presence(U(s0), FALSE)
    <3>1. e \in Event /\ e.t = "presence"
      BY EventsAre, WhoseSock DEF Presence
    <3>2. inbox' = Emit(inbox, Member[U(s0)], e)
      BY <2>2 DEF AnnounceOffline
    <3> HIDE DEF e
    <3> QED
      BY <1>1, <3>1, <3>2, PresenceTypes DEF Base
  <2>3. ASSUME NEW u \in Users, AnnounceUpdate(u)
        PROVE  \A s \in Socks : \A v \in Users : WillType(s, v)' <=> WillType(s, v)
    <3> DEFINE e == Presence(u, TRUE)
    <3>1. e \in Event /\ e.t = "presence"
      BY EventsAre DEF Presence
    <3>2. inbox' = Emit(inbox, Member[u], e)
      BY <2>3 DEF AnnounceUpdate
    <3> HIDE DEF e
    <3> QED
      BY <1>1, <3>1, <3>2, PresenceTypes DEF Base
  <2>4. CASE inbox' = inbox
    BY <1>1, <2>4 DEF WillType
  <2>5. inbox' = inbox \/ (\E s \in Socks : Open(s) \/ AnnounceOffline(s)) \/ \E u \in Users : AnnounceUpdate(u)
    BY DEF JoinWorkspaces, NewWindow, Create, vars, server
  <2> QED
    BY <2>1, <2>2, <2>3, <2>4, <2>5
<1> QED
  BY <1>1, <1>3, <1>4, NothingTyped

LEMMA DropTyping == ASSUME Base, TypInv, NEW s0 \in Socks, Drop(s0) PROVE TypInv'
<1> DEFINE ends == {inbox[s0][i] : i \in DOMAIN inbox[s0]}
           stops == {i \in DOMAIN outbox[s0] : outbox[s0][i].t = "typing"}
<1>1. /\ UNCHANGED <<scope, typed, typing, timer>>
      /\ inbox' = [inbox EXCEPT ![s0] = <<>>] /\ outbox' = [outbox EXCEPT ![s0] = <<>>]
      /\ sock[s0].alive /\ ~sock'[s0].alive /\ \A t \in Socks \ {s0} : sock'[t] = sock[t]
      /\ unsaid' = unsaid \cup {<<ProgOf[s0], e.u>> : e \in {x \in ends : x.t = "typing"}}
                          \cup (IF stops # {} THEN Here \X {U(s0)} ELSE {})
  BY Moves DEF Base, Drop, Lost, client
<1>2. /\ scope.socks \subseteq Socks /\ s0 \in scope.socks /\ U(s0) \in Users
      /\ inbox \in [Socks -> Seq(Event)] /\ outbox \in [Socks -> Seq(Event)]
      /\ \A s \in Socks : ~sock[s].alive => inbox[s] = <<>>
      /\ \A s \in Socks : sock[s].alive /\ ProgOf[s] = ProgOf[s0] => s = s0
  BY <1>1, InScope, WhoseSock DEF Base, TypeOK, SockOk
<1>3. unsaid \subseteq unsaid'
  BY <1>1
<1>4. ASSUME NEW s \in scope.socks, NEW v \in Users, Hears(ProgOf[s], v), Sole(s)', <<ProgOf[s], v>> \notin unsaid', WillType(s, v)'
      PROVE  Stopping(v)
  <2>1. CASE ProgOf[s] = ProgOf[s0]
    <3>1. s \in Socks /\ inbox'[s] = <<>>
      BY <1>1, <1>2, <2>1
    <3>2. typed[ProgOf[s0]][v] # None
      <4>1. Ends(<<>>, "typing", v, typed[ProgOf[s0]][v] # None, TRUE)
        BY <1>1, <1>4, <2>1, <3>1 DEF WillType
      <4> QED
        BY <4>1 DEF Ends, News
    <3>3. \A i \in DOMAIN inbox[s0] : ~(inbox[s0][i].t = "typing" /\ inbox[s0][i].u = v)
      BY <1>1, <1>4, <2>1
    <3>4. WillType(s0, v) /\ Sole(s0) /\ <<ProgOf[s0], v>> \notin unsaid /\ Hears(ProgOf[s0], v)
      BY <1>1, <1>2, <1>3, <1>4, <2>1, <3>2, <3>3 DEF WillType, Ends, News, Sole
    <3> QED
      BY <1>2, <3>4 DEF TypInv, TypedStops, Ended
  <2>2. CASE ProgOf[s] # ProgOf[s0]
    <3>1. s # s0 /\ inbox'[s] = inbox[s] /\ <<ProgOf[s], v>> \notin unsaid
      BY <1>1, <1>2, <1>3, <1>4, <2>2
    <3>2. WillType(s, v)
      BY <1>1, <1>4, <3>1 DEF WillType
    <3>3. Sole(s)
      BY <1>1, <1>2, <1>4, <2>2 DEF Sole
    <3> QED
      BY <1>4, <3>1, <3>2, <3>3 DEF TypInv, TypedStops, Ended
  <2> QED
    BY <2>1, <2>2
<1>5. ASSUME NEW s \in scope.socks, NEW v \in Users, <<ProgOf[s], v>> \notin unsaid', Stopping(v) PROVE Stopping(v)'
  <2>1. CASE \E q \in Programs : UserOf[q] = v /\ typing[q]
    BY <1>1, <2>1 DEF Stopping
  <2>2. CASE \E t \in Socks : U(t) = v /\ Stops(outbox[t])
    <3>1. PICK t \in Socks : U(t) = v /\ Stops(outbox[t])
      BY <2>2
    <3>2. t # s0
      <4>1. SUFFICES ASSUME t = s0 PROVE FALSE
        OBVIOUS
      <4>2. stops # {}
        BY <3>1, <4>1 DEF Stops, Stop
      <4>3. Here \X {v} \subseteq unsaid'
        BY <1>1, <3>1, <4>1, <4>2
      <4>4. ProgOf[s] \in Here
        BY DEF Here
      <4> QED
        BY <1>5, <4>3, <4>4
    <3>3. outbox'[t] = outbox[t]
      BY <1>1, <1>2, <3>2
    <3> QED
      BY <3>1, <3>3 DEF Stopping, U
  <2> QED
    BY <1>5, <2>1, <2>2 DEF Stopping
<1>6. TypedStops'
  BY <1>1, <1>4, <1>5, TypedFrom
<1>7. StartsStop'
  <2>1. \A s \in Socks : outbox'[s] = IF s = s0 THEN <<>> ELSE outbox[s]
    BY <1>1, <1>2
  <2> QED
    BY <1>1, <2>1, BoxEmpty DEF StartsStop, TypInv
<1>8. Timed' /\ Unheard'
  BY <1>1 DEF TypInv, Timed, Unheard, Here, Hears
<1> QED
  BY <1>6, <1>7, <1>8 DEF TypInv

LEMMA HandleTyping == ASSUME Base, TypInv, NEW s0 \in Socks, Handle(s0) PROVE TypInv'
<1> DEFINE e  == Head(outbox[s0])
           ok == sock[s0].at = "open" /\ bucket[U(s0)] < MaxEvents
           rs == IF e.t = "typing" THEN {e.c} ELSE {}
           u  == U(s0)
<1>1. /\ UNCHANGED <<scope, sock, rooms, typed, typing, timer>> /\ outbox[s0] # <<>>
      /\ outbox' = [outbox EXCEPT ![s0] = Tail(@)]
      /\ inbox' = IF ok /\ e.t = "typing" THEN Emit(inbox, rs, e) ELSE inbox
      /\ unsaid' = IF e.t = "typing" /\ ~e.on
                   THEN unsaid \cup ((IF ok THEN Deaf(rs) ELSE Here) \X {u}) ELSE unsaid
  BY DEF Handle, client
<1>2. /\ outbox[s0] \in Seq(Event) /\ outbox \in [Socks -> Seq(Event)] /\ inbox \in [Socks -> Seq(Event)]
      /\ scope.socks \subseteq Socks /\ ProgOf[s0] \in Programs /\ UserOf[ProgOf[s0]] = u
      /\ typing \in [Programs -> BOOLEAN]
  BY InScope, WhoseSock DEF Base, TypeOK, U
<1>3. e \in Event
  <2> HIDE DEF Event
  <2> QED
    BY <1>1, <1>2
<1>4. e.u = u
  <2>1. 1 \in DOMAIN outbox[s0] /\ outbox[s0][1] = e
    <3> HIDE DEF Event
    <3> QED
      BY <1>1, <1>2
  <2> QED
    BY <2>1 DEF Base, TypeOK
<1> HIDE DEF e, rs, ok
<1>5. e.on \in BOOLEAN
  BY <1>3 DEF Event
<1>6. \A s \in Socks : Sole(s)' <=> Sole(s)
  BY <1>1 DEF Sole
<1>7. \A s \in Socks : outbox'[s] = IF s = s0 THEN Tail(outbox[s0]) ELSE outbox[s]
  BY <1>1, <1>2
<1>8. StartsStop'
  <2>1. ASSUME NEW s \in Socks PROVE Closed(outbox'[s], typing'[ProgOf[s]])
    <3>1. typing[ProgOf[s]] \in BOOLEAN /\ Closed(outbox[s], typing[ProgOf[s]])
      BY <1>2, WhoseSock DEF TypInv, StartsStop
    <3> QED
      BY <1>1, <1>2, <1>7, <3>1, BoxTail
  <2> QED
    BY <2>1 DEF StartsStop
<1>9. Timed' /\ Unheard'
  BY <1>1 DEF TypInv, Timed, Unheard, Here, Hears
<1>10. ASSUME NEW v \in Users, Stopping(v), v # u \/ ~Stop(e) PROVE Stopping(v)'
  <2>1. CASE \E q \in Programs : UserOf[q] = v /\ typing[q]
    BY <1>1, <2>1 DEF Stopping
  <2>2. CASE \E t \in Socks : U(t) = v /\ Stops(outbox[t])
    <3>1. PICK t \in Socks : U(t) = v /\ Stops(outbox[t])
      BY <2>2
    <3>2. Stops(outbox'[t])
      BY <1>1, <1>2, <1>7, <1>10, <3>1, BoxTail DEF e
    <3> QED
      BY <3>1, <3>2 DEF Stopping, U
  <2> QED
    BY <1>10, <2>1, <2>2 DEF Stopping
<1>11. ASSUME Start(e) PROVE Stopping(u)'
  <2>1. typing[ProgOf[s0]] \/ Stops(Tail(outbox[s0]))
    <3>1. typing[ProgOf[s0]] \in BOOLEAN /\ Closed(outbox[s0], typing[ProgOf[s0]])
      BY <1>2 DEF TypInv, StartsStop
    <3> QED
      BY <1>1, <1>2, <1>11, <3>1, BoxTail DEF e
  <2> QED
    BY <1>1, <1>2, <1>7, <2>1 DEF Stopping, U
<1>12. ASSUME NEW s \in Socks, NEW v \in Users
       PROVE  WillType(s, v)' <=>
                IF ok /\ (sock[s].alive /\ rooms[s] \cap rs # {}) /\ e.t = "typing" /\ v = u THEN e.on ELSE WillType(s, v)
  <2>1. \A b : Ends(Emit(inbox, rs, e)[s], "typing", v, b, TRUE) <=>
           IF (sock[s].alive /\ rooms[s] \cap rs # {}) /\ e.t = "typing" /\ e.u = v
           THEN e.on = TRUE ELSE Ends(inbox[s], "typing", v, b, TRUE)
    BY <1>2, <1>3, EmitEnds
  <2>2. (e.on = TRUE) <=> e.on
    BY <1>5
  <2>3. CASE ok /\ e.t = "typing"
    BY <1>1, <1>4, <2>1, <2>2, <2>3 DEF WillType
  <2>4. CASE ~(ok /\ e.t = "typing")
    BY <1>1, <2>4 DEF WillType
  <2> QED
    BY <2>3, <2>4
<1>13. ASSUME NEW s \in scope.socks, NEW v \in Users, Hears(ProgOf[s], v), Sole(s)', <<ProgOf[s], v>> \notin unsaid', WillType(s, v)'
       PROVE  Stopping(v)'
  <2>1. s \in Socks /\ Sole(s) /\ <<ProgOf[s], v>> \notin unsaid /\ ProgOf[s] \in Here
    BY <1>1, <1>2, <1>6, <1>13 DEF Here
  <2>2. WillType(s, v) => Stopping(v)
    BY <1>13, <2>1 DEF TypInv, TypedStops, Ended
  <2>3. CASE v # u \/ e.t # "typing"
    BY <1>10, <1>12, <1>13, <2>1, <2>2, <2>3 DEF Stop
  <2>4. CASE v = u /\ Start(e)
    BY <1>11, <2>4
  <2>5. CASE v = u /\ Stop(e)
    <3>1. ok /\ ProgOf[s] \notin Deaf(rs)
      BY <1>1, <1>13, <2>1, <2>5 DEF Stop
    <3>2. PICK t \in Alive(ProgOf[s]) : rooms[t] \cap rs # {}
      BY <2>1, <3>1 DEF Deaf
    <3>3. t = s /\ sock[s].alive
      BY <1>2, <2>1, <3>2 DEF Alive, Sole
    <3>4. WillType(s, v)' <=> e.on
      BY <1>12, <2>1, <2>5, <3>1, <3>2, <3>3 DEF Stop
    <3> QED
      BY <1>13, <2>5, <3>4 DEF Stop
  <2> QED
    BY <2>3, <2>4, <2>5 DEF Start, Stop
<1>14. TypedStops'
  BY <1>1, <1>13, TypedFrom
<1> QED
  BY <1>8, <1>9, <1>14 DEF TypInv

LEMMA ReceiveTyping == ASSUME Base, TypInv, NEW p \in Programs, Receive(p) PROVE TypInv'
<1>1. UNCHANGED <<scope, sock, outbox, typing, timer, unsaid>>
  BY DEF Receive
<1>2. \A s \in Socks : Sole(s)' <=> Sole(s)
  BY <1>1 DEF Sole
<1>3. \A v \in Users : Stopping(v)' <=> Stopping(v)
  BY <1>1 DEF Stopping, U
<1>4. scope.socks \subseteq Socks /\ p \in Here
  <2>1. SocketOf(p) \in scope.socks /\ ProgOf[SocketOf(p)] = p
    BY OneSock DEF Receive, Base
  <2> QED
    BY <2>1, InScope DEF Base, Here
<1>5. TypedStops'
  <2>1. ASSUME NEW s \in scope.socks, NEW v \in Users, Hears(ProgOf[s], v), Sole(s)', <<ProgOf[s], v>> \notin unsaid', WillType(s, v)'
        PROVE  Stopping(v)'
    <3>1. s \in Socks /\ Sole(s) /\ <<ProgOf[s], v>> \notin unsaid
      BY <1>1, <1>2, <1>4, <2>1
    <3>2. WillType(s, v)
      BY <2>1, <3>1, ReceiveWill DEF Hears
    <3> QED
      BY <1>3, <2>1, <3>1, <3>2 DEF TypInv, TypedStops, Ended
  <2> QED
    BY <1>1, <2>1, TypedFrom
<1>6. Unheard'
  <2> DEFINE e == Head(inbox[SocketOf(p)])
  <2>1. typed' = IF e.t = "typing" /\ (p \in Tuis \/ e.u # UserOf[p])
                 THEN [typed EXCEPT ![p] = [typed[p] EXCEPT ![e.u] = IF e.on THEN e.c ELSE None]] ELSE typed
    BY DEF Receive
  <2>2. typed \in [Programs -> [Users -> Channels \cup {None}]] /\ Here' = Here
    BY <1>1 DEF Base, TypeOK, Here
  <2> HIDE DEF e
  <2>3. ASSUME NEW q \in Programs, NEW v \in Users, q # p \/ ~Hears(p, v) PROVE typed'[q][v] = typed[q][v]
    BY <2>1, <2>2, <2>3 DEF Hears
  <2> QED
    BY <1>4, <2>2, <2>3 DEF TypInv, Unheard, Hears
<1> QED
  BY <1>1, <1>5, <1>6 DEF TypInv, Timed, StartsStop

\* What a program says, box by box.
LEMMA SayBoxes ==
  ASSUME Base, NEW p \in Programs, NEW c \in Channels, NEW on \in BOOLEAN, Say(p, c, on), NEW s \in Socks, NEW b \in BOOLEAN
  PROVE  /\ Stops(outbox[s]) => Stops(outbox'[s])
         /\ ~on /\ sock[s].alive /\ ProgOf[s] = p => Stops(outbox'[s])
         /\ Closed(outbox[s], b) /\ (ProgOf[s] = p => b \/ ~on) => Closed(outbox'[s], b)
         /\ ~on /\ ProgOf[s] = p => Closed(outbox'[s], b)
<1> DEFINE e == Typing(UserOf[p], c, on)
<1>1. outbox'[s] = IF sock[s].alive /\ ProgOf[s] = p THEN Append(outbox[s], e) ELSE outbox[s]
  BY SayTypes DEF Base
<1>2. e \in Event /\ e.t = "typing" /\ e.on = on
  BY EventsAre, PresenceAssumption DEF Typing
<1>3. outbox[s] \in Seq(Event) /\ (~sock[s].alive => outbox[s] = <<>>)
  BY DEF Base, TypeOK, SockOk
<1> HIDE DEF e
<1>4. CASE sock[s].alive /\ ProgOf[s] = p
  BY <1>1, <1>2, <1>3, <1>4, BoxAppend DEF Start, Stop
<1>5. CASE ~(sock[s].alive /\ ProgOf[s] = p)
  BY <1>1, <1>3, <1>5, BoxEmpty
<1> QED
  BY <1>4, <1>5

\* Steps of a program that speaks: who was to stop still is, unless it is told.
LEMMA SpokenKeeps ==
  ASSUME Base, TypInv, UNCHANGED <<scope, sock, inbox, typed>>, unsaid \subseteq unsaid', Timed', StartsStop',
         \A v \in Users : Stopping(v) => Stopping(v)' \/ Here \X {v} \subseteq unsaid'
  PROVE  TypInv'
<1>1. \A s \in Socks : Sole(s)' <=> Sole(s)
  BY DEF Sole
<1>2. \A s \in Socks : \A v \in Users : WillType(s, v)' <=> WillType(s, v)
  BY DEF WillType
<1>3. scope.socks \subseteq Socks
  BY InScope DEF Base
<1>4. TypedStops'
  <2>1. ASSUME NEW s \in scope.socks, NEW v \in Users, Hears(ProgOf[s], v), Sole(s)', <<ProgOf[s], v>> \notin unsaid', WillType(s, v)'
        PROVE  Stopping(v)'
    <3>1. Stopping(v)
      BY <1>1, <1>2, <1>3, <2>1 DEF TypInv, TypedStops, Ended
    <3>2. ProgOf[s] \in Here
      BY DEF Here
    <3> QED
      BY <2>1, <3>1, <3>2
  <2> QED
    BY <2>1, TypedFrom
<1>5. Unheard'
  BY DEF TypInv, Unheard, Here, Hears
<1> QED
  BY <1>4, <1>5 DEF TypInv

LEMMA KeyTyping == ASSUME Base, TypInv, NEW p \in Programs, Key(p) PROVE TypInv'
<1>1. /\ UNCHANGED <<scope, sock, inbox, typed, unsaid>>
      /\ typing' = [typing EXCEPT ![p] = TRUE] /\ timer' = [timer EXCEPT ![p] = active[p]]
      /\ outbox' = outbox \/ Say(p, active[p], TRUE)
  BY DEF Key
<1>2. /\ typing \in [Programs -> BOOLEAN] /\ timer \in [Programs -> Channels \cup {None}] /\ active[p] \in Channels
      /\ None \notin Channels
  BY PresenceAssumption DEF Base, TypeOK
<1>3. Timed'
  BY <1>1, <1>2 DEF TypInv, Timed
<1>4. ASSUME NEW s \in Socks PROVE (Stops(outbox[s]) => Stops(outbox'[s])) /\ Closed(outbox'[s], typing'[ProgOf[s]])
  <2>1. ProgOf[s] \in Programs /\ typing'[ProgOf[s]] \in BOOLEAN /\ (ProgOf[s] = p => typing'[ProgOf[s]])
        /\ (ProgOf[s] # p => typing'[ProgOf[s]] = typing[ProgOf[s]])
    BY <1>1, <1>2, WhoseSock
  <2>2. Closed(outbox[s], typing'[ProgOf[s]])
    BY <2>1 DEF TypInv, StartsStop, Closed
  <2>3. CASE outbox' = outbox
    BY <2>2, <2>3
  <2>4. CASE Say(p, active[p], TRUE)
    BY <1>2, <2>1, <2>2, <2>4, SayBoxes
  <2> QED
    BY <1>1, <2>3, <2>4
<1>5. \A v \in Users : Stopping(v) => Stopping(v)'
  BY <1>1, <1>2, <1>4 DEF Stopping, U
<1> QED
  BY <1>1, <1>3, <1>4, <1>5, SpokenKeeps DEF StartsStop

LEMMA StopTypingOk ==
  ASSUME Base, TypInv, NEW p \in Programs, NEW c \in Channels, StopTyping(p, c), UNCHANGED <<scope, sock, inbox, typed>>
  PROVE  TypInv'
<1>1. /\ timer' = [timer EXCEPT ![p] = None] /\ typing' = [typing EXCEPT ![p] = FALSE]
      /\ IF typing[p] THEN Say(p, c, FALSE) ELSE outbox' = outbox
      /\ unsaid' = IF typing[p] /\ ~Connected(p) THEN unsaid \cup (Here \X {UserOf[p]}) ELSE unsaid
  BY DEF StopTyping
<1>2. typing \in [Programs -> BOOLEAN] /\ timer \in [Programs -> Channels \cup {None}]
  BY DEF Base, TypeOK
<1>3. \A q \in Programs : typing'[q] = IF q = p THEN FALSE ELSE typing[q]
  BY <1>1, <1>2
<1>4. Timed'
  BY <1>1, <1>2, <1>3 DEF TypInv, Timed
<1>5. StartsStop'
  <2>1. ASSUME NEW s \in Socks PROVE Closed(outbox'[s], typing'[ProgOf[s]])
    <3>1. ProgOf[s] \in Programs /\ typing'[ProgOf[s]] \in BOOLEAN /\ Closed(outbox[s], typing[ProgOf[s]])
      BY <1>2, <1>3, WhoseSock DEF TypInv, StartsStop
    <3>2. CASE typing[p]
      <4>1. Say(p, c, FALSE)
        BY <1>1, <3>2
      <4> DEFINE b == typing'[ProgOf[s]]
      <4>2. b \in BOOLEAN /\ (ProgOf[s] # p => Closed(outbox[s], b))
        BY <1>3, <3>1
      <4> HIDE DEF b
      <4>3. ProgOf[s] = p => Closed(outbox'[s], b)
        BY <4>1, <4>2, SayBoxes
      <4>4. ProgOf[s] # p => Closed(outbox'[s], b)
        BY <4>1, <4>2, SayBoxes
      <4> QED
        BY <4>3, <4>4 DEF b
    <3>3. CASE ~typing[p]
      <4>0. typing[p] = FALSE
        BY <1>2, <3>3
      <4>1. typing'[ProgOf[s]] = typing[ProgOf[s]]
        BY <1>3, <3>1, <4>0
      <4> QED
        BY <1>1, <3>1, <3>3, <4>1
    <3> QED
      BY <3>2, <3>3
  <2> QED
    BY <2>1 DEF StartsStop
<1>6. ASSUME NEW v \in Users, Stopping(v) PROVE Stopping(v)' \/ Here \X {v} \subseteq unsaid'
  <2>1. \A s \in Socks : Stops(outbox[s]) => Stops(outbox'[s])
    BY <1>1, SayBoxes
  <2>2. CASE \E s \in Socks : U(s) = v /\ Stops(outbox[s])
    BY <2>1, <2>2 DEF Stopping, U
  <2>3. CASE \E q \in Programs : UserOf[q] = v /\ typing[q] /\ q # p
    BY <1>3, <2>3 DEF Stopping
  <2>4. CASE typing[p] /\ UserOf[p] = v
    <3>1. CASE Connected(p)
      <4> DEFINE s == SocketOf(p)
      <4>1. s \in Socks /\ sock[s].alive /\ ProgOf[s] = p
        BY <3>1, OneSock DEF Base
      <4> HIDE DEF s
      <4>2. Stops(outbox'[s]) /\ U(s) = v
        BY <1>1, <2>4, <4>1, SayBoxes DEF U
      <4> QED
        BY <4>1, <4>2 DEF Stopping, U
    <3>2. CASE ~Connected(p)
      BY <1>1, <2>4, <3>2
    <3> QED
      BY <3>1, <3>2
  <2> QED
    BY <1>6, <2>2, <2>3, <2>4 DEF Stopping
<1>7. unsaid \subseteq unsaid'
  BY <1>1
<1> QED
  BY <1>4, <1>5, <1>6, <1>7, SpokenKeeps

LEMMA SubmitTyping == ASSUME Base, TypInv, NEW p \in Programs, Submit(p) PROVE TypInv'
<1>1. UNCHANGED <<scope, sock, inbox, typed, typing, timer, unsaid>> /\ Say(p, active[p], FALSE)
  BY DEF Submit, SendTypingEvent, client
<1>2. active[p] \in Channels /\ typing \in [Programs -> BOOLEAN]
  BY DEF Base, TypeOK
<1>3. ASSUME NEW s \in Socks PROVE (Stops(outbox[s]) => Stops(outbox'[s])) /\ Closed(outbox'[s], typing[ProgOf[s]])
  <2>1. typing[ProgOf[s]] \in BOOLEAN /\ Closed(outbox[s], typing[ProgOf[s]])
    BY <1>2, WhoseSock DEF TypInv, StartsStop
  <2> QED
    BY <1>1, <1>2, <2>1, SayBoxes
<1>4. \A v \in Users : Stopping(v) => Stopping(v)'
  BY <1>1, <1>3 DEF Stopping, U
<1>5. Timed' /\ StartsStop'
  BY <1>1, <1>3 DEF TypInv, Timed, StartsStop
<1> QED
  BY <1>1, <1>4, <1>5, SpokenKeeps

LEMMA InitTyping == ASSUME Init PROVE TypInv
<1>1. /\ \A s \in Socks : inbox[s] = <<>> /\ outbox[s] = <<>>
      /\ \A p \in Programs : \A v \in Users : typed[p][v] = None
      /\ \A p \in Programs : ~typing[p]
      /\ scope.socks \subseteq Socks
  BY InitTypes, InScope DEF Init
<1>2. Timed /\ StartsStop /\ Unheard
  BY <1>1, BoxEmpty DEF Timed, StartsStop, Unheard
<1>3. \A s \in Socks : \A v \in Users : ~WillType(s, v)
  BY <1>1, WhoseSock DEF WillType, Ends, News
<1> QED
  BY <1>1, <1>2, <1>3 DEF TypInv, TypedStops, Ended

LEMMA TypingKept == ASSUME Base, TypInv, [Next]_vars PROVE TypInv'
<1>1. ASSUME NEW s \in Socks, Connect(s) \/ Drop(s) \/ Handle(s) PROVE TypInv'
  BY <1>1, ConnectTyping, DropTyping, HandleTyping
<1>2. ASSUME NEW p \in Programs, Receive(p) \/ Key(p) \/ Submit(p) PROVE TypInv'
  BY <1>2, ReceiveTyping, KeyTyping, SubmitTyping
<1>3. ASSUME NEW p \in Programs, Pause(p) PROVE TypInv'
  <2>1. timer[p] \in Channels
    BY <1>3 DEF Pause, Base, TypeOK
  <2> QED
    BY <1>3, <2>1, StopTypingOk DEF Pause
<1>4. ASSUME NEW p \in Programs, NEW c \in Channels, Finish(p, c) PROVE TypInv'
  <2>1. active[p] \in Channels
    BY DEF Base, TypeOK
  <2> QED
    BY <1>4, <2>1, StopTypingOk DEF Finish
<1>5. \/ \E s \in Socks : Connect(s) \/ Drop(s) \/ Handle(s)
      \/ \E p \in Programs : Receive(p) \/ Key(p) \/ Submit(p) \/ Pause(p) \/ \E c \in Channels : Finish(p, c)
      \/ \E s \in Socks : JoinWorkspaces(s) \/ Open(s) \/ AnnounceOffline(s)
      \/ \E u \in Users : AnnounceUpdate(u) \/ NewWindow(u)
      \/ \E p \in Programs : Create(p)
      \/ UNCHANGED vars
  BY DEF Next, Server
<1> QED
  BY <1>1, <1>2, <1>3, <1>4, <1>5, QuietTyping

\* Once nothing waits and nobody types, who is shown typing is so for ever.
LEMMA EndsWhenQuiet == ASSUME Base, TypInv PROVE TypingEnds
<1> SUFFICES ASSUME \A p \in Programs : timer[p] = None, \A s \in Socks : inbox[s] = <<>> /\ outbox[s] = <<>>,
                    NEW p \in Programs, NEW v \in Users, typed[p][v] # None
             PROVE  <<p, v>> \in unsaid
  BY DEF TypingEnds
<1>1. ~Stopping(v)
  BY BoxEmpty DEF Stopping, TypInv, Timed
<1>2. p \in Here /\ Hears(p, v)
  BY DEF TypInv, Unheard
<1>3. PICK s \in scope.socks : ProgOf[s] = p /\ Sole(s)
  <2>1. PICK t \in scope.socks : ProgOf[t] = p
    BY <1>2 DEF Here
  <2>2. CASE Connected(p)
    BY <2>2, OneSock DEF Base, Sole
  <2>3. CASE ~Connected(p)
    <3>1. \A q \in Socks : sock[q].alive => ProgOf[q] # p
      BY <2>3, AliveConnected DEF Base
    <3> QED
      BY <2>1, <3>1 DEF Sole
  <2> QED
    BY <2>2, <2>3
<1>4. WillType(s, v)
  BY <1>3, InScope DEF WillType, Ends, News, Base
<1> QED
  BY <1>1, <1>2, <1>3, <1>4 DEF TypInv, TypedStops, Ended

\* Every reachable state is typed, and no user has more connections than can be
\* counted: what the theorems below rest on.
THEOREM Invariance == Spec => []Base
  BY BaseInit, BaseKept, PTL DEF Spec

\* socket.ts:83-87, 117-126: with connects, closes and handlers interleaved at
\* will, the count of a user is always that of his attached connections and of
\* those that closed while their handler still awaited its lists.
THEOREM CountedRight == Spec => []Counted
<1>1. Base => Counted
  BY DEF Base, CInv
<1> QED
  BY <1>1, Invariance, PTL

\* socket.ts:97-108, 118-123: once no event is under way, a program shows a
\* user of a shared workspace online exactly when he is counted, but for the
\* cases kept in stale.
THEOREM ShownRight == Spec => []PresenceRight
<1>1. Init => PresInv
  BY InitPresence DEF PresInv
<1>2. Base /\ PresInv /\ [Next]_vars => PresInv'
  BY PresenceKept
<1>3. Base /\ PresInv => PresenceRight
  BY RightWhenSettled
<1> QED
  BY <1>1, <1>2, <1>3, Invariance, PTL DEF Spec

\* useTyping.ts:9-12, ChatRoute.tsx:290-300: once timers and boxes are empty
\* nobody is shown typing, but for those whose stop was lost on its way.
THEOREM TypingStops == Spec => []TypingEnds
<1>1. Init => TypInv
  BY InitTyping
<1>2. Base /\ TypInv /\ [Next]_vars => TypInv'
  BY TypingKept
<1>3. Base /\ TypInv => TypingEnds
  BY EndsWhenQuiet
<1> QED
  BY <1>1, <1>2, <1>3, Invariance, PTL DEF Spec
================================================================================
