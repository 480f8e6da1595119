----------------------------- MODULE SessionsProofs -----------------------------
(* Two kinds of sessions.  Of an account, what the session stores guarantee for  *)
(* any number of tokens, tabs and requests.  Between two pages, for any pages,   *)
(* messages, connections and faults: a page has one connection, the one its pool *)
(* knows, and loses the channel of a live one only to the close event of an      *)
(* earlier one; a message goes by one path and is stored once.                   *)
EXTENDS RefreshSessions, PeerToPeer, SequenceTheorems, TLAPS

-----------------------------------------------------------------------------
(* Sessions of an account *)

LEMMA InitInv == Init => Inv
<1> SUFFICES ASSUME Init PROVE Inv
  OBVIOUS
<1>1. \A s \in Slots : req[s] = Idle
  BY DEF Init
<1>2. TypeOK
  BY ConstantsAssumption DEF Init, TypeOK, Request, Idle, OptToken
<1>3. Lineage
  BY <1>1 DEF Init, Lineage, Carries, Rotating, Idle
<1>4. RotationAlone /\ RotationInMemory /\ OneLiveInMemory
  BY <1>1 DEF Init, RotationAlone, RotationInMemory, OneSuccessor, OneLiveInMemory, Rotating, Idle
<1>5. QED
  BY <1>2, <1>3, <1>4 DEF Inv

-----------------------------------------------------------------------------
(* Steps that mint nothing and start no rotation *)

\* When sessions only fade and requests carry minted tokens, all is kept but, in
\* memory, what a rotation that starts must satisfy.
LEMMA FadeBase ==
  ASSUME Inv, UNCHANGED <<store, parent, login>>,
         session' \in [Tokens -> {"unissued", "live", "revoked", "gone"}],
         \A t \in Tokens : session'[t] = "live" => session[t] = "live",
         \A t \in Tokens : session'[t] = "unissued" <=> session[t] = "unissued",
         req' \in [Slots -> Request],
         \A s \in Slots : Carries(req'[s]),
         \A s \in Slots : Rotating(s)' => session'[req'[s].token] # "live",
         held' \in [Tabs -> Minted \cup {None}], persisted' \in Minted \cup {None},
         replays' \subseteq Tokens, disturbed' \in BOOLEAN
  PROVE  TypeOK' /\ Lineage' /\ RotationInMemory' /\ OneLiveInMemory'
<1>1. Minted' = Minted
  BY DEF Minted
<1>2. TypeOK'
  BY DEF Inv, TypeOK, Minted, OptToken
<1>3. Lineage'
  <2>1. \A t \in Tokens :
          /\ session'[t] = "unissued" => parent'[t] = None
          /\ session'[t] # "unissued" => login'[t] \in Minted'
          /\ parent'[t] # None => parent'[t] \in Minted' /\ session'[parent'[t]] # "live"
    BY <1>1 DEF Inv, Lineage, Minted
  <2>2. \A s \in Slots : Carries(req[s])' /\ (Rotating(s) => session[req[s].token] # "live")'
    BY <1>1 DEF Carries
  <2>3. QED
    BY <1>1, <2>1, <2>2 DEF Lineage
<1>4. RotationInMemory' /\ OneLiveInMemory'
  BY DEF Inv, RotationInMemory, OneSuccessor, OneLiveInMemory
<1>5. QED
  BY <1>2, <1>3, <1>4

\* If moreover what rotates rotated before, the whole invariant is kept.
LEMMA Fade ==
  ASSUME Inv, UNCHANGED <<store, parent, login>>,
         session' \in [Tokens -> {"unissued", "live", "revoked", "gone"}],
         \A t \in Tokens : session'[t] = "live" => session[t] = "live",
         \A t \in Tokens : session'[t] = "unissued" <=> session[t] = "unissued",
         req' \in [Slots -> Request],
         \A s \in Slots : Carries(req'[s]),
         \A s \in Slots : Rotating(s)' => session'[req'[s].token] # "live",
         store = "memory" =>
           \A s \in Slots : /\ req'[s].pc \notin {"peek", "mark"}
                            /\ Rotating(s)' => Rotating(s) /\ req'[s].token = req[s].token,
         held' \in [Tabs -> Minted \cup {None}], persisted' \in Minted \cup {None},
         replays' \subseteq Tokens, disturbed' \in BOOLEAN
  PROVE  Inv'
<1>1. RotationAlone'
  <2>1. SUFFICES ASSUME store = "memory", NEW s \in Slots, Rotating(s)'
                 PROVE  /\ \A t \in Tokens : parent'[t] # req'[s].token
                        /\ \A t \in Tokens : session'[t] = "live" => login'[t] # login'[req'[s].token]
                        /\ \A r \in Slots \ {s} :
                             Rotating(r)' => login'[req'[r].token] # login'[req'[s].token]
    BY DEF RotationAlone
  <2>2. Rotating(s) /\ req'[s].token = req[s].token /\ req[s].token \in Tokens
    BY <2>1 DEF Inv, Lineage, Carries, Rotating, Minted, Idle
  <2>3. QED
    BY <2>1, <2>2 DEF Inv, RotationAlone
<1>2. QED
  BY <1>1, FadeBase DEF Inv

\* The special case of one request moving on while the sessions stay as they are.
LEMMA MoveOn ==
  ASSUME Inv, NEW s \in Slots, NEW r \in Request, Become(s, r), Carries(r),
         UNCHANGED <<store, session, parent, login>>,
         store = "memory" => r.pc \notin {"peek", "mark"}, r.pc = "create" => r.token = None,
         held' \in [Tabs -> Minted \cup {None}], persisted' \in Minted \cup {None},
         replays' \subseteq Tokens, disturbed' \in BOOLEAN
  PROVE  Inv'
<1>1. req' \in [Slots -> Request] /\ req'[s] = r /\ \A q \in Slots \ {s} : req'[q] = req[q]
  BY DEF Inv, TypeOK, Become
<1>2. \A q \in Slots : Carries(req'[q])
  BY <1>1 DEF Inv, Lineage
<1>3. ASSUME NEW q \in Slots
      PROVE  /\ store = "memory" => req'[q].pc \notin {"peek", "mark"}
             /\ Rotating(q)' => Rotating(q) /\ req'[q].token = req[q].token
  BY <1>1, <1>3 DEF Inv, RotationAlone, Rotating
<1>4. QED
  BY <1>1, <1>2, <1>3, Fade DEF Inv, TypeOK, Lineage

\* Requests that lose the tab waiting for them are otherwise what they were.
LEMMA OrphanStep ==
  ASSUME Inv, NEW gone \in SUBSET Active, Orphan(gone),
         UNCHANGED <<store, session, parent, login>>,
         held' \in [Tabs -> Minted \cup {None}], persisted' \in Minted \cup {None},
         replays' \subseteq Tokens, disturbed' \in BOOLEAN
  PROVE  Inv'
<1>1. ASSUME NEW s \in Slots
      PROVE  /\ req'[s] \in Request
             /\ req'[s] = req[s]
                \/ (req[s] # Idle /\ req'[s].pc = req[s].pc /\ req'[s].token = req[s].token)
  <2>1. CASE s \in gone
    <3>1. /\ req[s] \in [pc : Stage, token : OptToken, tab : OptTab, next : {"idle", "audit", "create"}]
          /\ req[s] # Idle
      BY <2>1 DEF Inv, TypeOK, Request, Active, Idle
    <3>2. req'[s] = [req[s] EXCEPT !.tab = None]
      BY <2>1 DEF Orphan
    <3>3. QED
      BY <3>1, <3>2 DEF Request, OptTab
  <2>2. CASE s \notin gone
    BY <2>2 DEF Orphan, Inv, TypeOK
  <2>3. QED
    BY <2>1, <2>2
<1>2. req' \in [Slots -> Request]
  BY <1>1 DEF Orphan
<1>3. \A s \in Slots : Carries(req'[s])
  BY <1>1 DEF Inv, Lineage, Carries
<1>4. ASSUME NEW s \in Slots
      PROVE  /\ store = "memory" => req'[s].pc \notin {"peek", "mark"}
             /\ Rotating(s)' => Rotating(s) /\ req'[s].token = req[s].token
  BY <1>1, <1>4 DEF Inv, RotationAlone, Rotating, Idle
<1>5. QED
  BY <1>2, <1>3, <1>4, Fade DEF Inv, TypeOK, Lineage

\* The frame of the requests: what Fade and its cases ask of the tabs' tokens.
LEMMA TabsKept ==
  ASSUME Inv, UNCHANGED <<held, persisted, replays, disturbed>>
  PROVE  /\ held' \in [Tabs -> Minted \cup {None}] /\ persisted' \in Minted \cup {None}
         /\ replays' \subseteq Tokens /\ disturbed' \in BOOLEAN
  BY DEF Inv, TypeOK, Lineage

\* A request in flight is a record with a stage.
LEMMA StageOf ==
  ASSUME Inv, NEW s \in Slots, req[s].pc # "idle"
  PROVE  /\ req[s] \in [pc : Stage, token : OptToken, tab : OptTab, next : {"idle", "audit", "create"}]
         /\ req[s] # Idle /\ s \in Active
         /\ req[s].pc \notin {"create", "reply"} => req[s].token \in Minted
  BY DEF Inv, TypeOK, Request, Idle, Active, Lineage, Carries

LEMMA IdleOk == Idle \in Request /\ Carries(Idle) /\ Idle.pc = "idle"
  BY DEF Idle, Request, Carries

LEMMA ArriveSteps ==
  ASSUME Inv, NEW s \in Slots, NEW tab \in Tabs, Login(s, tab) \/ RefreshNow(s, tab)
  PROVE  Inv'
<1>1. CASE Login(s, tab)
  <2> DEFINE r == [pc |-> "create", token |-> None, tab |-> tab, next |-> "idle"]
  <2>1. r \in Request /\ Carries(r)
    BY DEF Request, Carries, Stage, OptToken, OptTab
  <2>2. QED
    BY <1>1, <2>1, MoveOn, TabsKept DEF Login
<1>2. CASE RefreshNow(s, tab)
  <2>1. PICK t : t = held[tab]
    OBVIOUS
  <2> DEFINE r == [pc |-> "get", token |-> t, tab |-> tab, next |-> "idle"]
  <2>2. t \in Minted /\ t # None
    BY <1>2, <2>1 DEF RefreshNow, Inv, Lineage
  <2>3. r \in Request /\ Carries(r)
    BY <2>2 DEF Request, Carries, Stage, OptToken, OptTab, Minted
  <2>4. QED
    BY <1>2, <2>1, <2>3, MoveOn, TabsKept DEF RefreshNow
<1>3. QED
  BY <1>1, <1>2

\* Revoking a token fades one session and mints nothing.
LEMMA RevokedFades ==
  ASSUME Inv, NEW t \in Tokens
  PROVE  /\ Revoked(t) \in [Tokens -> {"unissued", "live", "revoked", "gone"}]
         /\ \A u \in Tokens : Revoked(t)[u] = "live" <=> session[u] = "live" /\ u # t
         /\ \A u \in Tokens : Revoked(t)[u] = "unissued" <=> session[u] = "unissued"
  BY DEF Inv, TypeOK, Revoked

LEMMA LogoutStep ==
  ASSUME Inv, NEW s \in Slots, NEW t \in Tokens, Logout(s, t)
  PROVE  Inv'
<1>1. CASE store = "memory"
  <2>1. session' = Revoked(t) /\ req' = req
    BY <1>1 DEF Logout
  <2>2. \A q \in Slots : Carries(req'[q])
    BY <2>1 DEF Inv, Lineage
  <2>3. ASSUME NEW q \in Slots
        PROVE  /\ req'[q].pc \notin {"peek", "mark"}
               /\ Rotating(q)' => Rotating(q) /\ req'[q].token = req[q].token
    BY <1>1, <2>1 DEF Inv, RotationAlone, Rotating
  <2>4. /\ held' \in [Tabs -> Minted \cup {None}] /\ persisted' \in Minted \cup {None}
        /\ replays' \subseteq Tokens /\ disturbed' \in BOOLEAN
    BY DEF Logout, Inv, TypeOK, Lineage
  <2>5. \A q \in Slots : Rotating(q)' => session'[req'[q].token] # "live"
    BY <2>1, RevokedFades DEF Inv, Lineage, Rotating, Carries, Minted, Idle
  <2>6. QED
    BY <2>1, <2>2, <2>3, <2>4, <2>5, RevokedFades, Fade DEF Logout, Inv, TypeOK
<1>2. CASE store # "memory"
  <2> DEFINE r == [pc |-> "peek", token |-> t, tab |-> None, next |-> "idle"]
  <2>1. r \in Request /\ Carries(r)
    BY ConstantsAssumption DEF Logout, Request, Carries, Stage, OptToken, OptTab
  <2>2. /\ held' \in [Tabs -> Minted \cup {None}] /\ persisted' \in Minted \cup {None}
        /\ replays' \subseteq Tokens /\ disturbed' \in BOOLEAN
    BY DEF Logout, Inv, TypeOK, Lineage
  <2>3. QED
    BY <1>2, <2>1, <2>2, MoveOn DEF Logout
<1>3. QED
  BY <1>1, <1>2

-----------------------------------------------------------------------------
(* The steps of refresh and revoke *)

\* In memory, spending a live token starts the only rotation of its login.
LEMMA SpendStep ==
  ASSUME Inv, NEW s \in Slots, CheckInMemory(s), Valid(req[s].token)
  PROVE  Inv'
<1>0. PICK t : t = req[s].token
  OBVIOUS
<1>1. /\ req[s] \in [pc : Stage, token : OptToken, tab : OptTab, next : {"idle", "audit", "create"}]
      /\ t \in Minted /\ t \in Tokens /\ session[t] = "live" /\ store = "memory"
      /\ req[s] # Idle
  BY <1>0, StageOf DEF CheckInMemory, Valid, Minted
<1>2. session' = Revoked(t) /\ req' = [req EXCEPT ![s] = [req[s] EXCEPT !.pc = "create"]]
  BY <1>0 DEF CheckInMemory, Goto, Become
<1>3. /\ req' \in [Slots -> Request]
      /\ req'[s].pc = "create" /\ req'[s].token = t /\ req'[s] \in Request
      /\ \A q \in Slots \ {s} : req'[q] = req[q]
  BY <1>0, <1>1, <1>2 DEF Inv, TypeOK, Request, Stage
<1>4. \A q \in Slots : Carries(req'[q])
  BY <1>1, <1>3 DEF Inv, Lineage, Carries
<1>5. UNCHANGED <<store, parent, login, held, persisted, replays, disturbed>>
  BY DEF CheckInMemory
<1>6. \A u \in Tokens : session'[u] = "live" <=> session[u] = "live" /\ u # t
  BY <1>1, <1>2, RevokedFades
<1>7. TypeOK' /\ Lineage' /\ RotationInMemory' /\ OneLiveInMemory'
  <2>1. \A q \in Slots : Rotating(q)' => session'[req'[q].token] # "live"
    BY <1>1, <1>3, <1>6 DEF Inv, Lineage, Rotating, Carries, Minted, Idle
  <2>2. QED
    BY <1>1, <1>2, <1>3, <1>4, <1>5, <2>1, RevokedFades, TabsKept, FadeBase
<1>8. \A u \in Tokens : parent[u] # t
  BY <1>1, ConstantsAssumption DEF Inv, Lineage, Minted
<1>9. \A r \in Slots : Rotating(r) => login[t] # login[req[r].token]
  BY <1>1 DEF Inv, RotationAlone
<1>10. RotationAlone'
  <2>1. SUFFICES ASSUME NEW q \in Slots, Rotating(q)'
                 PROVE  /\ \A u \in Tokens : parent'[u] # req'[q].token
                        /\ \A u \in Tokens : session'[u] = "live" => login'[u] # login'[req'[q].token]
                        /\ \A r \in Slots \ {q} :
                             Rotating(r)' => login'[req'[r].token] # login'[req'[q].token]
    BY <1>1, <1>3 DEF RotationAlone, Inv
  <2>2. CASE q = s
    BY <1>1, <1>3, <1>5, <1>6, <1>8, <1>9, <2>2 DEF Rotating, Inv, OneLiveInMemory
  <2>3. CASE q # s
    <3>1. Rotating(q) /\ req'[q] = req[q] /\ req[q].token \in Tokens
      BY <1>3, <2>1, <2>3 DEF Rotating, Inv, Lineage, Carries, Minted, Idle
    <3>2. \A r \in Slots \ {q} : Rotating(r)' => login[req'[r].token] # login[req[q].token]
      BY <1>1, <1>3, <1>9, <3>1 DEF Inv, RotationAlone, Rotating
    <3>3. QED
      BY <1>1, <1>5, <1>6, <3>1, <3>2 DEF Inv, RotationAlone
  <2>4. QED
    BY <2>2, <2>3
<1>11. QED
  BY <1>7, <1>10 DEF Inv

\* Checking a dead token, a copy, and the two halves of Redis' revoke.
LEMMA CheckSteps ==
  ASSUME Inv, NEW s \in Slots,
         CheckInMemory(s) \/ CheckCopy(s) \/ Peek(s) \/ Mark(s) \/ Audit(s)
  PROVE  Inv'
<1>1. CASE CheckInMemory(s) /\ ~ Valid(req[s].token)
  <2>0. PICK t : t = req[s].token
    OBVIOUS
  <2> DEFINE r == [req[s] EXCEPT !.pc = "audit"]
  <2>1. /\ req[s] \in [pc : Stage, token : OptToken, tab : OptTab, next : {"idle", "audit", "create"}]
        /\ t \in Minted /\ t \in Tokens /\ req[s] # Idle
    BY <1>1, <2>0, StageOf DEF CheckInMemory, Minted
  <2>2. r \in Request /\ Carries(r) /\ r.pc = "audit"
    BY <2>0, <2>1, ConstantsAssumption DEF Carries, Request, Stage
  <2>3. session' = session
    BY <1>1, <2>0, <2>1 DEF CheckInMemory, Valid, Revoked, Inv, TypeOK
  <2>4. Become(s, r)
    BY <1>1 DEF CheckInMemory, Goto
  <2>5. UNCHANGED <<store, parent, login, held, persisted, replays, disturbed>>
    BY <1>1 DEF CheckInMemory
  <2>6. QED
    BY <2>2, <2>3, <2>4, <2>5, MoveOn, TabsKept
<1>2. CASE CheckCopy(s)
  <2>0. PICK t : t = req[s].token
    OBVIOUS
  <2>1. PICK p \in {"audit", "peek"}, n \in {"create", "audit"} :
          Become(s, [req[s] EXCEPT !.pc = p, !.next = n])
    BY <1>2 DEF CheckCopy
  <2> DEFINE r == [req[s] EXCEPT !.pc = p, !.next = n]
  <2>2. /\ req[s] \in [pc : Stage, token : OptToken, tab : OptTab, next : {"idle", "audit", "create"}]
        /\ t \in Minted /\ t \in Tokens /\ req[s] # Idle
    BY <1>2, <2>0, StageOf DEF CheckCopy, Minted
  <2>3. r \in Request /\ Carries(r) /\ r.pc # "create"
    BY <1>2, <2>0, <2>2 DEF Inv, Lineage, Carries, Request, Stage, CheckCopy
  <2>4. store = "redis" /\ UNCHANGED <<store, session, parent, login, held, persisted, replays, disturbed>>
    BY <1>2 DEF CheckCopy
  <2>5. QED
    BY <2>1, <2>3, <2>4, MoveOn, TabsKept
<1>3. CASE Peek(s) \/ Mark(s)
  <2>0. PICK t : t = req[s].token
    OBVIOUS
  <2>1. /\ req[s] \in [pc : Stage, token : OptToken, tab : OptTab, next : {"idle", "audit", "create"}]
        /\ t \in Minted /\ t \in Tokens /\ req[s] # Idle /\ t # None
    BY <1>3, <2>0, StageOf, ConstantsAssumption DEF Peek, Mark, Minted
  <2>2. store # "memory"
    BY <1>3 DEF Peek, Mark, Inv, RotationAlone
  <2>3. PICK n \in {"idle", "mark", "audit", "create"} :
          Goto(s, n) /\ (n = "create" => session'[t] # "live")
    <3>1. CASE Peek(s)
      BY <2>0, <2>1, <3>1 DEF Peek
    <3>2. CASE Mark(s)
      BY <2>0, <2>1, <3>2, RevokedFades DEF Mark, Marked
    <3>3. QED
      BY <1>3, <3>1, <3>2
  <2>4. PICK r \in Request :
          Become(s, r) /\ Carries(r) /\ (r.pc = "create" => r.token = t /\ session'[t] # "live")
    <3>1. CASE n = "idle"
      BY <2>3, <3>1, IdleOk DEF Goto, Idle
    <3>2. CASE n # "idle"
      <4>1. /\ [req[s] EXCEPT !.pc = n] \in Request /\ Carries([req[s] EXCEPT !.pc = n])
            /\ [req[s] EXCEPT !.pc = n].pc = n /\ [req[s] EXCEPT !.pc = n].token = t
        BY <2>0, <2>1, <3>2 DEF Request, Stage, Carries
      <4>2. QED
        BY <2>3, <3>2, <4>1 DEF Goto
    <3>3. QED
      BY <3>1, <3>2
  <2>5. UNCHANGED <<store, parent, login, held, persisted, replays, disturbed>>
    BY <1>3 DEF Peek, Mark
  <2>6. session' = session \/ session' = Revoked(t)
    BY <1>3, <2>0 DEF Peek, Mark, Marked
  <2>7. req' \in [Slots -> Request] /\ \A q \in Slots : Carries(req'[q])
    BY <2>4 DEF Become, Inv, TypeOK, Lineage
  <2>8. \A q \in Slots : Rotating(q)' => session'[req'[q].token] # "live"
    <3>1. SUFFICES ASSUME NEW q \in Slots, Rotating(q)' PROVE session'[req'[q].token] # "live"
      OBVIOUS
    <3>2. CASE q = s
      BY <2>4, <3>1, <3>2 DEF Become, Inv, TypeOK, Rotating
    <3>3. CASE q # s
      <4>1. Rotating(q) /\ req'[q] = req[q] /\ req[q].token \in Tokens
        BY <2>4, <3>1, <3>3 DEF Become, Inv, TypeOK, Rotating, Lineage, Carries, Minted, Idle
      <4>2. QED
        BY <2>1, <2>6, <4>1, RevokedFades DEF Inv, Lineage
    <3>4. QED
      BY <3>2, <3>3
  <2>9. QED
    BY <2>1, <2>2, <2>5, <2>6, <2>7, <2>8, RevokedFades, TabsKept, Fade DEF Inv, TypeOK
<1>4. CASE Audit(s)
  <2>0. PICK t : t = req[s].token
    OBVIOUS
  <2> DEFINE r == [req[s] EXCEPT !.pc = "reply", !.token = None]
  <2>1. /\ req[s] \in [pc : Stage, token : OptToken, tab : OptTab, next : {"idle", "audit", "create"}]
        /\ t \in Tokens
    BY <1>4, <2>0, StageOf DEF Audit, Minted
  <2>2. r \in Request /\ Carries(r) /\ r.pc = "reply"
    BY <2>1 DEF Request, Stage, OptToken, Carries
  <2>3. /\ Become(s, r) /\ replays' = replays \cup {t}
        /\ UNCHANGED <<store, session, parent, login, held, persisted, disturbed>>
    BY <1>4, <2>0 DEF Audit
  <2>4. /\ held' \in [Tabs -> Minted \cup {None}] /\ persisted' \in Minted \cup {None}
        /\ replays' \subseteq Tokens /\ disturbed' \in BOOLEAN
    BY <2>1, <2>3 DEF Inv, TypeOK, Lineage
  <2>5. QED
    BY <2>2, <2>3, <2>4, MoveOn
<1>5. QED
  BY <1>1, <1>2, <1>3, <1>4, SpendStep

\* Minting: the new token is nobody's parent or login yet, and in memory it is the only
\* live one of the login whose rotation it completes.
LEMMA CreateStep ==
  ASSUME Inv, NEW s \in Slots, NEW u \in Tokens, Create(s, u)
  PROVE  Inv'
<1>0. PICK p, root : p = req[s].token /\ root = (IF p = None THEN u ELSE login[p])
  OBVIOUS
<1>1. /\ req[s] \in [pc : Stage, token : OptToken, tab : OptTab, next : {"idle", "audit", "create"}]
      /\ req[s] # Idle /\ req[s].pc = "create"
      /\ p \in Minted \cup {None} /\ p # u /\ u \notin Minted /\ u # None
  BY <1>0, StageOf, ConstantsAssumption DEF Create, Inv, Lineage, Carries, Minted
<1>2. /\ session' = [session EXCEPT ![u] = "live"]
      /\ parent' = [parent EXCEPT ![u] = p]
      /\ login' = [login EXCEPT ![u] = root]
      /\ req' = [req EXCEPT ![s] = [req[s] EXCEPT !.pc = "reply", !.token = u]]
      /\ UNCHANGED <<store, replays, held, persisted, disturbed>>
  BY <1>0 DEF Create, Become
<1>3. Minted' = Minted \cup {u} /\ root \in Minted'
  BY <1>0, <1>1, <1>2 DEF Minted, Inv, TypeOK, Lineage
<1>4. /\ req' \in [Slots -> Request]
      /\ req'[s].pc = "reply" /\ req'[s].token = u
      /\ \A q \in Slots \ {s} : req'[q] = req[q]
  BY <1>1, <1>2 DEF Inv, TypeOK, Request, Stage, OptToken
<1>5. TypeOK'
  BY <1>0, <1>1, <1>2, <1>3, <1>4 DEF Inv, TypeOK, OptToken, Minted
<1>6. /\ session'[u] = "live" /\ login'[u] = root /\ parent'[u] = p
      /\ \A t \in Tokens : t # u => session'[t] = session[t] /\ parent'[t] = parent[t]
                                     /\ login'[t] = login[t]
  BY <1>1, <1>2 DEF Inv, TypeOK
<1>6a. \A t \in Tokens : t # u => parent[t] # u /\ (session[t] # "unissued" => login[t] # u)
  BY <1>1 DEF Inv, TypeOK, Lineage, Minted
<1>7. ASSUME NEW q \in Slots, Rotating(q)'
      PROVE  /\ q # s /\ Rotating(q) /\ req'[q] = req[q]
             /\ req[q].token \in Minted /\ req[q].token # u /\ session[req[q].token] # "live"
             /\ login[req[q].token] # u
  BY <1>1, <1>4, <1>7 DEF Inv, Lineage, Rotating, Carries, Idle, Minted
<1>8. Lineage'
  <2>1. p # None => session[p] # "live" /\ p \in Tokens \ {u}
    BY <1>0, <1>1 DEF Inv, Lineage, Rotating, Minted
  <2>2. ASSUME NEW t \in Tokens
        PROVE  /\ session'[t] = "unissued" => parent'[t] = None
               /\ session'[t] # "unissued" => login'[t] \in Minted'
               /\ parent'[t] # None => parent'[t] \in Minted' /\ session'[parent'[t]] # "live"
    <3>1. CASE t = u
      <4>1. p # None => p \in Minted' /\ session'[p] = session[p]
        BY <1>1, <1>3, <1>6, <2>1
      <4>2. session'[t] = "live" /\ login'[t] = root /\ parent'[t] = p
        BY <1>6, <3>1
      <4>3. QED
        BY <1>3, <2>1, <4>1, <4>2
    <3>2. CASE t # u
      <4>1. session'[t] = session[t] /\ parent'[t] = parent[t] /\ login'[t] = login[t]
        BY <1>6, <3>2
      <4>2. parent[t] # None =>
              parent[t] \in Minted /\ session[parent[t]] # "live" /\ parent[t] \in Tokens \ {u}
        BY <1>1 DEF Inv, Lineage, Minted
      <4>3. parent[t] # None => session'[parent[t]] = session[parent[t]]
        BY <1>6, <4>2
      <4>4. QED
        BY <1>3, <4>1, <4>2, <4>3 DEF Inv, Lineage
    <3>3. QED
      BY <3>1, <3>2
  <2>3. \A q \in Slots : Carries(req[q])'
    BY <1>3, <1>4 DEF Inv, Lineage, Carries
  <2>4. ASSUME NEW q \in Slots, Rotating(q)' PROVE session'[req'[q].token] # "live"
    <3>1. /\ req'[q] = req[q] /\ req[q].token \in Tokens \ {u}
          /\ session[req[q].token] # "live"
      BY <1>7, <2>4 DEF Minted
    <3>2. QED
      BY <1>6, <3>1
  <2>5. held' \in [Tabs -> Minted' \cup {None}] /\ persisted' \in Minted' \cup {None}
    BY <1>2, <1>3 DEF Inv, Lineage
  <2>6. QED
    BY <2>2, <2>3, <2>4, <2>5 DEF Lineage
<1>9. ASSUME store = "memory", p # None
      PROVE  /\ \A t \in Tokens : parent[t] # p
             /\ \A t \in Tokens : session[t] = "live" => login[t] # root
             /\ \A q \in Slots : Rotating(q)' => login[req[q].token] # root
  BY <1>0, <1>1, <1>7, <1>9 DEF Inv, RotationAlone, Rotating
<1>10. RotationInMemory'
  BY <1>1, <1>2, <1>6, <1>9 DEF Inv, RotationInMemory, OneSuccessor
<1>11. ASSUME store = "memory"
       PROVE  /\ \A t \in Tokens \ {u} : session[t] = "live" => login[t] # root
              /\ \A q \in Slots : Rotating(q)' => login[req[q].token] # root /\ req[q].token # p
  <2>1. CASE p = None
    <3>1. root = u
      BY <1>0, <2>1
    <3>2. ASSUME NEW q \in Slots, Rotating(q)' PROVE login[req[q].token] # root /\ req[q].token # p
      BY <1>7, <2>1, <3>1, <3>2, ConstantsAssumption DEF Minted
    <3>3. QED
      BY <1>6a, <3>1, <3>2
  <2>2. CASE p # None
    <3>1. ASSUME NEW q \in Slots, Rotating(q)' PROVE login[req[q].token] # root /\ req[q].token # p
      BY <1>0, <1>9, <1>11, <2>2, <3>1
    <3>2. QED
      BY <1>9, <1>11, <2>2, <3>1
  <2>3. QED
    BY <2>1, <2>2
<1>12. OneLiveInMemory'
  BY <1>2, <1>6, <1>11 DEF Inv, OneLiveInMemory
<1>13. RotationAlone'
  <2>1. SUFFICES ASSUME store = "memory", NEW q \in Slots, Rotating(q)'
                 PROVE  /\ \A t \in Tokens : parent'[t] # req'[q].token
                        /\ \A t \in Tokens : session'[t] = "live" => login'[t] # login'[req'[q].token]
                        /\ \A r \in Slots \ {q} :
                             Rotating(r)' => login'[req'[r].token] # login'[req'[q].token]
    BY <1>2, <1>4 DEF RotationAlone, Inv
  <2>2. /\ Rotating(q) /\ req'[q] = req[q] /\ req[q].token \in Tokens \ {u}
        /\ req[q].token # p /\ login[req[q].token] # root
    BY <1>7, <1>11, <2>1 DEF Minted
  <2>3. \A r \in Slots \ {q} : Rotating(r)' => login[req'[r].token] # login[req[q].token]
    BY <1>7, <2>1, <2>2 DEF Inv, RotationAlone
  <2>4. \A r \in Slots : Rotating(r)' => req'[r].token \in Tokens \ {u}
    BY <1>7 DEF Minted
  <2>5. ASSUME NEW t \in Tokens
        PROVE  /\ parent'[t] # req'[q].token
               /\ session'[t] = "live" => login'[t] # login'[req'[q].token]
    BY <1>6, <2>1, <2>2 DEF Inv, RotationAlone
  <2>6. ASSUME NEW r \in Slots \ {q}, Rotating(r)'
        PROVE  login'[req'[r].token] # login'[req'[q].token]
    <3>1. login'[req'[r].token] = login[req'[r].token] /\ login'[req'[q].token] = login[req[q].token]
      BY <1>6, <2>2, <2>4, <2>6
    <3>2. QED
      BY <2>3, <2>6, <3>1
  <2>7. QED
    BY <2>5, <2>6
<1>14. QED
  BY <1>5, <1>8, <1>10, <1>12, <1>13 DEF Inv

-----------------------------------------------------------------------------
(* Answers, tabs, time, and the theorems *)

LEMMA ReplyStep ==
  ASSUME Inv, NEW s \in Slots, Reply(s)
  PROVE  Inv'
<1>0. PICK t, tab : t = req[s].token /\ tab = req[s].tab
  OBVIOUS
<1>1. t \in Minted \cup {None} /\ tab \in OptTab
  BY <1>0, StageOf DEF Reply, Inv, Lineage, Carries
<1>2. /\ Become(s, Idle)
      /\ UNCHANGED <<store, session, parent, login, replays, disturbed>>
      /\ \/ UNCHANGED <<held, persisted>>
         \/ tab # None /\ held' = [held EXCEPT ![tab] = t] /\ persisted' = t
  BY <1>0 DEF Reply, Adopt
<1>3. held' \in [Tabs -> Minted \cup {None}] /\ persisted' \in Minted \cup {None}
  BY <1>1, <1>2 DEF Inv, Lineage, OptTab
<1>4. replays' \subseteq Tokens /\ disturbed' \in BOOLEAN
  BY <1>2 DEF Inv, TypeOK
<1>5. QED
  BY <1>2, <1>3, <1>4, IdleOk, MoveOn

LEMMA TabSteps ==
  ASSUME Inv,
         \/ \E tab \in Tabs : SignOut(tab) \/ Load(tab)
         \/ \E s \in Slots : NetworkError(s)
         \/ UNCHANGED vars
  PROVE  Inv'
<1> USE DEF Inv, TypeOK, Lineage
<1>1. ASSUME NEW tab \in Tabs, SignOut(tab) PROVE Inv'
  <2>1. held' \in [Tabs -> Minted \cup {None}] /\ persisted' \in Minted \cup {None}
    BY <1>1 DEF SignOut
  <2>2. Orphan({})
    BY <1>1 DEF SignOut, Orphan
  <2>3. QED
    BY <1>1, <2>1, <2>2, OrphanStep DEF SignOut
<1>2. ASSUME NEW tab \in Tabs, Load(tab) PROVE Inv'
  <2>1. held' \in [Tabs -> Minted \cup {None}] /\ persisted' \in Minted \cup {None}
    BY <1>2 DEF Load
  <2>2. QED
    BY <1>2, <2>1, OrphanStep DEF Load
<1>3. ASSUME NEW s \in Slots, NetworkError(s) PROVE Inv'
  <2>1. held' \in [Tabs -> Minted \cup {None}] /\ persisted' \in Minted \cup {None}
    BY <1>3 DEF NetworkError
  <2>2. QED
    BY <1>3, <2>1, OrphanStep DEF NetworkError
<1>4. CASE UNCHANGED vars
  <2>1. Orphan({})
    BY <1>4 DEF vars, Orphan
  <2>2. QED
    BY <1>4, <2>1, OrphanStep DEF vars
<1>5. QED
  BY <1>1, <1>2, <1>3, <1>4

LEMMA ExpireStep ==
  ASSUME Inv, NEW t \in Tokens, Expire(t)
  PROVE  Inv'
<1>1. /\ session' = [session EXCEPT ![t] = "gone"] /\ session[t] # "unissued"
      /\ req' = req /\ disturbed' = TRUE
      /\ UNCHANGED <<store, parent, login, replays, held, persisted>>
  BY DEF Expire
<1>2. /\ session' \in [Tokens -> {"unissued", "live", "revoked", "gone"}]
      /\ \A u \in Tokens : session'[u] = "live" => session[u] = "live"
      /\ \A u \in Tokens : session'[u] = "unissued" <=> session[u] = "unissued"
  BY <1>1 DEF Inv, TypeOK
<1>3. \A s \in Slots : Rotating(s)' => session'[req'[s].token] # "live"
  BY <1>1, <1>2 DEF Inv, Lineage, Rotating, Carries, Minted, Idle
<1>4. /\ \A s \in Slots : Carries(req'[s])
      /\ store = "memory" =>
           \A s \in Slots : /\ req'[s].pc \notin {"peek", "mark"}
                            /\ Rotating(s)' => Rotating(s) /\ req'[s].token = req[s].token
  BY <1>1 DEF Inv, Lineage, RotationAlone, Rotating
<1>5. QED
  BY <1>1, <1>2, <1>3, <1>4, Fade DEF Inv, TypeOK, Lineage

LEMMA RestartStep ==
  ASSUME Inv, Restart
  PROVE  Inv'
<1>1. /\ req' = [s \in Slots |-> Idle] /\ disturbed' = TRUE
      /\ UNCHANGED <<store, parent, login, replays, held, persisted>>
  BY DEF Restart
<1>2. /\ session' \in [Tokens -> {"unissued", "live", "revoked", "gone"}]
      /\ \A u \in Tokens : session'[u] = "live" => session[u] = "live"
      /\ \A u \in Tokens : session'[u] = "unissued" <=> session[u] = "unissued"
  BY DEF Restart, Inv, TypeOK, Minted
<1>3. /\ req' \in [Slots -> Request]
      /\ \A s \in Slots : Carries(req'[s]) /\ req'[s].pc = "idle" /\ ~ Rotating(s)'
  BY <1>1, IdleOk DEF Rotating
<1>4. QED
  BY <1>1, <1>2, <1>3, Fade DEF Inv, TypeOK, Lineage

LEMMA NextInv == Inv /\ [Next]_vars => Inv'
<1> SUFFICES ASSUME Inv, [Next]_vars PROVE Inv'
  OBVIOUS
<1>1. ASSUME NEW s \in Slots, Proceed(s) PROVE Inv'
  BY <1>1, CheckSteps, CreateStep, ReplyStep DEF Proceed
<1>2. ASSUME NEW s \in Slots, NEW tab \in Tabs, Login(s, tab) \/ RefreshNow(s, tab) PROVE Inv'
  BY <1>2, ArriveSteps
<1>3. ASSUME NEW s \in Slots, NEW t \in Tokens, Logout(s, t) PROVE Inv'
  BY <1>3, LogoutStep
<1>4. QED
  BY <1>1, <1>2, <1>3, TabSteps, ExpireStep, RestartStep DEF Next

\* In every reachable state of either store, for any number of tokens, tabs and
\* concurrent requests, the invariant holds.
THEOREM Invariance == Spec => []Inv
  BY InitInv, NextInv, PTL DEF Spec

\* With the in-memory store a refresh token has at most one successor, ...
THEOREM Rotation == Spec => []RotationInMemory
<1>1. Inv => RotationInMemory
  BY DEF Inv
<1>2. QED
  BY <1>1, Invariance, PTL

\* ... and a login at most one live token.
THEOREM OneSession == Spec => []OneLiveInMemory
<1>1. Inv => OneLiveInMemory
  BY DEF Inv
<1>2. QED
  BY <1>1, Invariance, PTL

\* With either store a revoked or expired token never becomes valid again.
THEOREM Revocation == Spec => DeadStaysDead
<1>1. ASSUME Inv, [Next]_vars, NEW t \in Tokens, session[t] \in {"revoked", "gone"}
      PROVE  session'[t] # "live"
  <2>1. session \in [Tokens -> {"unissued", "live", "revoked", "gone"}]
    BY <1>1 DEF Inv, TypeOK
  <2>2. ASSUME NEW u, session' = Revoked(u) PROVE session'[t] # "live"
    BY <1>1, <2>1, <2>2 DEF Revoked
  <2>3. ASSUME NEW s \in Slots, Proceed(s) PROVE session'[t] # "live"
    BY <1>1, <2>1, <2>2, <2>3
       DEF Proceed, CheckInMemory, CheckCopy, Peek, Mark, Marked, Create, Audit, Reply
  <2>4. ASSUME NEW s \in Slots, NEW u \in Tokens, Logout(s, u) PROVE session'[t] # "live"
    BY <1>1, <2>2, <2>4 DEF Logout
  <2>5. ASSUME NEW s \in Slots, NetworkError(s) PROVE session'[t] # "live"
    BY <1>1, <2>5 DEF NetworkError
  <2>6. ASSUME NEW s \in Slots, NEW tab \in Tabs, Login(s, tab) \/ RefreshNow(s, tab)
        PROVE  session'[t] # "live"
    BY <1>1, <2>6 DEF Login, RefreshNow
  <2>7. ASSUME NEW tab \in Tabs, SignOut(tab) \/ Load(tab) PROVE session'[t] # "live"
    BY <1>1, <2>7 DEF SignOut, Load
  <2>8. ASSUME NEW u \in Tokens, Expire(u) PROVE session'[t] # "live"
    BY <1>1, <2>1, <2>8 DEF Expire
  <2>9. CASE Restart
    BY <1>1, <2>1, <2>9 DEF Restart
  <2>10. CASE UNCHANGED vars
    BY <1>1, <2>10 DEF vars
  <2>11. QED
    BY <1>1, <2>3, <2>4, <2>5, <2>6, <2>7, <2>8, <2>9, <2>10 DEF Next
<1>2. Inv /\ [Next]_vars =>
        [\A t \in Tokens : session[t] \in {"revoked", "gone"} => session'[t] # "live"]_vars
  BY <1>1
<1>3. QED
  BY <1>2, Invariance, PTL DEF Spec, DeadStaysDead

-----------------------------------------------------------------------------
(* While nothing disturbs the sessions *)

\* Every request is one that a tab waits for, its only one, and none is refused.
Served ==
  /\ \A s \in Active : req[s].tab \in Tabs
  /\ \A r, s \in Active : req[r].tab = req[s].tab => r = s
  /\ \A s \in Active :
       /\ req[s].pc # "audit"
       /\ req[s].pc \in {"peek", "mark"} => req[s].next = "create"

\* A token that a tab holds, presents or is answered with is live until it is spent, ...
Usable ==
  /\ \A s \in Active : req[s].pc # "create" => req[s].token # None /\ session[req[s].token] = "live"
  /\ \A tab \in Tabs : held[tab] # None /\ ~ Waiting(tab) => session[held[tab]] = "live"

\* ... and no other tab has it.
Separate ==
  /\ \A a, b \in Tabs : held[a] = held[b] /\ held[a] # None => a = b
  /\ \A s \in Active, b \in Tabs : held[b] = req[s].token /\ held[b] # None => b = req[s].tab
  /\ \A r, s \in Active : req[r].token = req[s].token /\ req[r].token # None => r = s

AllCalm == replays = {} /\ Served /\ Usable /\ Separate
Calm == ~ disturbed => AllCalm

\* A request that moves on with its token, which it may spend on the way.
LEMMA MoveCalm ==
  ASSUME Inv, AllCalm, NEW s \in Slots, NEW r \in Request, s \in Active, Become(s, r), r # Idle,
         r.tab = req[s].tab, r.token = req[s].token, req[s].pc # "create",
         r.pc # "audit", r.pc \in {"peek", "mark"} => r.next = "create",
         UNCHANGED <<held, replays>>,
         session' = session \/ (session' = Revoked(req[s].token) /\ r.pc = "create")
  PROVE  AllCalm'
<1>1. req' \in [Slots -> Request] /\ req'[s] = r /\ \A q \in Slots \ {s} : req'[q] = req[q]
  BY DEF Inv, TypeOK, Become
<1>2. Active' = Active
  BY <1>1 DEF Active
<1>3. \A q \in Active : req'[q].tab = req[q].tab /\ req'[q].token = req[q].token
  BY <1>1 DEF Active
<1>4. Served'
  BY <1>1, <1>2, <1>3 DEF AllCalm, Served, Active
<1>5. Separate'
  BY <1>2, <1>3 DEF AllCalm, Separate
<1>6. \A tab \in Tabs : Waiting(tab)' <=> Waiting(tab)
  BY <1>2, <1>3 DEF Waiting
<1>7. PICK t \in Tokens : t = req[s].token
  BY StageOf DEF AllCalm, Usable, Inv, Lineage, Carries, Minted, Active
<1>8. \A u \in Tokens : u # t => session'[u] = session[u]
  BY <1>7 DEF Revoked, Inv, TypeOK
<1>9. ASSUME NEW q \in Active, req'[q].pc # "create"
      PROVE  req'[q].token # None /\ session'[req'[q].token] = "live"
  <2>1. CASE q = s
    BY <1>1, <1>7, <1>9, <2>1 DEF AllCalm, Usable, Active
  <2>2. CASE q # s
    <3>1. req[q].token # None /\ session[req[q].token] = "live" /\ req'[q].token = req[q].token
      BY <1>1, <1>9, <2>2 DEF AllCalm, Usable, Active
    <3>2. req[q].token \in Tokens /\ req[q].token # t
      BY <1>7, <2>2, <3>1 DEF AllCalm, Separate, Inv, Lineage, Carries, Minted, Active
    <3> QED
      BY <1>8, <3>1, <3>2
  <2> QED
    BY <2>1, <2>2
<1>10. ASSUME NEW tab \in Tabs, held'[tab] # None, ~ Waiting(tab)'
       PROVE  session'[held'[tab]] = "live"
  <2>1. session[held[tab]] = "live" /\ held[tab] \in Tokens
    BY <1>6, <1>10 DEF AllCalm, Usable, Inv, TypeOK, OptToken
  <2>2. held[tab] # t
    BY <1>6, <1>7, <1>10 DEF AllCalm, Separate, Waiting
  <2> QED
    BY <1>8, <2>1, <2>2
<1> QED
  BY <1>2, <1>4, <1>5, <1>9, <1>10 DEF AllCalm, Usable

LEMMA RefreshCalm ==
  ASSUME Inv, AllCalm, NEW s \in Slots, CheckInMemory(s) \/ CheckCopy(s) \/ Peek(s) \/ Mark(s)
  PROVE  AllCalm'
<1>0. /\ req[s] \in [pc : Stage, token : OptToken, tab : OptTab, next : {"idle", "audit", "create"}]
      /\ req[s] # Idle /\ s \in Active /\ req[s].token \in Tokens
  BY StageOf DEF CheckInMemory, CheckCopy, Peek, Mark, Minted
<1>1. session[req[s].token] = "live"
  BY <1>0 DEF AllCalm, Usable, CheckInMemory, CheckCopy, Peek, Mark
<1>2. UNCHANGED <<held, replays>>
  BY DEF CheckInMemory, CheckCopy, Peek, Mark
<1>3. ASSUME NEW p \in {"peek", "mark", "create"}, NEW n \in {"idle", "audit", "create"},
             Become(s, [req[s] EXCEPT !.pc = p, !.next = n]), p \in {"peek", "mark"} => n = "create",
             session' = session \/ (session' = Revoked(req[s].token) /\ p = "create"), req[s].pc # "create"
      PROVE  AllCalm'
  <2> DEFINE r == [req[s] EXCEPT !.pc = p, !.next = n]
  <2>1. /\ r \in Request /\ r # Idle /\ r.pc = p /\ r.next = n
        /\ r.tab = req[s].tab /\ r.token = req[s].token
    BY <1>0, <1>3 DEF Request, Stage, Idle
  <2>2. Become(s, r)
    BY <1>3
  <2> HIDE DEF r
  <2> QED
    BY <1>0, <1>2, <1>3, <2>1, <2>2, MoveCalm
<1>4. \A p : Goto(s, p) /\ p # "idle" => Become(s, [req[s] EXCEPT !.pc = p, !.next = req[s].next])
  <2>1. \A p : [req[s] EXCEPT !.pc = p, !.next = req[s].next] = [req[s] EXCEPT !.pc = p]
    BY <1>0
  <2> QED
    BY <2>1 DEF Goto
<1>5. CASE CheckInMemory(s)
  BY <1>0, <1>1, <1>3, <1>4, <1>5 DEF CheckInMemory, Valid
<1>6. CASE CheckCopy(s)
  BY <1>0, <1>1, <1>3, <1>6 DEF CheckCopy, Valid
<1>7. CASE Peek(s)
  <2>1. req[s].next = "create" /\ Goto(s, "mark")
    BY <1>0, <1>1, <1>7 DEF Peek, AllCalm, Served
  <2> QED
    BY <1>0, <1>3, <1>4, <1>7, <2>1 DEF Peek
<1>8. CASE Mark(s)
  <2>1. req[s].next = "create" /\ Goto(s, "create")
    BY <1>0, <1>8 DEF Mark, AllCalm, Served
  <2> QED
    BY <1>0, <1>3, <1>4, <1>8, <2>1 DEF Mark, Marked
<1> QED
  BY <1>5, <1>6, <1>7, <1>8

LEMMA ArriveCalm ==
  ASSUME Inv, AllCalm, NEW s \in Slots, NEW tab \in Tabs, Login(s, tab) \/ RefreshNow(s, tab)
  PROVE  AllCalm'
<1>1. PICK p \in {"create", "get"}, t \in {None, held[tab]} :
        /\ Become(s, [pc |-> p, token |-> t, tab |-> tab, next |-> "idle"])
        /\ p = "create" => t = None
        /\ p = "get" => t = held[tab] /\ t # None /\ session[t] = "live"
  BY DEF Login, RefreshNow, AllCalm, Usable
<1>2. /\ req[s] = Idle /\ ~ Waiting(tab) /\ UNCHANGED <<held, replays, session>>
  BY DEF Login, RefreshNow
<1> DEFINE r == [pc |-> p, token |-> t, tab |-> tab, next |-> "idle"]
<1>3. req'[s] = r /\ r # Idle /\ \A q \in Slots \ {s} : req'[q] = req[q]
  BY <1>1 DEF Inv, TypeOK, Become, Idle
<1>4. r.pc = p /\ r.token = t /\ r.tab = tab
  OBVIOUS
<1> HIDE DEF r
<1>5. Active' = Active \cup {s} /\ s \notin Active
  BY <1>2, <1>3 DEF Active
<1>6. \A q \in Active : req'[q] = req[q] /\ req[q].tab # tab
  BY <1>2, <1>3, <1>5 DEF Active, Waiting
<1>7. Served'
  BY <1>3, <1>4, <1>5, <1>6 DEF AllCalm, Served
<1>8. ASSUME NEW q \in Active', req'[q].pc # "create"
      PROVE  req'[q].token # None /\ session'[req'[q].token] = "live"
  BY <1>1, <1>2, <1>3, <1>4, <1>5, <1>6, <1>8 DEF AllCalm, Usable
<1>9. \A b \in Tabs : ~ Waiting(b)' => ~ Waiting(b)
  BY <1>5, <1>6 DEF Waiting
<1>10. Usable'
  BY <1>2, <1>8, <1>9 DEF AllCalm, Usable
<1>11. ASSUME NEW q \in Active', NEW b \in Tabs, held'[b] = req'[q].token, held'[b] # None
       PROVE  b = req'[q].tab
  BY <1>1, <1>2, <1>3, <1>4, <1>5, <1>6, <1>11 DEF AllCalm, Separate
<1>12. ASSUME NEW q \in Active, t # None PROVE req[q].token # t
  BY <1>1, <1>6, <1>12 DEF AllCalm, Separate
<1>13. \A a, b \in Active' : req'[a].token = req'[b].token /\ req'[a].token # None => a = b
  BY <1>3, <1>4, <1>5, <1>6, <1>12 DEF AllCalm, Separate
<1>14. Separate'
  BY <1>2, <1>11, <1>13 DEF AllCalm, Separate
<1> QED
  BY <1>2, <1>7, <1>10, <1>14 DEF AllCalm

\* A new token is nobody else's.
LEMMA CreateCalm ==
  ASSUME Inv, AllCalm, NEW s \in Slots, NEW u \in Tokens, Create(s, u)
  PROVE  AllCalm'
<1>0. /\ req[s] \in [pc : Stage, token : OptToken, tab : OptTab, next : {"idle", "audit", "create"}]
      /\ req[s] # Idle /\ s \in Active /\ u \notin Minted /\ u # None
  BY StageOf, ConstantsAssumption DEF Create, Minted
<1> DEFINE r == [req[s] EXCEPT !.pc = "reply", !.token = u]
<1>1. r.pc = "reply" /\ r.token = u /\ r.tab = req[s].tab /\ r # Idle
  BY <1>0 DEF Idle
<1>2. Become(s, r) /\ session' = [session EXCEPT ![u] = "live"] /\ UNCHANGED <<held, replays>>
  BY DEF Create
<1>3. req'[s] = r /\ \A q \in Slots \ {s} : req'[q] = req[q]
  BY <1>2 DEF Inv, TypeOK, Become
<1> HIDE DEF r
<1>4. Active' = Active /\ \A q \in Active : req'[q].tab = req[q].tab
  BY <1>0, <1>1, <1>3 DEF Active
<1>5. session'[u] = "live" /\ \A t \in Tokens : t # u => session'[t] = session[t]
  BY <1>2 DEF Inv, TypeOK
<1>6. /\ \A q \in Active : req[q].token # u
      /\ \A b \in Tabs : held[b] # u /\ (held[b] # None => held[b] \in Tokens)
      /\ \A q \in Active : req[q].token # None => req[q].token \in Tokens
  BY <1>0 DEF Inv, Lineage, Carries, Minted, Active
<1>7. Served'
  BY <1>1, <1>3, <1>4 DEF AllCalm, Served, Active
<1>8. ASSUME NEW q \in Active, req'[q].pc # "create"
      PROVE  req'[q].token # None /\ session'[req'[q].token] = "live"
  BY <1>0, <1>1, <1>3, <1>5, <1>6, <1>8 DEF AllCalm, Usable, Active
<1>9. \A tab \in Tabs : Waiting(tab)' <=> Waiting(tab)
  BY <1>4 DEF Waiting
<1>10. Usable'
  BY <1>2, <1>4, <1>5, <1>6, <1>8, <1>9 DEF AllCalm, Usable
<1>11. ASSUME NEW q \in Active, NEW b \in Tabs, held[b] = req'[q].token, held[b] # None
       PROVE  b = req'[q].tab
  BY <1>1, <1>3, <1>4, <1>6, <1>11 DEF AllCalm, Separate, Active
<1>12. \A a, b \in Active : req'[a].token = req'[b].token /\ req'[a].token # None => a = b
  BY <1>1, <1>3, <1>6 DEF AllCalm, Separate, Active
<1>13. Separate'
  BY <1>2, <1>4, <1>11, <1>12 DEF AllCalm, Separate
<1> QED
  BY <1>2, <1>7, <1>10, <1>13 DEF AllCalm

LEMMA ReplyCalm ==
  ASSUME Inv, AllCalm, NEW s \in Slots, Reply(s)
  PROVE  AllCalm'
<1>0. PICK t, tab : t = req[s].token /\ tab = req[s].tab
  OBVIOUS
<1>1. s \in Active /\ req[s] # Idle /\ req[s].pc = "reply" /\ tab \in Tabs
  BY <1>0, StageOf DEF Reply, AllCalm, Served
<1>2. t # None /\ session[t] = "live"
  BY <1>0, <1>1 DEF AllCalm, Usable
<1>3. tab # None
  BY <1>1, ConstantsAssumption
<1>4. /\ held' = [held EXCEPT ![tab] = t] /\ Become(s, Idle)
      /\ UNCHANGED <<session, replays>>
  BY <1>0, <1>3 DEF Reply, Adopt
<1>5. held'[tab] = t /\ \A b \in Tabs \ {tab} : held'[b] = held[b]
  BY <1>1, <1>4 DEF Inv, TypeOK
<1>6. Active' = Active \ {s} /\ \A q \in Active' : req'[q] = req[q]
  BY <1>4 DEF Inv, TypeOK, Become, Active
<1>7. Served'
  BY <1>6 DEF AllCalm, Served
<1>8. \A b \in Tabs \ {tab} : ~ Waiting(b)' => ~ Waiting(b)
  BY <1>0, <1>6 DEF Waiting
<1>9. Usable'
  BY <1>2, <1>4, <1>5, <1>6, <1>8 DEF AllCalm, Usable
<1>10. \A b \in Tabs \ {tab} : held[b] # t
  BY <1>0, <1>1, <1>2 DEF AllCalm, Separate
<1>11. \A q \in Active \ {s} : req[q].token # t
  BY <1>0, <1>1, <1>2 DEF AllCalm, Separate
<1>12. Separate'
  BY <1>5, <1>6, <1>10, <1>11 DEF AllCalm, Separate
<1> QED
  BY <1>4, <1>7, <1>9, <1>12 DEF AllCalm

LEMMA SignOutCalm ==
  ASSUME Inv, AllCalm, NEW tab \in Tabs, SignOut(tab)
  PROVE  AllCalm'
<1>1. \A b \in Tabs : held'[b] = held[b] \/ held'[b] = None
  BY DEF SignOut, Inv, TypeOK
<1>2. UNCHANGED <<req, session, replays>>
  BY DEF SignOut
<1>3. Served' /\ Separate'
  BY <1>1, <1>2 DEF AllCalm, Served, Separate, Active
<1>4. Usable'
  BY <1>1, <1>2 DEF AllCalm, Usable, Active, Waiting
<1> QED
  BY <1>2, <1>3, <1>4 DEF AllCalm

LEMMA CalmInit == Init => Calm
<1> SUFFICES ASSUME Init PROVE AllCalm
  BY DEF Calm
<1>1. Active = {} /\ replays = {} /\ \A tab \in Tabs : held[tab] = None
  BY DEF Init, Active
<1> QED
  BY <1>1 DEF AllCalm, Served, Usable, Separate

LEMMA CalmKept == Inv /\ Calm /\ [Next]_vars => Calm'
<1> SUFFICES ASSUME Inv, Calm, [Next]_vars, ~ disturbed' PROVE AllCalm'
  BY DEF Calm
<1>1. ASSUME AllCalm, NEW s \in Slots, Proceed(s) PROVE AllCalm'
  <2>1. ~ Audit(s)
    BY <1>1, StageOf DEF Audit, AllCalm, Served
  <2> QED
    BY <1>1, <2>1, RefreshCalm, CreateCalm, ReplyCalm DEF Proceed
<1>2. CASE UNCHANGED vars
  <2>1. AllCalm
    BY <1>2 DEF vars, Calm
  <2> QED
    BY <1>2, <2>1 DEF vars, AllCalm, Served, Usable, Separate, Active, Waiting
<1>3. ASSUME NEW s \in Slots, Proceed(s) PROVE ~ disturbed
  BY <1>3 DEF Proceed, CheckInMemory, CheckCopy, Peek, Mark, Create, Audit, Reply
<1>4. ASSUME NEW s \in Slots, NEW tab \in Tabs, Login(s, tab) \/ RefreshNow(s, tab) \/ SignOut(tab) PROVE ~ disturbed
  BY <1>4 DEF Login, RefreshNow, SignOut
<1>6. ASSUME NEW tab \in Tabs, SignOut(tab) PROVE ~ disturbed
  BY <1>6 DEF SignOut
<1>7. ASSUME NEW s \in Slots, NetworkError(s) PROVE FALSE
  BY <1>7 DEF NetworkError
<1>8. ASSUME NEW tab \in Tabs, Load(tab) PROVE FALSE
  BY <1>8 DEF Load
<1>9. ASSUME NEW t \in Tokens, Expire(t) PROVE FALSE
  BY <1>9 DEF Expire
<1>10. ~ Restart
  BY DEF Restart
<1>11. ASSUME NEW s \in Slots, NEW t \in Tokens, Logout(s, t) PROVE FALSE
  BY <1>11 DEF Logout
<1> QED
  BY <1>1, <1>2, <1>3, <1>4, <1>6, <1>7, <1>8, <1>9, <1>10, <1>11, ArriveCalm, SignOutCalm DEF Next, Calm

\* useAuthRefresh, authService.refresh: with either store, and any number of tabs and
\* requests, what no fault has touched is never refused, and keeps its tabs signed in.
THEOREM StaysIn == Spec => []TabStaysIn
<1>1. Calm => TabStaysIn
  BY DEF Calm, AllCalm, Usable, TabStaysIn
<1>2. Spec => []Calm
  BY CalmInit, CalmKept, Invariance, PTL DEF Spec
<1>3. QED
  BY <1>1, <1>2, PTL

-----------------------------------------------------------------------------
(* Sessions between two pages *)

Ids == 0 .. MaxPcs
Pc  == [owner : Pages \cup {NoPage}, side : {"none", "offer", "answer"}, mate : Ids,
        live : BOOLEAN, dc : {"none", "connecting", "open", "closed"}]
Sending == [at : {"idle", "offering", "waiting", "relaying", "again", "direct", "relayed", "stuck"}, pc : Ids]
Note == [t : {"offer", "answer"}, pc : Ids]

PTypeOK ==
    /\ scope \in Scopes
    /\ pcs \in [Pcs -> Pc] /\ conn \in [Pages -> Ids] /\ chan \in [Pages -> Ids]
    /\ closes \subseteq Pcs
    /\ net \in [Pages -> Seq(Note)] /\ send \in [Messages -> Sending]

\* The pool's connection is a live one of the page, and there is no other; the
\* channel is that connection's, and was made; the end of a channel is announced
\* when it is closed; a channel that is made or opened is in the pool.
Mine   == \A x \in Pcs : pcs[x].live => pcs[x].owner \in Pages /\ conn[pcs[x].owner] = x
Known  == \A p \in Pages : conn[p] # 0 => pcs[conn[p]].live /\ pcs[conn[p]].owner = p
Held   == \A p \in Pages : chan[p] # 0 => chan[p] = conn[p] /\ pcs[chan[p]].dc # "none"
Ended  == \A x \in closes : pcs[x].dc = "closed"
Pooled == \A p \in Pages : conn[p] # 0 /\ chan[p] = 0 /\ p \notin robbed =>
            /\ pcs[conn[p]].dc # "open"
            /\ pcs[conn[p]].side = "offer" => pcs[conn[p]].dc = "closed"
Made == \A x \in Pcs : pcs[x].live => pcs[x].side \in {"offer", "answer"}
PInv == PTypeOK /\ Made /\ Mine /\ Known /\ Held /\ Ended /\ Pooled

Core == /\ pcs \in [Pcs -> Pc] /\ conn \in [Pages -> Ids] /\ chan \in [Pages -> Ids]
        /\ closes \subseteq Pcs /\ Made /\ Mine /\ Known /\ Held /\ Ended /\ Pooled

LEMMA PInitOk == PeerInit => PInv
<1> SUFFICES ASSUME PeerInit PROVE PInv
  OBVIOUS
<1>1. 0 \in Ids /\ Blank \in Pc /\ ~Blank.live
  BY PeerAssumption DEF Ids, Pc, Blank
<1>2. PTypeOK
  <2>1. net \in [Pages -> Seq(Note)]
    BY DEF PeerInit
  <2>2. send \in [Messages -> Sending]
    BY <1>1 DEF PeerInit, Sending
  <2>3. pcs \in [Pcs -> Pc] /\ conn \in [Pages -> Ids] /\ chan \in [Pages -> Ids]
    BY <1>1 DEF PeerInit
  <2> QED
    BY <2>1, <2>2, <2>3 DEF PeerInit, PTypeOK
<1>3. Made /\ Mine /\ Known /\ Held /\ Ended /\ Pooled
  BY <1>1 DEF PeerInit, Made, Mine, Known, Held, Ended, Pooled
<1> QED
  BY <1>2, <1>3 DEF PInv

LEMMA NewIsBlank == Spare => New \in Pcs /\ pcs[New] = Blank
BY DEF Spare, New

LEMMA IdsArePcs == \A x \in Ids : x # 0 => x \in Pcs
BY PeerAssumption DEF Ids, Pcs

\* What pool.close does to the channels: its own and the other end's are closed,
\* nothing else changes but that its connection is no longer live.
LEMMA ShutOk ==
  ASSUME PInv, NEW x \in Ids
  PROVE  /\ Shut(x, pcs) \in [Pcs -> Pc]
         /\ \A y \in Pcs : /\ Shut(x, pcs)[y].owner = pcs[y].owner /\ Shut(x, pcs)[y].side = pcs[y].side
                           /\ (Shut(x, pcs)[y].live <=> pcs[y].live /\ y # x)
                           /\ Shut(x, pcs)[y].dc = pcs[y].dc \/ Shut(x, pcs)[y].dc = "closed"
         /\ \A y \in Told(x) : y \in Pcs /\ Shut(x, pcs)[y].dc = "closed"
         /\ x # 0 /\ pcs[x].dc # "none" => Shut(x, pcs)[x].dc = "closed"
<1>0. pcs \in [Pcs -> Pc]
  BY DEF PInv, PTypeOK
<1>1. x # 0 => x \in Pcs /\ (Mate(x) # 0 => Mate(x) \in Pcs)
  BY <1>0, IdsArePcs DEF Mate, Pc
<1>2. ASSUME NEW y \in Pcs
      PROVE  /\ Shut(x, pcs)[y] \in Pc
             /\ Shut(x, pcs)[y].owner = pcs[y].owner /\ Shut(x, pcs)[y].side = pcs[y].side
             /\ (Shut(x, pcs)[y].live <=> pcs[y].live /\ y # x)
             /\ Shut(x, pcs)[y].dc = pcs[y].dc \/ Shut(x, pcs)[y].dc = "closed"
             /\ x # 0 /\ y = Mate(x) /\ pcs[y].dc = "open" => Shut(x, pcs)[y].dc = "closed"
             /\ x = y /\ pcs[x].dc # "none" => Shut(x, pcs)[x].dc = "closed"
  <2>1. Shut(x, pcs)[y] =
          IF y = x THEN [pcs[y] EXCEPT !.live = FALSE, !.dc = IF @ = "none" THEN @ ELSE "closed"]
          ELSE IF x # 0 /\ y = Mate(x) /\ pcs[y].dc = "open" THEN [pcs[y] EXCEPT !.dc = "closed"] ELSE pcs[y]
    BY DEF Shut
  <2>2. pcs[y] \in Pc
    BY <1>0
  <2>3. CASE y = x
    BY <2>1, <2>2, <2>3 DEF Pc
  <2>4. CASE y # x /\ x # 0 /\ y = Mate(x) /\ pcs[y].dc = "open"
    BY <2>1, <2>2, <2>4 DEF Pc
  <2>5. CASE y # x /\ ~(x # 0 /\ y = Mate(x) /\ pcs[y].dc = "open")
    BY <2>1, <2>2, <2>5 DEF Pc
  <2> QED
    BY <2>3, <2>4, <2>5
<1>3. Shut(x, pcs) \in [Pcs -> Pc]
  BY <1>2 DEF Shut
<1>4. \A y \in Told(x) : y \in Pcs /\ y = Mate(x) /\ x # 0 /\ pcs[y].dc = "open"
  BY <1>1 DEF Told, Ends
<1> QED
  BY <1>1, <1>2, <1>3, <1>4

LEMMA ReplaceKept ==
  ASSUME PInv, NEW p \in Pages, NEW side \in {"offer", "answer"}, NEW mate \in Ids,
         NEW dc \in {"none", "connecting"}, side = "offer" <=> dc = "connecting",
         Replace(p, side, mate, dc), robbed' = robbed
  PROVE  Core'
<1> DEFINE x == conn[p]
           shut == Shut(x, pcs)
           n == New
           row == [owner |-> p, side |-> side, mate |-> mate, live |-> TRUE, dc |-> dc]
<1>0. PTypeOK /\ x \in Ids
  BY DEF PInv, PTypeOK
<1>1. n \in Pcs /\ ~pcs[n].live /\ pcs[n].dc = "none" /\ n # x /\ n # 0 /\ n \in Ids
  BY NewIsBlank, PeerAssumption DEF Replace, Blank, PInv, Known, Pcs, Ids
<1>2. /\ shut \in [Pcs -> Pc]
      /\ \A y \in Pcs : /\ shut[y].owner = pcs[y].owner /\ shut[y].side = pcs[y].side
                        /\ (shut[y].live <=> pcs[y].live /\ y # x)
                        /\ shut[y].dc = pcs[y].dc \/ shut[y].dc = "closed"
      /\ \A y \in Told(x) : y \in Pcs /\ shut[y].dc = "closed"
      /\ x # 0 /\ pcs[x].dc # "none" => shut[x].dc = "closed"
  BY <1>0, ShutOk
<1>3. /\ pcs' = [shut EXCEPT ![n] = row]
      /\ conn' = [conn EXCEPT ![p] = n]
      /\ chan' = [chan EXCEPT ![p] = IF dc = "none" THEN 0 ELSE n]
      /\ \E own \in SUBSET OwnEnd(x, p) : closes' = closes \cup Told(x) \cup own
  BY DEF Replace
<1>4. row \in Pc /\ row.owner = p /\ row.live /\ row.side = side /\ row.dc = dc
  BY DEF Pc
<1>5. \A y \in Told(x) : pcs[y].dc = "open"
  BY DEF Told
<1>6. \A y \in OwnEnd(x, p) : y = x /\ x # 0 /\ pcs[x].dc # "none"
  BY DEF OwnEnd, PInv, Held
<1> HIDE DEF shut, row, n, x
<1>7. /\ \A y \in Pcs : y # n => pcs'[y] = shut[y]
      /\ pcs'[n] = row /\ pcs' \in [Pcs -> Pc]
      /\ \A q \in Pages : q # p => conn'[q] = conn[q] /\ chan'[q] = chan[q]
      /\ conn'[p] = n /\ chan'[p] = (IF dc = "none" THEN 0 ELSE n)
      /\ conn' \in [Pages -> Ids] /\ chan' \in [Pages -> Ids]
  BY <1>0, <1>1, <1>2, <1>3, <1>4, PeerAssumption DEF PTypeOK, Ids
<1>8. \A q \in Pages : q # p /\ conn[q] # 0 => conn[q] \in Pcs /\ conn[q] # n /\ conn[q] # x
  BY <1>0, <1>1, IdsArePcs DEF PInv, PTypeOK, Known, x
<1>9. Made' /\ Mine'
  BY <1>1, <1>2, <1>4, <1>7 DEF PInv, Made, Mine, x
<1>10. Known'
  BY <1>1, <1>2, <1>4, <1>7, <1>8 DEF PInv, Known
<1>11. Held'
  BY <1>1, <1>2, <1>4, <1>7, <1>8 DEF PInv, Held
<1>12. Ended' /\ closes' \subseteq Pcs
  BY <1>0, <1>1, <1>2, <1>3, <1>5, <1>6, <1>7, IdsArePcs DEF PInv, PTypeOK, Ended
<1>13. Pooled'
  BY <1>1, <1>2, <1>4, <1>7, <1>8 DEF PInv, Pooled
<1> QED
  BY <1>7, <1>9, <1>10, <1>11, <1>12, <1>13 DEF Core

LEMMA LeaveKept ==
  ASSUME PInv, NEW p \in Pages, Leave(p)
  PROVE  Core'
<1> DEFINE x == conn[p]
           shut == Shut(x, pcs)
<1>0. PTypeOK /\ x \in Ids /\ x # 0 /\ x \in Pcs
  BY IdsArePcs DEF PInv, PTypeOK, Leave
<1>2. /\ shut \in [Pcs -> Pc]
      /\ \A y \in Pcs : /\ shut[y].owner = pcs[y].owner /\ shut[y].side = pcs[y].side
                        /\ (shut[y].live <=> pcs[y].live /\ y # x)
                        /\ shut[y].dc = pcs[y].dc \/ shut[y].dc = "closed"
      /\ \A y \in Told(x) : y \in Pcs /\ shut[y].dc = "closed"
  BY <1>0, ShutOk
<1>3. /\ pcs' = shut /\ closes' = closes \cup Told(x) /\ robbed' = robbed
      /\ conn' = [conn EXCEPT ![p] = 0] /\ chan' = [chan EXCEPT ![p] = 0]
  BY DEF Leave
<1> HIDE DEF shut, x
<1>4. /\ \A q \in Pages : q # p => conn'[q] = conn[q] /\ chan'[q] = chan[q]
      /\ conn'[p] = 0 /\ chan'[p] = 0
      /\ conn' \in [Pages -> Ids] /\ chan' \in [Pages -> Ids]
  BY <1>0, <1>3, PeerAssumption DEF PTypeOK, Ids
<1>5. \A q \in Pages : q # p /\ conn[q] # 0 => conn[q] \in Pcs /\ conn[q] # x
  BY <1>0, IdsArePcs DEF PInv, PTypeOK, Known, x
<1>6. Made' /\ Mine' /\ Known' /\ Held'
  BY <1>0, <1>2, <1>3, <1>4, <1>5 DEF PInv, Made, Mine, Known, Held, x
<1>7. Ended' /\ closes' \subseteq Pcs
  BY <1>0, <1>2, <1>3 DEF PInv, PTypeOK, Ended
<1>8. Pooled'
  BY <1>0, <1>2, <1>3, <1>4, <1>5 DEF PInv, Pooled
<1> QED
  BY <1>2, <1>3, <1>4, <1>6, <1>7, <1>8 DEF Core
-------------------------------------------------------------------------------
Mail == net \in [Pages -> Seq(Note)] /\ send \in [Messages -> Sending]

LEMMA PParts == /\ PInv <=> scope \in Scopes /\ Core /\ Mail
                /\ PInv' <=> scope' \in Scopes /\ Core' /\ Mail'
BY DEF PInv, PTypeOK, Core, Mail

LEMMA Taken1 ==
  ASSUME PInv, NEW p \in Pages, net[p] # <<>>
  PROVE  Head(net[p]).pc \in Ids /\ Tail(net[p]) \in Seq(Note)
<1>1. net[p] \in Seq(Note)
  BY DEF PInv, PTypeOK
<1>2. Head(net[p]) \in Note /\ Tail(net[p]) \in Seq(Note)
  BY <1>1
<1> QED
  BY <1>2 DEF Note

LEMMA MailKept == PInv /\ [PeerNext]_peerVars => Mail'
<1> SUFFICES ASSUME PInv, [PeerNext]_peerVars PROVE Mail'
  OBVIOUS
<1>0. PTypeOK /\ Mail /\ scope.pages \subseteq Pages
  BY PeerAssumption DEF PInv, PTypeOK, Mail
<1>a. Pcs \subseteq Ids /\ 0 \in Ids
  BY PeerAssumption DEF Pcs, Ids
<1>s. ASSUME NEW p \in Pages, NEW e \in Note, Signal(p, e) PROVE net' \in [Pages -> Seq(Note)]
  BY <1>0, <1>s DEF Signal, Mail
<1>1. ASSUME NEW m \in Messages, Submit(m) PROVE Mail'
  <2>1. PageOf[m] \in Pages
    BY PeerAssumption
  <2>2. chan[PageOf[m]] \in Ids
    BY <1>0, <2>1 DEF PTypeOK
  <2>3. Replace(PageOf[m], "offer", 0, "connecting") => New \in Ids
    BY <1>a, NewIsBlank DEF Replace
  <2>4. net' = net
    BY <1>1 DEF Submit
  <2>5. send' \in [Messages -> Sending]
    BY <1>0, <1>1, <2>2, <2>3 DEF Submit, Give, Mail, Sending
  <2> QED
    BY <1>0, <2>4, <2>5 DEF Mail
<1>2. ASSUME NEW m \in Messages, Offer(m) PROVE Mail'
  <2>1. PageOf[m] \in Pages /\ [t |-> "offer", pc |-> send[m].pc] \in Note
    BY <1>0, PeerAssumption DEF Mail, Sending, Note
  <2>2. net' \in [Pages -> Seq(Note)]
    BY <1>0, <1>2, <1>s, <2>1 DEF Offer, Mail
  <2> QED
    BY <1>0, <1>2, <2>2 DEF Offer, Mail, Sending
<1>3. ASSUME NEW m \in Messages, Check(m) \/ Timeout(m) \/ Relay(m) \/ RelayRefused(m) PROVE Mail'
  <2>1. PageOf[m] \in Pages
    BY PeerAssumption
  <2>2. chan[PageOf[m]] \in Ids
    BY <1>0, <2>1 DEF PTypeOK
  <2>3. net' = net
    BY <1>3 DEF Check, Timeout, Relay, RelayRefused
  <2>4. CASE Check(m)
    BY <1>0, <2>2, <2>3, <2>4 DEF Check, Give, Mail, Sending
  <2>5. CASE Timeout(m)
    BY <1>0, <2>3, <2>5 DEF Timeout, Mail, Sending
  <2>6. CASE Relay(m) \/ RelayRefused(m)
    <3>1. send' = [send EXCEPT ![m].at = Then(m)] /\ Then(m) \in {"again", "relayed"}
      BY <2>6 DEF Relay, RelayRefused, Then
    <3> QED
      BY <1>0, <2>3, <3>1 DEF Mail, Sending
  <2> QED
    BY <1>3, <2>4, <2>5, <2>6
<1>4. ASSUME NEW p \in scope.pages, HandleOffer(p) \/ HandleAnswer(p) PROVE Mail'
  <2>1. net' = [net EXCEPT ![p] = Tail(net[p])] /\ send' = send /\ net[p] # <<>>
    BY <1>4 DEF HandleOffer, HandleAnswer, Next1
  <2>2. Tail(net[p]) \in Seq(Note)
    BY <1>0, <2>1, Taken1
  <2> QED
    BY <1>0, <2>1, <2>2 DEF Mail
<1>5. ASSUME NEW p \in scope.pages, Leave(p) PROVE Mail'
  <2>1. net' = [net EXCEPT ![p] = <<>>] /\ <<>> \in Seq(Note)
    BY <1>5 DEF Leave
  <2>2. net' \in [Pages -> Seq(Note)]
    BY <1>0, <2>1 DEF Mail
  <2>3. send' \in [Messages -> Sending]
    BY <1>0, <1>5 DEF Leave, Mail, Sending
  <2> QED
    BY <2>2, <2>3 DEF Mail
<1>6. ASSUME NEW x \in Pcs, Answer(x) PROVE Mail'
  <2>1. [t |-> "answer", pc |-> x] \in Note
    BY <1>a DEF Note
  <2>2. UNCHANGED net \/ Signal(pcs[x].owner, [t |-> "answer", pc |-> x])
    BY <1>6 DEF Answer
  <2>3. pcs[x].live => pcs[x].owner \in Pages
    BY DEF PInv, Mine
  <2>4. net' \in [Pages -> Seq(Note)]
    BY <1>0, <1>6, <1>s, <2>1, <2>3 DEF Answer, Mail
  <2> QED
    BY <1>0, <1>6, <2>4 DEF Answer, Mail
<1>7. CASE UNCHANGED <<net, send>>
  BY <1>0, <1>7 DEF Mail
<1>8. ASSUME \/ \E p \in scope.pages : Fail(p) \/ CoolDown(p)
             \/ \E x \in Pcs : Open(x) \/ OnClose(x) \/ Receive(x) \/ GiveUp(x)
             \/ UNCHANGED peerVars
      PROVE  UNCHANGED <<net, send>>
  BY <1>8 DEF Fail, CoolDown, Open, OnClose, Receive, GiveUp, peerVars
<1> QED
  BY <1>1, <1>2, <1>3, <1>4, <1>5, <1>6, <1>7, <1>8 DEF PeerNext

LEMMA CoreKept == PInv /\ [PeerNext]_peerVars => Core'
<1> SUFFICES ASSUME PInv, [PeerNext]_peerVars PROVE Core'
  OBVIOUS
<1>0. PTypeOK /\ Core /\ scope.pages \subseteq Pages
  BY PParts, PeerAssumption DEF PInv, PTypeOK
<1>1. ASSUME NEW m \in Messages, Submit(m) PROVE Core'
  <2>1. PageOf[m] \in Pages /\ 0 \in Ids /\ robbed' = robbed
    BY <1>1, PeerAssumption DEF Submit, Ids
  <2>2. CASE Replace(PageOf[m], "offer", 0, "connecting")
    BY <2>1, <2>2, ReplaceKept
  <2>3. CASE UNCHANGED <<pcs, conn, chan, closes>>
    BY <1>0, <2>1, <2>3 DEF Core, Made, Mine, Known, Held, Ended, Pooled
  <2> QED
    BY <1>1, <2>2, <2>3 DEF Submit
<1>2. ASSUME NEW p \in scope.pages, HandleOffer(p) PROVE Core'
  <2>1. Head(net[p]).pc \in Ids
    BY <1>0, <1>2, Taken1 DEF HandleOffer
  <2>2. Replace(p, "answer", Head(net[p]).pc, "none") /\ robbed' = robbed
    BY <1>2 DEF HandleOffer
  <2> QED
    BY <1>0, <2>1, <2>2, ReplaceKept
<1>3. ASSUME NEW p \in scope.pages, HandleAnswer(p) PROVE Core'
  <2>1. UNCHANGED <<conn, chan, closes, robbed>>
    BY <1>3 DEF HandleAnswer
  <2>2. \/ pcs' = pcs
        \/ conn[p] # 0 /\ pcs' = [pcs EXCEPT ![conn[p]].mate = Head(net[p]).pc]
    BY <1>3 DEF HandleAnswer
  <2>3. Head(net[p]).pc \in Ids /\ (conn[p] # 0 => conn[p] \in Pcs)
    BY <1>0, <1>3, IdsArePcs, Taken1 DEF HandleAnswer, PTypeOK
  <2>4. pcs' \in [Pcs -> Pc] /\ \A y \in Pcs : /\ pcs'[y].owner = pcs[y].owner /\ pcs'[y].side = pcs[y].side
                                             /\ (pcs'[y].live <=> pcs[y].live) /\ pcs'[y].dc = pcs[y].dc
    <3>1. CASE pcs' = pcs
      BY <1>0, <3>1 DEF PTypeOK
    <3>2. CASE conn[p] # 0 /\ pcs' = [pcs EXCEPT ![conn[p]].mate = Head(net[p]).pc]
      <4> DEFINE row == [pcs[conn[p]] EXCEPT !.mate = Head(net[p]).pc]
      <4>1. conn[p] \in Pcs /\ pcs[conn[p]] \in Pc
        BY <1>0, <2>3, <3>2 DEF PTypeOK
      <4>2. /\ row \in Pc /\ row.owner = pcs[conn[p]].owner /\ row.side = pcs[conn[p]].side
            /\ row.live = pcs[conn[p]].live /\ row.dc = pcs[conn[p]].dc
        BY <2>3, <4>1 DEF Pc
      <4>3. pcs' = [pcs EXCEPT ![conn[p]] = row]
        BY <3>2
      <4> HIDE DEF row
      <4> QED
        BY <1>0, <4>1, <4>2, <4>3 DEF PTypeOK
    <3> QED
      BY <2>2, <3>1, <3>2
  <2> QED
    BY <1>0, <2>1, <2>4, IdsArePcs DEF Core, Made, Mine, Known, Held, Ended, Pooled
<1>4. ASSUME NEW x \in Pcs, Open(x) PROVE Core'
  <2> DEFINE p == pcs[x].owner
  <2>1. p \in Pages /\ conn[p] = x /\ x # 0 /\ x \in Ids
    BY <1>0, <1>4, PeerAssumption DEF Open, Core, Mine, Pcs, Ids
  <2>2. /\ pcs' = [pcs EXCEPT ![x].dc = "open"] /\ UNCHANGED <<conn, closes, robbed>>
        /\ chan' = IF pcs[x].side = "answer" THEN [chan EXCEPT ![p] = x] ELSE chan
        /\ pcs[x].dc \in {"none", "connecting"} /\ pcs[x].live
    BY <1>4 DEF Open
  <2> HIDE DEF p
  <2>3. /\ pcs' \in [Pcs -> Pc] /\ pcs'[x].dc = "open"
        /\ \A y \in Pcs : /\ pcs'[y].owner = pcs[y].owner /\ pcs'[y].side = pcs[y].side
                          /\ (pcs'[y].live <=> pcs[y].live) /\ (y # x => pcs'[y].dc = pcs[y].dc)
    BY <1>0, <2>2 DEF PTypeOK, Pc
  <2>4. /\ chan' \in [Pages -> Ids] /\ \A q \in Pages : q # p => chan'[q] = chan[q]
        /\ chan'[p] = (IF pcs[x].side = "answer" THEN x ELSE chan[p])
    BY <1>0, <2>1, <2>2 DEF PTypeOK
  <2>5. Made' /\ Mine' /\ Known' /\ Held' /\ Ended'
    BY <1>0, <2>1, <2>2, <2>3, <2>4, IdsArePcs DEF Core, PTypeOK, Made, Mine, Known, Held, Ended
  <2>6. pcs[x].side = "offer" \/ pcs[x].side = "answer"
    BY <1>0, <2>2 DEF Core, Made
  <2>7. Pooled'
    <3> SUFFICES ASSUME NEW q \in Pages, conn[q] # 0, chan'[q] = 0, q \notin robbed
                 PROVE  /\ pcs'[conn[q]].dc # "open"
                        /\ pcs'[conn[q]].side = "offer" => pcs'[conn[q]].dc = "closed"
      BY <2>2 DEF Pooled
    <3>1. CASE q = p
      <4>1. pcs[x].side = "offer" /\ chan[p] = 0
        BY <2>1, <2>4, <2>6, <3>1
      <4> QED
        BY <1>0, <2>1, <2>2, <3>1, <4>1 DEF Core, Pooled
    <3>2. CASE q # p
      <4>1. conn[q] \in Pcs /\ conn[q] # x /\ chan[q] = 0
        BY <1>0, <2>4, <3>2, IdsArePcs DEF Core, PTypeOK, Known, p
      <4> QED
        BY <1>0, <2>3, <4>1 DEF Core, Pooled
    <3> QED
      BY <3>1, <3>2
  <2> QED
    BY <1>0, <2>2, <2>3, <2>4, <2>5, <2>7 DEF Core
<1>5. ASSUME NEW x \in Pcs, OnClose(x) PROVE Core'
  <2> DEFINE p == pcs[x].owner
  <2>1. /\ x \in closes /\ closes' = closes \ {x} /\ UNCHANGED <<pcs, conn>>
        /\ chan' = [chan EXCEPT ![p] = 0]
        /\ robbed' = (IF chan[p] \notin {0, x} THEN robbed \cup {p} ELSE robbed)
    BY <1>5 DEF OnClose
  <2> HIDE DEF p
  <2>0. 0 \in Ids
    BY PeerAssumption DEF Ids
  <2>2. chan' \in [Pages -> Ids] /\ \A q \in Pages : /\ q = p => chan'[q] = 0
                                                  /\ q # p => chan'[q] = chan[q]
    BY <1>0, <2>0, <2>1 DEF PTypeOK
  <2>3. Made' /\ Mine' /\ Known' /\ Held' /\ Ended'
    BY <1>0, <2>1, <2>2 DEF Core, Made, Mine, Known, Held, Ended
  <2>4. Pooled'
    BY <1>0, <2>1, <2>2 DEF Core, Held, Ended, Pooled
  <2> QED
    BY <1>0, <2>1, <2>2, <2>3, <2>4 DEF Core
<1>6. ASSUME NEW p \in scope.pages, Leave(p) PROVE Core'
  BY <1>0, <1>6, LeaveKept
<1>7. CASE UNCHANGED <<pcs, conn, chan, closes, robbed>>
  BY <1>0, <1>7 DEF Core, Made, Mine, Known, Held, Ended, Pooled
<1>8. ASSUME \/ \E m \in Messages : Offer(m) \/ Check(m) \/ Timeout(m) \/ Relay(m) \/ RelayRefused(m)
             \/ \E p \in scope.pages : Fail(p) \/ CoolDown(p)
             \/ \E x \in Pcs : Answer(x) \/ Receive(x) \/ GiveUp(x)
             \/ UNCHANGED peerVars
      PROVE  UNCHANGED <<pcs, conn, chan, closes, robbed>>
  BY <1>8 DEF Offer, Check, Timeout, Relay, RelayRefused, Fail, CoolDown, Answer, Receive, GiveUp, peerVars, pool
<1> QED
  BY <1>1, <1>2, <1>3, <1>4, <1>5, <1>6, <1>7, <1>8 DEF PeerNext

LEMMA PKept == PInv /\ [PeerNext]_peerVars => PInv'
<1>1. PInv /\ [PeerNext]_peerVars => scope' \in Scopes
  BY DEF PInv, PTypeOK, PeerNext, peerVars, Submit, Offer, Check, Timeout, Relay, RelayRefused, HandleOffer,
         HandleAnswer, Fail, CoolDown, Leave, Answer, Open, OnClose, Receive, GiveUp
<1> QED
  BY <1>1, PParts, MailKept, CoreKept

\* pool.ts:24: for any number of pages, messages and connections, whatever both
\* ends do at a time and whatever ends late, no connection of a page lives beside
\* the one its pool knows, and an open channel is missing from the pool only when
\* the end of an earlier one took it out.
THEOREM OneAtATime == PeerSpec => []OneConnection
<1>1. PInv => OneConnection
  BY IdsArePcs, PeerAssumption DEF PInv, PTypeOK, Mine, Known, Held, Pooled, OneConnection, Ids
<1> QED
  BY PInitOk, PKept, <1>1, PTL DEF PeerSpec
-------------------------------------------------------------------------------
\* An open channel has another end, and keeps it.
Paired == \A x \in Pcs : pcs[x].dc = "open" => pcs[x].owner \in Pages /\ Mate(x) # 0

\* What is direct is taken by a channel, and nothing else is; what is stored was
\* relayed, and was announced at most once by each relaying.
Carried == \A m \in Messages : send[m].at = "direct" <=> Taken(m)
Stored  == \A m \in rows : m \in Messages /\ send[m].at \in {"again", "relayed"}
Counts  == DOMAIN told = Messages /\ told = [m \in Messages |-> told[m]] /\ \A m \in Messages :
             /\ told[m] \in Nat
             /\ send[m].at \notin {"again", "relayed"} => told[m] = 0
             /\ send[m].at = "again" => told[m] <= 1 /\ Mode[m] = "auto"
             /\ told[m] <= 2 /\ (Mode[m] # "auto" => told[m] <= 1)
WType == wire \in [Pcs -> Seq(Messages)] /\ got \in [Pages -> SUBSET Messages]

OInv == WType /\ Paired /\ Carried /\ Stored /\ Counts

LEMMA OInit == PeerInit => OInv
<1> SUFFICES ASSUME PeerInit PROVE OInv
  OBVIOUS
<1>1. \A x \in Pcs : pcs[x] = Blank /\ wire[x] = <<>> /\ ToSet(wire[x]) = {}
  BY DEF PeerInit, ToSet
<1>2. \A m \in Messages : send[m].at = "idle" /\ told[m] = 0 /\ ~Taken(m)
  BY <1>1 DEF PeerInit, Taken
<1>3. WType
  BY DEF PeerInit, WType
<1>4. Paired
  BY <1>1 DEF Paired, Blank
<1>5. Carried /\ Stored /\ Counts
  BY <1>2 DEF PeerInit, Carried, Stored, Counts
<1> QED
  BY <1>3, <1>4, <1>5 DEF OInv

LEMMA SetOfAppend ==
  ASSUME NEW S, NEW s \in Seq(S), NEW e \in S
  PROVE  Append(s, e) \in Seq(S) /\ ToSet(Append(s, e)) = ToSet(s) \cup {e}
<1>1. /\ Append(s, e) \in Seq(S) /\ DOMAIN s = 1 .. Len(s) /\ Len(s) \in Nat
      /\ DOMAIN Append(s, e) = 1 .. Len(s) + 1
      /\ \A i \in 1 .. Len(s) : Append(s, e)[i] = s[i]
      /\ Append(s, e)[Len(s) + 1] = e
  BY AppendProperties, LenProperties
<1> QED
  BY <1>1 DEF ToSet

LEMMA SetOfTail ==
  ASSUME NEW S, NEW s \in Seq(S), s # <<>>
  PROVE  Head(s) \in S /\ Tail(s) \in Seq(S) /\ ToSet(s) = ToSet(Tail(s)) \cup {Head(s)}
<1>1. /\ Head(s) \in S /\ Tail(s) \in Seq(S) /\ Len(s) \in Nat /\ Len(s) # 0 /\ Head(s) = s[1]
      /\ DOMAIN s = 1 .. Len(s) /\ DOMAIN Tail(s) = 1 .. (Len(s) - 1)
      /\ \A i \in 1 .. (Len(s) - 1) : Tail(s)[i] = s[i + 1]
  BY HeadTailProperties, LenProperties, EmptySeq
<1>2. ASSUME NEW e \in ToSet(s) PROVE e \in ToSet(Tail(s)) \cup {Head(s)}
  <2>1. PICK i \in 1 .. Len(s) : s[i] = e
    BY <1>1 DEF ToSet
  <2>2. CASE i = 1
    BY <1>1, <2>1, <2>2
  <2>3. CASE i # 1
    <3>1. PICK j \in 1 .. (Len(s) - 1) : i = j + 1
      BY <1>1, <2>3
    <3> QED
      BY <1>1, <2>1, <3>1 DEF ToSet
  <2> QED
    BY <2>2, <2>3
<1>3. ASSUME NEW e \in ToSet(Tail(s)) \cup {Head(s)} PROVE e \in ToSet(s)
  <2>1. CASE e = Head(s)
    BY <1>1, <2>1 DEF ToSet
  <2>2. CASE e \in ToSet(Tail(s))
    <3>1. PICK j \in 1 .. (Len(s) - 1) : Tail(s)[j] = e
      BY <1>1, <2>2 DEF ToSet
    <3>2. j + 1 \in 1 .. Len(s) /\ s[j + 1] = e
      BY <1>1, <3>1
    <3> QED
      BY <1>1, <3>2 DEF ToSet
  <2> QED
    BY <2>1, <2>2
<1> QED
  BY <1>1, <1>2, <1>3
-------------------------------------------------------------------------------
\* A message given to an open channel is taken, and no other is.
LEMMA GiveTakes ==
  ASSUME PInv, OInv, NEW m \in Messages, NEW p \in Pages, HasOpen(p), Give(m, chan[p]),
         UNCHANGED <<got, lost>>
  PROVE  WType' /\ \A n \in Messages : Taken(n)' <=> Taken(n) \/ n = m
<1> DEFINE y == Mate(chan[p])
           s == wire[y]
<1>0. WType /\ Paired /\ PTypeOK
  BY DEF OInv, PInv
<1>1. y \in Pcs
  <2>1. chan[p] \in Pcs /\ y # 0 /\ y = pcs[chan[p]].mate
    BY <1>0, IdsArePcs DEF HasOpen, Paired, PTypeOK, Mate
  <2> QED
    BY <1>0, <2>1, IdsArePcs DEF PTypeOK, Pc
<1>2. y # 0
  BY <1>1, PeerAssumption DEF Pcs
<1>3. wire' = [wire EXCEPT ![y] = Append(s, m)]
  BY <1>2 DEF Give
<1>4. s \in Seq(Messages)
  BY <1>0, <1>1 DEF WType
<1> HIDE DEF s, y
<1>5. Append(s, m) \in Seq(Messages) /\ ToSet(Append(s, m)) = ToSet(s) \cup {m}
  BY <1>4, SetOfAppend
<1>6. /\ wire' \in [Pcs -> Seq(Messages)] /\ wire'[y] = Append(s, m)
      /\ \A x \in Pcs : x # y => wire'[x] = wire[x]
  BY <1>0, <1>1, <1>3, <1>5 DEF WType
<1>7. ToSet(wire'[y]) = ToSet(s) \cup {m} /\ \A x \in Pcs : x # y => ToSet(wire'[x]) = ToSet(wire[x])
  BY <1>5, <1>6
<1>8. WType'
  BY <1>0, <1>6 DEF WType
<1>9. ASSUME NEW n \in Messages PROVE Taken(n)' <=> Taken(n) \/ n = m
  BY <1>1, <1>7 DEF Taken, s
<1> QED
  BY <1>8, <1>9

\* What a closed connection carried is still accounted for.
LEMMA LoseKeeps ==
  ASSUME PInv, OInv, NEW x \in Ids, Lose(x), UNCHANGED got
  PROVE  WType' /\ \A n \in Messages : Taken(n)' <=> Taken(n)
<1>0. WType /\ PTypeOK
  BY DEF OInv, PInv
<1>1. Ends(x) \subseteq Pcs
  BY <1>0, IdsArePcs DEF Ends, Mate, PTypeOK, Pc
<1>2. /\ wire' = [y \in Pcs |-> IF y \in Ends(x) THEN <<>> ELSE wire[y]]
      /\ lost' = lost \cup UNION {ToSet(wire[y]) : y \in Ends(x)}
  BY DEF Lose
<1>3. WType'
  BY <1>0, <1>2 DEF WType
<1>4. /\ \A y \in Ends(x) : ToSet(wire'[y]) = {}
      /\ \A y \in Pcs : y \notin Ends(x) => ToSet(wire'[y]) = ToSet(wire[y])
  BY <1>1, <1>2 DEF ToSet
<1>5. ASSUME NEW n \in Messages PROVE Taken(n)' <=> Taken(n)
  BY <1>1, <1>2, <1>4 DEF Taken
<1> QED
  BY <1>3, <1>5

\* So is what leaves the front of the wire.
LEMMA HeadKeeps ==
  ASSUME PInv, OInv, NEW x \in Pcs, Receive(x) \/ GiveUp(x)
  PROVE  WType' /\ \A n \in Messages : Taken(n)' <=> Taken(n)
<1> DEFINE s == wire[x]
           e == Head(wire[x])
           r == Tail(wire[x])
<1>0. WType /\ Paired /\ s \in Seq(Messages) /\ s # <<>>
  BY DEF OInv, WType, Receive, GiveUp
<1>1. e \in Messages /\ r \in Seq(Messages) /\ ToSet(s) = ToSet(r) \cup {e}
  <2>1. s \in Seq(Messages) /\ s # <<>> /\ e = Head(s) /\ r = Tail(s)
    BY <1>0
  <2> HIDE DEF s, e, r
  <2> QED
    BY <2>1, SetOfTail
<1>2. /\ wire' = [wire EXCEPT ![x] = r]
      /\ \/ got' = [got EXCEPT ![pcs[x].owner] = got[pcs[x].owner] \cup {e}] /\ lost' = lost /\ pcs[x].owner \in Pages
         \/ got' = got /\ lost' = lost \cup {e}
  BY <1>0 DEF Receive, GiveUp, Paired
<1> HIDE DEF e, r
<1>3. /\ wire' \in [Pcs -> Seq(Messages)] /\ wire'[x] = r
      /\ \A y \in Pcs : y # x => wire'[y] = wire[y]
  BY <1>0, <1>1, <1>2 DEF WType
<1>4. ToSet(wire'[x]) = ToSet(r) /\ ToSet(wire[x]) = ToSet(r) \cup {e} /\ \A y \in Pcs : y # x => ToSet(wire'[y]) = ToSet(wire[y])
  BY <1>1, <1>3
<1>5. WType'
  BY <1>0, <1>1, <1>2, <1>3 DEF WType
<1>6. ASSUME NEW n \in Messages PROVE Taken(n)' <=> Taken(n)
  <2>1. (\E y \in Pcs : n \in ToSet(wire[y])) <=> (\E y \in Pcs : n \in ToSet(wire'[y])) \/ n = e
    BY <1>4
  <2>2. (\E p \in Pages : n \in got'[p]) \/ n \in lost' <=> (\E p \in Pages : n \in got[p]) \/ n \in lost \/ n = e
    BY <1>0, <1>2 DEF WType
  <2> QED
    BY <2>1, <2>2 DEF Taken
<1> QED
  BY <1>5, <1>6
-------------------------------------------------------------------------------
\* A connection keeps the mate it has, and opens only where it has one.
Grows == \A y \in Pcs : /\ pcs[y].mate # 0 => pcs'[y].mate = pcs[y].mate
                        /\ pcs'[y].dc = "open" => /\ pcs'[y].owner = pcs[y].owner
                                                  /\ pcs[y].dc = "open" \/ (pcs[y].owner \in Pages /\ Mate(y) # 0)

LEMMA StayPaired == ASSUME PInv, OInv, Grows PROVE Paired'
<1> SUFFICES ASSUME NEW x \in Pcs, pcs'[x].dc = "open" PROVE pcs'[x].owner \in Pages /\ Mate(x)' # 0
  BY DEF Paired
<1>1. pcs'[x].owner \in Pages /\ Mate(x) # 0
  BY DEF OInv, Paired, Grows
<1>2. PICK y \in Pcs : y # 0 /\ y = pcs[x].mate /\ pcs[y].mate = x
  BY <1>1, IdsArePcs DEF Mate, PInv, PTypeOK, Pc
<1>3. x # 0
  BY PeerAssumption DEF Pcs
<1>4. pcs'[x].mate = y /\ pcs'[y].mate = x
  BY <1>2, <1>3 DEF Grows
<1> QED
  BY <1>1, <1>2, <1>4 DEF Mate

LEMMA ShutMates ==
  ASSUME PInv, NEW x \in Ids, NEW y \in Pcs
  PROVE  Shut(x, pcs)[y].mate = pcs[y].mate /\ (Shut(x, pcs)[y].dc = "open" => pcs[y].dc = "open")
<1>1. pcs[y] \in Pc
  BY DEF PInv, PTypeOK
<1>2. Shut(x, pcs)[y] =
        IF y = x THEN [pcs[y] EXCEPT !.live = FALSE, !.dc = IF @ = "none" THEN @ ELSE "closed"]
        ELSE IF x # 0 /\ y = Mate(x) /\ pcs[y].dc = "open" THEN [pcs[y] EXCEPT !.dc = "closed"] ELSE pcs[y]
  BY DEF Shut
<1> QED
  BY <1>1, <1>2 DEF Pc

LEMMA ReplacePaired ==
  ASSUME PInv, OInv, NEW p \in Pages, NEW side \in {"offer", "answer"}, NEW mate \in Ids,
         NEW dc \in {"none", "connecting"}, Replace(p, side, mate, dc)
  PROVE  Paired'
<1> DEFINE n == New
           shut == Shut(conn[p], pcs)
           row == [owner |-> p, side |-> side, mate |-> mate, live |-> TRUE, dc |-> dc]
<1>0. conn[p] \in Ids
  BY DEF PInv, PTypeOK
<1>1. n \in Pcs /\ pcs[n].mate = 0
  BY NewIsBlank DEF Replace, Blank
<1>2. /\ shut \in [Pcs -> Pc]
      /\ \A y \in Pcs : /\ shut[y].owner = pcs[y].owner /\ shut[y].mate = pcs[y].mate
                        /\ shut[y].dc = "open" => pcs[y].dc = "open"
  BY <1>0, ShutOk, ShutMates
<1>3. pcs' = [shut EXCEPT ![n] = row]
  BY DEF Replace
<1>4. row \in Pc /\ row.dc # "open"
  BY DEF Pc
<1> HIDE DEF n, shut, row
<1>5. pcs' \in [Pcs -> Pc] /\ pcs'[n] = row /\ \A y \in Pcs : y # n => pcs'[y] = shut[y]
  BY <1>1, <1>2, <1>3, <1>4
<1>6. \A y \in Pcs : /\ pcs[y].mate # 0 => pcs'[y].mate = pcs[y].mate
                     /\ pcs'[y].dc = "open" => pcs'[y].owner = pcs[y].owner /\ pcs[y].dc = "open"
  BY <1>1, <1>2, <1>4, <1>5
<1> QED
  BY <1>6, StayPaired DEF Grows

LEMMA LeavePaired ==
  ASSUME PInv, OInv, NEW p \in Pages, Leave(p)
  PROVE  Paired'
<1>0. conn[p] \in Ids
  BY DEF PInv, PTypeOK
<1> DEFINE shut == Shut(conn[p], pcs)
<1>1. /\ shut \in [Pcs -> Pc]
      /\ \A y \in Pcs : /\ shut[y].owner = pcs[y].owner /\ shut[y].mate = pcs[y].mate
                        /\ shut[y].dc = "open" => pcs[y].dc = "open"
  BY <1>0, ShutOk, ShutMates
<1>2. pcs' = shut
  BY DEF Leave
<1> HIDE DEF shut
<1> QED
  BY <1>1, <1>2, StayPaired DEF Grows

LEMMA AnswerPaired ==
  ASSUME PInv, OInv, NEW p \in Pages, HandleAnswer(p)
  PROVE  Paired'
<1>0. PTypeOK /\ Head(net[p]).pc \in Ids
  BY Taken1 DEF PInv, HandleAnswer
<1>1. CASE pcs' = pcs
  BY <1>1, StayPaired DEF Grows
<1>2. CASE pcs' # pcs
  <2> DEFINE x == conn[p]
             row == [pcs[x] EXCEPT !.mate = Head(net[p]).pc]
  <2>1. x \in Pcs /\ pcs[x].mate = 0 /\ pcs' = [pcs EXCEPT ![x] = row]
    BY <1>0, <1>2, IdsArePcs DEF HandleAnswer, PTypeOK
  <2>2. row \in Pc /\ row.owner = pcs[x].owner /\ row.dc = pcs[x].dc
    BY <1>0, <2>1 DEF PTypeOK, Pc
  <2> HIDE DEF row, x
  <2>3. pcs' \in [Pcs -> Pc] /\ pcs'[x] = row /\ \A y \in Pcs : y # x => pcs'[y] = pcs[y]
    BY <1>0, <2>1, <2>2 DEF PTypeOK
  <2> QED
    BY <2>1, <2>2, <2>3, StayPaired DEF Grows
<1> QED
  BY <1>1, <1>2

LEMMA OpenPaired ==
  ASSUME PInv, OInv, NEW x \in Pcs, Open(x)
  PROVE  Paired'
<1> DEFINE row == [pcs[x] EXCEPT !.dc = "open"]
<1>0. PTypeOK /\ pcs[x] \in Pc
  BY DEF PInv, PTypeOK
<1>1. pcs' = [pcs EXCEPT ![x] = row] /\ pcs[x].owner \in Pages /\ Mate(x) # 0
  BY DEF Open, PInv, Mine
<1>2. row \in Pc /\ row.owner = pcs[x].owner /\ row.mate = pcs[x].mate
  BY <1>0 DEF Pc
<1> HIDE DEF row
<1>3. pcs' \in [Pcs -> Pc] /\ pcs'[x] = row /\ \A y \in Pcs : y # x => pcs'[y] = pcs[y]
  BY <1>0, <1>1, <1>2 DEF PTypeOK
<1> QED
  BY <1>1, <1>2, <1>3, StayPaired DEF Grows

LEMMA SamePaired == ASSUME PInv, OInv, UNCHANGED pcs PROVE Paired'
BY DEF OInv, Paired, Mate
-------------------------------------------------------------------------------
Ahead == {"idle", "offering", "waiting", "relaying", "stuck"}

\* Steps in which no message is given to a channel and none is relayed.
LEMMA SendMoves ==
  ASSUME OInv, Paired', WType', \A n \in Messages : Taken(n)' <=> Taken(n), UNCHANGED <<rows, told>>,
         \A n \in Messages : \/ send'[n].at = send[n].at
                             \/ send[n].at \in Ahead /\ send'[n].at \in Ahead
  PROVE  OInv'
<1>1. Carried'
  BY DEF OInv, Carried, Ahead
<1>2. Stored' /\ Counts'
  BY DEF OInv, Stored, Counts, Ahead
<1> QED
  BY <1>1, <1>2 DEF OInv

LEMMA SendDirect ==
  ASSUME OInv, Paired', WType', NEW m \in Messages, \A n \in Messages : Taken(n)' <=> Taken(n) \/ n = m,
         UNCHANGED <<rows, told>>, send[m].at \in Ahead, send'[m].at = "direct",
         \A n \in Messages : n # m => send'[n] = send[n]
  PROVE  OInv'
<1>1. Carried'
  BY DEF OInv, Carried
<1>2. Stored' /\ Counts'
  BY DEF OInv, Stored, Counts, Ahead
<1> QED
  BY <1>1, <1>2 DEF OInv

LEMMA SameTaken == ASSUME OInv, UNCHANGED <<wire, got, lost>> PROVE WType' /\ \A n \in Messages : Taken(n)' <=> Taken(n)
BY DEF OInv, WType, Taken

LEMMA RelayStep ==
  ASSUME PInv, OInv, NEW m \in Messages, Relay(m) \/ RelayRefused(m)
  PROVE  OInv'
<1>0. /\ PTypeOK /\ Carried /\ Stored /\ Counts
      /\ UNCHANGED <<pcs, wire, got, lost>>
      /\ send[m].at \in {"relaying", "again"} /\ send' = [send EXCEPT ![m].at = Then(m)]
  BY DEF PInv, OInv, Relay, RelayRefused, pool
<1>1. Paired' /\ WType' /\ \A n \in Messages : Taken(n)' <=> Taken(n)
  BY <1>0, SamePaired, SameTaken
<1>2. /\ send'[m].at = Then(m) /\ \A n \in Messages : n # m => send'[n] = send[n]
      /\ Then(m) = "again" => send[m].at = "relaying" /\ Mode[m] = "auto"
      /\ Then(m) # "again" => Then(m) = "relayed" /\ (send[m].at = "again" \/ Mode[m] # "auto")
  BY <1>0 DEF Then, PTypeOK, Sending
<1> HIDE DEF Then
<1>3. Carried'
  BY <1>0, <1>1, <1>2 DEF Carried
<1>4. Stored'
  <2>1. rows' = rows \/ rows' = rows \cup {m}
    BY DEF Relay, RelayRefused
  <2> QED
    BY <1>0, <1>2, <2>1 DEF Stored
<1>5. Counts'
  <2>1. told' = told \/ told' = [told EXCEPT ![m] = told[m] + 1]
    BY DEF Relay, RelayRefused
  <2>2. /\ told'[m] = told[m] \/ told'[m] = told[m] + 1
        /\ \A n \in Messages : n # m => told'[n] = told[n]
        /\ DOMAIN told' = Messages /\ told' = [n \in Messages |-> told'[n]]
    BY <1>0, <2>1 DEF Counts
  <2>3. /\ told[m] \in Nat /\ (send[m].at = "relaying" => told[m] = 0)
        /\ send[m].at = "again" => told[m] <= 1 /\ Mode[m] = "auto"
    BY <1>0 DEF Counts
  <2>4. /\ told'[m] \in Nat /\ told'[m] <= 2 /\ (Mode[m] # "auto" => told'[m] <= 1)
        /\ Then(m) = "again" => told'[m] <= 1 /\ Mode[m] = "auto"
    BY <1>0, <1>2, <2>2, <2>3
  <2> QED
    BY <1>0, <1>2, <2>2, <2>4 DEF Counts
<1> QED
  BY <1>1, <1>3, <1>4, <1>5 DEF OInv

LEMMA SubmitStep ==
  ASSUME PInv, OInv, NEW m \in Messages, Submit(m)
  PROVE  OInv'
<1> DEFINE p == PageOf[m]
<1>0. PTypeOK /\ p \in Pages /\ conn[p] \in Ids /\ send[m].at = "idle" /\ UNCHANGED <<got, rows, told>>
  BY PeerAssumption DEF PInv, PTypeOK, Submit
<1>1. CASE HasOpen(p) /\ Give(m, chan[p]) /\ UNCHANGED <<pcs, lost>>
  <2>1. WType' /\ \A n \in Messages : Taken(n)' <=> Taken(n) \/ n = m
    BY <1>0, <1>1, GiveTakes
  <2>2. send'[m].at = "direct" /\ \A n \in Messages : n # m => send'[n] = send[n]
    BY <1>0, <1>1 DEF Give, PTypeOK, Sending
  <2> QED
    BY <1>0, <1>1, <2>1, <2>2, SamePaired, SendDirect DEF Ahead
<1>2. CASE send' = [send EXCEPT ![m].at = "relaying"] /\ UNCHANGED <<pcs, wire, lost>>
  <2>1. \A n \in Messages : \/ send'[n].at = send[n].at
                            \/ send[n].at \in Ahead /\ send'[n].at \in Ahead
    BY <1>0, <1>2 DEF PTypeOK, Sending, Ahead
  <2> QED
    BY <1>0, <1>2, <2>1, SamePaired, SameTaken, SendMoves
<1>3. CASE Replace(p, "offer", 0, "connecting") /\ send' = [send EXCEPT ![m] = [at |-> "offering", pc |-> New]]
  <2>1. \A n \in Messages : \/ send'[n].at = send[n].at
                            \/ send[n].at \in Ahead /\ send'[n].at \in Ahead
    BY <1>0, <1>3 DEF PTypeOK, Sending, Ahead
  <2>2. Paired'
    BY <1>0, <1>3, ReplacePaired, PeerAssumption DEF Ids
  <2>3. Lose(conn[p])
    BY <1>3 DEF Replace
  <2>4. WType' /\ \A n \in Messages : Taken(n)' <=> Taken(n)
    BY <1>0, <2>3, LoseKeeps
  <2> QED
    BY <1>0, <2>1, <2>2, <2>4, SendMoves
<1> QED
  BY <1>1, <1>2, <1>3 DEF Submit

LEMMA OKept == PInv /\ OInv /\ [PeerNext]_peerVars => OInv'
<1> SUFFICES ASSUME PInv, OInv, [PeerNext]_peerVars PROVE OInv'
  OBVIOUS
<1>0. PTypeOK /\ scope.pages \subseteq Pages /\ \A p \in Pages : conn[p] \in Ids
  BY PeerAssumption DEF PInv, PTypeOK
<1>1. ASSUME NEW m \in Messages, Submit(m) PROVE OInv'
  BY <1>1, SubmitStep
<1>2. ASSUME NEW m \in Messages, Offer(m) \/ Timeout(m) PROVE OInv'
  <2>1. \A n \in Messages : \/ send'[n].at = send[n].at
                            \/ send[n].at \in Ahead /\ send'[n].at \in Ahead
    BY <1>0, <1>2 DEF Offer, Timeout, PTypeOK, Sending, Ahead
  <2>2. UNCHANGED <<pcs, wire, got, lost, rows, told>>
    BY <1>2 DEF Offer, Timeout
  <2> QED
    BY <2>1, <2>2, SamePaired, SameTaken, SendMoves
<1>3. ASSUME NEW m \in Messages, Check(m) PROVE OInv'
  <2>0. PageOf[m] \in Pages
    BY PeerAssumption
  <2>1. HasOpen(PageOf[m]) /\ Give(m, chan[PageOf[m]]) /\ UNCHANGED <<pcs, got, lost, rows, told>> /\ send[m].at = "waiting"
    BY <1>3 DEF Check
  <2>2. WType' /\ \A n \in Messages : Taken(n)' <=> Taken(n) \/ n = m
    BY <2>0, <2>1, GiveTakes
  <2>3. send'[m].at = "direct" /\ \A n \in Messages : n # m => send'[n] = send[n]
    BY <1>0, <2>1 DEF Give, PTypeOK, Sending
  <2> QED
    BY <2>1, <2>2, <2>3, SamePaired, SendDirect DEF Ahead
<1>4. ASSUME NEW m \in Messages, Relay(m) \/ RelayRefused(m) PROVE OInv'
  BY <1>4, RelayStep
<1>5. ASSUME NEW p \in scope.pages, HandleOffer(p) PROVE OInv'
  <2>1. /\ Replace(p, "answer", Head(net[p]).pc, "none") /\ UNCHANGED <<send, got, rows, told>>
        /\ Head(net[p]).pc \in Ids /\ p \in Pages
    BY <1>0, <1>5, Taken1 DEF HandleOffer
  <2>2. Paired'
    BY <2>1, ReplacePaired
  <2>3. Lose(conn[p]) /\ conn[p] \in Ids
    BY <1>0, <2>1 DEF Replace
  <2> QED
    BY <2>1, <2>2, <2>3, LoseKeeps, SendMoves
<1>6. ASSUME NEW p \in scope.pages, HandleAnswer(p) PROVE OInv'
  <2>1. UNCHANGED <<wire, got, lost, send, rows, told>> /\ p \in Pages
    BY <1>0, <1>6 DEF HandleAnswer
  <2> QED
    BY <1>6, <2>1, AnswerPaired, SameTaken, SendMoves
<1>7. ASSUME NEW p \in scope.pages, Leave(p) PROVE OInv'
  <2>1. Lose(conn[p]) /\ UNCHANGED <<got, rows, told>> /\ p \in Pages /\ conn[p] \in Ids
    BY <1>0, <1>7 DEF Leave
  <2>2. \A n \in Messages : \/ send'[n].at = send[n].at
                            \/ send[n].at \in Ahead /\ send'[n].at \in Ahead
    BY <1>0, <1>7 DEF Leave, PTypeOK, Sending, Ahead
  <2> QED
    BY <1>7, <2>1, <2>2, LeavePaired, LoseKeeps, SendMoves
<1>8. ASSUME NEW x \in Pcs, Open(x) PROVE OInv'
  <2>1. UNCHANGED <<wire, got, lost, send, rows, told>>
    BY <1>8 DEF Open
  <2> QED
    BY <1>8, <2>1, OpenPaired, SameTaken, SendMoves
<1>9. ASSUME NEW x \in Pcs, Receive(x) \/ GiveUp(x) PROVE OInv'
  <2>1. UNCHANGED <<pcs, send, rows, told>>
    BY <1>9 DEF Receive, GiveUp
  <2> QED
    BY <1>9, <2>1, HeadKeeps, SamePaired, SendMoves
<1>10. ASSUME \/ \E p \in scope.pages : Fail(p) \/ CoolDown(p)
              \/ \E x \in Pcs : Answer(x) \/ OnClose(x)
              \/ UNCHANGED peerVars
       PROVE  OInv'
  <2>1. UNCHANGED <<pcs, wire, got, lost, send, rows, told>>
    BY <1>10 DEF Fail, CoolDown, Answer, OnClose, peerVars, pool
  <2> QED
    BY <2>1, SamePaired, SameTaken, SendMoves
<1> QED
  BY <1>1, <1>2, <1>3, <1>4, <1>5, <1>6, <1>7, <1>8, <1>9, <1>10 DEF PeerNext

\* transport.ts:4-10: for any number of pages, messages and connections and any
\* faults, a message given to a channel is never relayed as well and is with the
\* peer, on its way or gone with a channel, and one that is relayed is stored
\* once and announced at most once by each relaying.
THEOREM OneWay == PeerSpec => []OnePath
<1>1. PInv /\ OInv => OnePath
  BY DEF OInv, Carried, Stored, Counts, OnePath
<1>2. PeerInit => PInv /\ OInv
  BY PInitOk, OInit
<1>3. (PInv /\ OInv) /\ [PeerNext]_peerVars => (PInv /\ OInv)'
  BY PKept, OKept
<1> QED
  BY <1>1, <1>2, <1>3, PTL DEF PeerSpec
=================================================================================
