--------------------------- MODULE RefreshSessions ---------------------------
(***************************************************************************)
(* Refresh-token rotation: authService.refresh and logout over the two      *)
(* session stores, and the browser tabs that hold the tokens                *)
(* (useAuthRefresh and the persisted auth store).  A request in flight is   *)
(* in a slot with the stage it reached; each await on the store ends one.   *)
(***************************************************************************)
EXTENDS Integers, FiniteSets

CONSTANTS
  Tokens,   \* bound: the refresh tokens the server can mint
  Tabs,     \* tabs of one browser, which share localStorage
  Slots,    \* bound: requests the server has in flight at once
  Faults,   \* bound: which of AllFaults may happen
  None

AllFaults == {"loss", "reload", "restart", "expiry", "logout"}

ASSUME ConstantsAssumption ==
  /\ Faults \subseteq AllFaults
  /\ None \notin Tokens /\ None \notin Tabs

VARIABLES
  store,      \* "memory" or "redis", env.SESSION_STORE: chosen once
  session,    \* the stored session of every token
  parent,     \* history: the token a token was exchanged for, None after a login
  login,      \* history: the first token of the login a token descends from
  replays,    \* tokens with an auth.refresh_reuse_detected audit row
  req,        \* [Slots -> Request]
  held,       \* the refresh token in each tab's auth store
  persisted,  \* the refresh token in localStorage
  disturbed   \* history: has a fault touched a session since the start?

vars == <<store, session, parent, login, replays, req, held, persisted, disturbed>>

OptToken == Tokens \cup {None}
OptTab   == Tabs \cup {None}

Stage   == {"get", "peek", "mark", "audit", "create", "reply"}
Request == [pc : {"idle"}]
             \cup [pc : Stage, token : OptToken, tab : OptTab, next : {"idle", "audit", "create"}]

Idle == [pc |-> "idle"]

Become(s, r) == req' = [req EXCEPT ![s] = r]

Goto(s, pc) == Become(s, IF pc = "idle" THEN Idle ELSE [req[s] EXCEPT !.pc = pc])

Active == {s \in Slots : req[s] # Idle}

Waiting(tab) == \E s \in Active : req[s].tab = tab

Minted == {t \in Tokens : session[t] # "unissued"}

\* Bound: every request in flight can still mint a token.
Room == Cardinality(Minted) + Cardinality(Active) < Cardinality(Tokens)

-----------------------------------------------------------------------------
(* Requests *)

Login(s, tab) ==
  /\ req[s] = Idle /\ Room
  /\ held[tab] = None /\ ~ Waiting(tab)
  /\ Become(s, [pc |-> "create", token |-> None, tab |-> tab, next |-> "idle"])
  /\ UNCHANGED <<store, session, parent, login, replays, held, persisted, disturbed>>

\* A timer fires: mid-lifetime, close to expiry, or 30 s after a network error.
RefreshNow(s, tab) ==
  /\ req[s] = Idle /\ Room
  /\ held[tab] # None /\ ~ Waiting(tab)
  /\ Become(s, [pc |-> "get", token |-> held[tab], tab |-> tab, next |-> "idle"])
  /\ UNCHANGED <<store, session, parent, login, replays, held, persisted, disturbed>>

Revoked(t) == [session EXCEPT ![t] = IF @ = "live" THEN "revoked" ELSE @]

\* POST /auth/logout with any token: the store's revoke and nothing else.
Logout(s, t) ==
  /\ "logout" \in Faults /\ req[s] = Idle /\ t \in Minted
  /\ IF store = "memory"
     THEN session' = Revoked(t) /\ UNCHANGED req
     ELSE Become(s, [pc |-> "peek", token |-> t, tab |-> None, next |-> "idle"]) /\ UNCHANGED session
  /\ disturbed' = TRUE
  /\ UNCHANGED <<store, parent, login, replays, held, persisted>>

-----------------------------------------------------------------------------
(* authService.refresh, authService.logout and the stores *)

\* Mutant: the revokedAt test is forgotten.
Valid_RevokedToo(t) == session[t] \in {"live", "revoked"}

Valid(t) == session[t] = "live"

\* In memory get returns the stored object itself: the test and the revocation that
\* follows it without an await see and change it in one step.
CheckInMemory(s) ==
  /\ store = "memory" /\ req[s].pc = "get"
  /\ session' = Revoked(req[s].token)
  /\ Goto(s, IF Valid(req[s].token) THEN "create" ELSE "audit")
  /\ UNCHANGED <<store, parent, login, replays, held, persisted, disturbed>>

\* Redis: get returns a copy, which is tested; revoke then starts with its own GET.
CheckCopy(s) ==
  /\ store = "redis" /\ req[s].pc = "get"
  /\ LET t == req[s].token IN
       Become(s, [req[s] EXCEPT !.pc   = IF session[t] = "gone" THEN "audit" ELSE "peek",
                                !.next = IF Valid(t) THEN "create" ELSE "audit"])
  /\ UNCHANGED <<store, session, parent, login, replays, held, persisted, disturbed>>

\* revoke: GET, which finds nothing once the key has expired ...
Peek(s) ==
  /\ req[s].pc = "peek"
  /\ Goto(s, IF session[req[s].token] = "gone" THEN req[s].next ELSE "mark")
  /\ UNCHANGED <<store, session, parent, login, replays, held, persisted, disturbed>>

\* Mutant: the copy is written back without revokedAt.
Marked_Unrevoked(t) == [session EXCEPT ![t] = "live"]

\* ... and SET with revokedAt and the old expiry, which stores nothing once that has passed.
Marked(t) == Revoked(t)

Mark(s) ==
  /\ req[s].pc = "mark"
  /\ session' = Marked(req[s].token)
  /\ Goto(s, req[s].next)
  /\ UNCHANGED <<store, parent, login, replays, held, persisted, disturbed>>

\* createSession mints a token and stores its session.
Create(s, t) ==
  /\ req[s].pc = "create"
  /\ session[t] = "unissued"
  /\ session' = [session EXCEPT ![t] = "live"]
  /\ parent' = [parent EXCEPT ![t] = req[s].token]
  /\ login' = [login EXCEPT ![t] = IF req[s].token = None THEN t ELSE login[req[s].token]]
  /\ Become(s, [req[s] EXCEPT !.pc = "reply", !.token = t])
  /\ UNCHANGED <<store, replays, held, persisted, disturbed>>

\* A refused token is recorded as reused, whatever it was refused for.
Audit(s) ==
  /\ req[s].pc = "audit"
  /\ replays' = replays \cup {req[s].token}
  /\ Become(s, [req[s] EXCEPT !.pc = "reply", !.token = None])
  /\ UNCHANGED <<store, session, parent, login, held, persisted, disturbed>>

\* Mutant: a tab that holds a token keeps it.
Adopt_Stale(s, tab) == IF held[tab] = None THEN req[s].token ELSE held[tab]

\* setSession or refreshSession stores the new token; a refusal clears the store.
Adopt(s, tab) == req[s].token

\* The answer reaches the tab that waits for it, even one signed out meanwhile.
Reply(s) ==
  /\ req[s].pc = "reply"
  /\ \/ /\ req[s].tab = None
        /\ UNCHANGED <<held, persisted>>
     \/ /\ req[s].tab # None
        /\ held' = [held EXCEPT ![req[s].tab] = Adopt(s, req[s].tab)]
        /\ persisted' = Adopt(s, req[s].tab)
  /\ Become(s, Idle)
  /\ UNCHANGED <<store, session, parent, login, replays, disturbed>>

-----------------------------------------------------------------------------
(* Tabs, the network, time and restarts *)

\* The web client's Log Out only clears its store.
SignOut(tab) ==
  /\ held[tab] # None
  /\ held' = [held EXCEPT ![tab] = None]
  /\ persisted' = None
  /\ UNCHANGED <<store, session, parent, login, replays, req, disturbed>>

\* The requests of a tab that has stopped waiting for them go on without it.
Orphan(lost) ==
  req' = [s \in Slots |-> IF s \in lost THEN [req[s] EXCEPT !.tab = None] ELSE req[s]]

\* fetch rejects at some point while the server works on the request, or before the answer.
NetworkError(s) ==
  /\ "loss" \in Faults
  /\ s \in Active /\ req[s].tab # None
  /\ Orphan({s})
  /\ disturbed' = TRUE
  /\ UNCHANGED <<store, session, parent, login, replays, held, persisted>>

\* A tab is opened or reloaded and reads the token from localStorage.
Load(tab) ==
  /\ "reload" \in Faults
  /\ held[tab] # persisted \/ Waiting(tab)
  /\ held' = [held EXCEPT ![tab] = persisted]
  /\ Orphan({s \in Active : req[s].tab = tab})
  /\ disturbed' = TRUE
  /\ UNCHANGED <<store, session, parent, login, replays, persisted>>

\* expiresAt passes: the key leaves Redis; in memory the entry fails the expiry test.
Expire(t) ==
  /\ "expiry" \in Faults
  /\ session[t] \in {"live", "revoked"}
  /\ session' = [session EXCEPT ![t] = "gone"]
  /\ disturbed' = TRUE
  /\ UNCHANGED <<store, parent, login, replays, req, held, persisted>>

\* The server restarts: requests in flight are lost, and the in-memory sessions with them.
Restart ==
  /\ "restart" \in Faults
  /\ req' = [s \in Slots |-> Idle]
  /\ session' = IF store = "memory"
                THEN [t \in Tokens |-> IF t \in Minted THEN "gone" ELSE "unissued"]
                ELSE session
  /\ disturbed' = TRUE
  /\ UNCHANGED <<store, parent, login, replays, held, persisted>>

Init ==
  /\ store \in {"memory", "redis"}
  /\ session = [t \in Tokens |-> "unissued"]
  /\ parent = [t \in Tokens |-> None]
  /\ login = [t \in Tokens |-> None]
  /\ replays = {} /\ persisted = None /\ disturbed = FALSE
  /\ req = [s \in Slots |-> Idle]
  /\ held = [tab \in Tabs |-> None]

\* The request in slot s takes its next step.
Proceed(s) ==
  \/ CheckInMemory(s) \/ CheckCopy(s) \/ Peek(s) \/ Mark(s)
  \/ \E t \in Tokens : Create(s, t)
  \/ Audit(s) \/ Reply(s)

Next ==
  \/ \E s \in Slots : Proceed(s) \/ NetworkError(s)
  \/ \E s \in Slots, tab \in Tabs : Login(s, tab) \/ RefreshNow(s, tab)
  \/ \E s \in Slots, t \in Tokens : Logout(s, t)
  \/ \E tab \in Tabs : SignOut(tab) \/ Load(tab)
  \/ \E t \in Tokens : Expire(t)
  \/ Restart

Spec == Init /\ [][Next]_vars

-----------------------------------------------------------------------------
(* Properties *)

\* Every variable has its type.
TypeOK ==
  /\ store \in {"memory", "redis"}
  /\ session \in [Tokens -> {"unissued", "live", "revoked", "gone"}]
  /\ parent \in [Tokens -> OptToken] /\ login \in [Tokens -> OptToken]
  /\ replays \subseteq Tokens
  /\ req \in [Slots -> Request]
  /\ held \in [Tabs -> OptToken] /\ persisted \in OptToken
  /\ disturbed \in BOOLEAN

\* Rotation: a refresh token is exchanged for at most one successor.
OneSuccessor == \A t, u \in Tokens : parent[t] = parent[u] /\ parent[t] # None => t = u

\* With the in-memory store no two concurrent refreshes with one token both succeed.
RotationInMemory == store = "memory" => OneSuccessor

\* With the in-memory store a login has at most one live token: rotation, however
\* refreshes of several tabs, logouts and losses interleave, never forks a session.
OneLiveInMemory ==
  store = "memory" =>
    \A t, u \in Tokens :
      session[t] = "live" /\ session[u] = "live" /\ login[t] = login[u] => t = u

\* A token that was revoked or has expired never becomes valid again, although Redis'
\* revoke writes back a copy it read earlier.
DeadStaysDead ==
  [][\A t \in Tokens : session[t] \in {"revoked", "gone"} => session'[t] # "live"]_vars

\* Without lost answers, reloads, expiry, restarts or logouts, no refresh is recorded as
\* a reuse and the token a tab holds is valid whenever no request of the tab is pending.
TabStaysIn ==
  ~ disturbed =>
    /\ replays = {}
    /\ \A tab \in Tabs : held[tab] # None /\ ~ Waiting(tab) => session[held[tab]] = "live"

-----------------------------------------------------------------------------
(* The inductive invariant *)

\* The token a request presents or answers with has been minted.
Carries(r) ==
  r # Idle =>
    /\ r.token \in Minted \cup {None}
    /\ r.pc \notin {"create", "reply"} => r.token # None

\* A refresh that has spent its token and not yet minted the successor.
Rotating(s) == req[s].pc = "create" /\ req[s].token # None

\* Tokens in circulation have been minted, and whatever is exchanged is dead first.
Lineage ==
  /\ \A t \in Tokens :
       /\ session[t] = "unissued" => parent[t] = None
       /\ session[t] # "unissued" => login[t] \in Minted
       /\ parent[t] # None => parent[t] \in Minted /\ session[parent[t]] # "live"
  /\ \A s \in Slots : Carries(req[s]) /\ (Rotating(s) => session[req[s].token] # "live")
  /\ held \in [Tabs -> Minted \cup {None}] /\ persisted \in Minted \cup {None}

\* In memory a rotation is alone in its login: its token is childless, nothing
\* live shares its login, and neither does another rotation.
RotationAlone ==
  store = "memory" =>
    /\ \A s \in Slots : req[s].pc \notin {"peek", "mark"}
    /\ \A s \in Slots : Rotating(s) =>
         /\ \A t \in Tokens : parent[t] # req[s].token
         /\ \A t \in Tokens : session[t] = "live" => login[t] # login[req[s].token]
         /\ \A r \in Slots \ {s} : Rotating(r) => login[req[r].token] # login[req[s].token]

Inv == TypeOK /\ Lineage /\ RotationAlone /\ RotationInMemory /\ OneLiveInMemory
=============================================================================
