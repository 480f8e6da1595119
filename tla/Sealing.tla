-------------------------------- MODULE Sealing --------------------------------
(* End-to-end encryption as the web pages do it: a page makes an identity when *)
(* it is loaded and posts its bundle; a session with a peer is derived from    *)
(* the page's identity and the peer's bundle, and kept while the page lives.   *)
EXTENDS Naturals, FiniteSets

CONSTANTS
    Users,
    Messages,
    By, To,   \* author and the peer it is sealed for: himself in a channel
    None,
    Scopes    \* the messages of a behaviour, with a bound: how many identities
              \* each user makes

ASSUME SealingAssumption ==
    /\ By \in [Messages -> Users] /\ To \in [Messages -> Users]
    /\ None \notin Users /\ Scopes \subseteq [msgs : SUBSET Messages, gens : [Users -> Nat]]

VARIABLES
    scope,
    made,     \* by user, identities made so far
    id,       \* signalIdentityRef of his page, 0 for none
    posts,    \* bundles on their way to the server
    bundle,   \* signalPreKeyBundles, 0 for none
    sess,     \* signalSessionsRef: by user and peer, a key
    tasks,    \* runs of the upload effect, of ensureSignalSession and its callers
    sealed,   \* by message, the key it was encrypted with
    stored,   \* messages the server has
    store,    \* by user, the messages in his page
    text,     \* decryptedMessages
    shaken    \* history: pairs of users one of whom lost or mistook an identity

vars == <<scope, made, id, posts, bundle, sess, tasks, sealed, stored, store, text, shaken>>
-------------------------------------------------------------------------------
NoKey == [of |-> None, pair |-> {}]

\* establishSession: both ends of an exchange derive one key; the key from the
\* bundle that is made up when there is none names the peer first, then oneself.
Key(u, v, n) ==
    IF n # 0 THEN [of |-> None, pair |-> {<<u, id[u]>>, <<v, n>>}]
    ELSE [of |-> v, pair |-> {<<u, 0>>, <<v, 0>>}]

Readers(m) == IF To[m] = By[m] THEN Users ELSE {By[m], To[m]}

\* Mutant: a message is sealed with a session with oneself.
Peer_AlwaysAuthor(t) == By[t.m]

\* A message is sealed for the peer and opened as one from its author.
Peer(t) == IF t.why = "send" THEN To[t.m] ELSE By[t.m]

Task(u, why, m, at) == [u |-> u, why |-> why, m |-> m, at |-> at, n |-> 0, key |-> NoKey]
Uploading(u) == Task(u, "upload", None, "making")

\* Those who hold, or are about to hold, what was made of an identity of u.
Between(m, u, v) == sealed[m] # NoKey /\ {By[m], To[m]} = {u, v}
Holders(u) == {v \in Users :
    \/ sess[v][u] # NoKey \/ \E m \in Messages : Between(m, u, v)
    \/ \E t \in tasks : t.u = v /\ t.why # "upload" /\ Peer(t) = u /\ t.at \in {"served", "derived", "use"}}
Own(u)   == {v \in Users :
    \/ sess[u][v] # NoKey
    \/ \E t \in tasks : t.u = u /\ t.why # "upload" /\ Peer(t) = v /\ t.at \in {"derived", "use"}}
Shake(u, vs) == shaken \cup {{u, v} : v \in vs}

Init ==
    /\ scope \in Scopes
    /\ made = [u \in Users |-> 0] /\ id = [u \in Users |-> 0]
    /\ posts = {} /\ bundle = [u \in Users |-> 0]
    /\ sess = [u \in Users |-> [v \in Users |-> NoKey]]
    /\ tasks = {} /\ sealed = [m \in Messages |-> NoKey] /\ stored = {}
    /\ store = [u \in Users |-> {}]
    /\ text = [u \in Users |-> [m \in Messages |-> "none"]]
    /\ shaken = {}
-------------------------------------------------------------------------------
\* Mutant: the sessions outlive the identity they were derived from.
Load_KeepsSessions(u) ==
    /\ made[u] < scope.gens[u]
    /\ id' = [id EXCEPT ![u] = 0]
    /\ tasks' = {t \in tasks : t.u # u} \cup {Uploading(u)}
    /\ store' = [store EXCEPT ![u] = {m \in stored : u \in Readers(m)}]
    /\ text' = [text EXCEPT ![u] = [m \in Messages |-> "none"]]
    /\ shaken' = Shake(u, Holders(u))
    /\ UNCHANGED <<scope, made, posts, bundle, sess, sealed, stored>>

\* The chat route is mounted, with the messages the server has; the identity and
\* the sessions of the page before are gone with it.
Load(u) ==
    /\ made[u] < scope.gens[u]
    /\ id' = [id EXCEPT ![u] = 0]
    /\ sess' = [sess EXCEPT ![u] = [v \in Users |-> NoKey]]
    /\ tasks' = {t \in tasks : t.u # u} \cup {Uploading(u)}
    /\ store' = [store EXCEPT ![u] = {m \in stored : u \in Readers(m)}]
    /\ text' = [text EXCEPT ![u] = [m \in Messages |-> "none"]]
    /\ shaken' = Shake(u, Holders(u))
    /\ UNCHANGED <<scope, made, posts, bundle, sealed, stored>>

\* A refreshed access token runs the upload effect again.  (Bound: while the
\* server has that bundle already, a post of it would change nothing.)
Refresh(u) ==
    /\ id[u] \notin {0, bundle[u]} /\ posts' = posts \cup {<<u, id[u]>>}
    /\ UNCHANGED <<scope, made, id, bundle, sess, tasks, sealed, stored, store, text, shaken>>

\* An identity is ready for whoever found none: the effect posts it, a session
\* goes on with it; the later of two takes the place of the earlier.
Made(t) ==
    LET u == t.u
        n == made[u] + 1
    IN  /\ t \in tasks /\ t.at = "making" /\ n <= scope.gens[u]
        /\ made' = [made EXCEPT ![u] = n] /\ id' = [id EXCEPT ![u] = n]
        /\ IF t.why = "upload"
           THEN posts' = posts \cup {<<u, n>>} /\ tasks' = tasks \ {t}
           ELSE /\ tasks' = (tasks \ {t}) \cup
                      {IF sess[u][Peer(t)] = NoKey THEN [t EXCEPT !.at = "fetch"]
                       ELSE [t EXCEPT !.at = "use", !.key = sess[u][Peer(t)]]}
                /\ UNCHANGED posts
        /\ shaken' = IF id[u] # 0 THEN Shake(u, Holders(u) \cup Own(u)) ELSE shaken
        /\ UNCHANGED <<scope, bundle, sess, sealed, stored, store, text>>

\* A post arrives, in whatever order, or is lost: nobody looks at its answer.
Post(p) ==
    /\ p \in posts /\ posts' = posts \ {p}
    /\ bundle' = [bundle EXCEPT ![p[1]] = p[2]] \/ UNCHANGED bundle
    /\ UNCHANGED <<scope, made, id, sess, tasks, sealed, stored, store, text, shaken>>
-------------------------------------------------------------------------------
\* submit, and the effect that decrypts, both begin with ensureSignalSession.
Begin(u, m, why) ==
    LET t == Task(u, why, m, "fetch")
    IN  /\ \A o \in tasks : o.u # u \/ o.m # m
        /\ tasks' = tasks \cup
              {IF id[u] = 0 THEN [t EXCEPT !.at = "making"]
               ELSE IF sess[u][Peer(t)] = NoKey THEN t
               ELSE [t EXCEPT !.at = "use", !.key = sess[u][Peer(t)]]}
        /\ UNCHANGED <<scope, made, id, posts, bundle, sess, sealed, stored, store, text, shaken>>

\* Pages are sent from and read in once they have been mounted.
Mounted(u) == id[u] # 0 \/ \E t \in tasks : t.u = u
Submit(m)  == m \in scope.msgs /\ Mounted(By[m]) /\ sealed[m] = NoKey /\ Begin(By[m], m, "send")
Decrypt(u, m) == Mounted(u) /\ m \in store[u] /\ text[u][m] = "none" /\ Begin(u, m, "read")

\* The bundle is read, or the request fails; either way an answer follows.
Serve(t) ==
    /\ t \in tasks /\ t.at = "fetch"
    /\ \E n \in {0, bundle[Peer(t)]} :
        /\ tasks' = (tasks \ {t}) \cup {[t EXCEPT !.at = "served", !.n = n]}
        /\ shaken' = IF n = 0 \/ n # id[Peer(t)] THEN Shake(t.u, {Peer(t)}) ELSE shaken
    /\ UNCHANGED <<scope, made, id, posts, bundle, sess, sealed, stored, store, text>>

Derive(t) ==
    /\ t \in tasks /\ t.at = "served"
    /\ tasks' = (tasks \ {t}) \cup {[t EXCEPT !.at = "derived", !.key = Key(t.u, Peer(t), t.n), !.n = 0]}
    /\ UNCHANGED <<scope, made, id, posts, bundle, sess, sealed, stored, store, text, shaken>>

Keep(t) ==
    /\ t \in tasks /\ t.at = "derived"
    /\ sess' = [sess EXCEPT ![t.u][Peer(t)] = t.key]
    /\ tasks' = (tasks \ {t}) \cup {[t EXCEPT !.at = "use"]}
    /\ UNCHANGED <<scope, made, id, posts, bundle, sealed, stored, store, text, shaken>>

\* The message goes to the server and from there to every reader's page ...
Relay(t) ==
    /\ t \in tasks /\ t.at = "use" /\ t.why = "send"
    /\ tasks' = tasks \ {t}
    /\ sealed' = [sealed EXCEPT ![t.m] = t.key] /\ stored' = stored \cup {t.m}
    /\ store' = [u \in Users |-> IF u \in Readers(t.m) THEN store[u] \cup {t.m} ELSE store[u]]
    /\ UNCHANGED <<scope, made, id, posts, bundle, sess, text, shaken>>

\* ... or over a data channel to the peer alone; the author keeps what he wrote.
SendP2p(t) ==
    /\ t \in tasks /\ t.at = "use" /\ t.why = "send" /\ To[t.m] # t.u /\ Mounted(To[t.m])
    /\ tasks' = tasks \ {t}
    /\ sealed' = [sealed EXCEPT ![t.m] = t.key]
    /\ store' = [u \in Users |-> IF u \in Readers(t.m) THEN store[u] \cup {t.m} ELSE store[u]]
    /\ text' = [text EXCEPT ![t.u][t.m] = "plain"]
    /\ UNCHANGED <<scope, made, id, posts, bundle, sess, stored, shaken>>

\* What a decryption gives stays for as long as the page does; a run that a
\* newer render has cancelled gives nothing and is made again.
Open(t) ==
    /\ t \in tasks /\ t.at = "use" /\ t.why = "read"
    /\ tasks' = tasks \ {t}
    /\ \/ UNCHANGED text
       \/ text' = [text EXCEPT ![t.u][t.m] = IF t.key = sealed[t.m] THEN "plain" ELSE "unable"]
    /\ UNCHANGED <<scope, made, id, posts, bundle, sess, sealed, stored, store, shaken>>
-------------------------------------------------------------------------------
Next ==
    \/ \E u \in Users : Load(u) \/ Refresh(u) \/ \E m \in Messages : Decrypt(u, m)
    \/ \E p \in posts : Post(p)
    \/ \E m \in Messages : Submit(m)
    \/ \E t \in tasks : Made(t) \/ Serve(t) \/ Derive(t) \/ Keep(t) \/ Relay(t) \/ SendP2p(t) \/ Open(t)

Spec == Init /\ [][Next]_vars
-------------------------------------------------------------------------------
\* signal-helpers.ts:67-95, noble.ts:62-93: the peer a message was sealed for
\* can open it, whatever the interleaving of effects, uploads and fetches, unless
\* one of the two pages was loaded again, or made a second identity, since they
\* had to do with each other, or a bundle was fetched that is not of the page
\* there is: none yet, an old one, or one whose request failed.
ReadsWhatIsSent ==
    \A m \in Messages : To[m] # By[m] /\ text[To[m]][m] = "unable" => {By[m], To[m]} \in shaken

\* ChatRoute.tsx:201-220, 438: whoever reads a message is the peer it was sealed
\* for, with an identity of his own -- a made-up bundle is never of use to him --
\* or its author, who reads a direct message he has sent only if it went over a
\* data channel.  In a channel that leaves the author alone.
SealedForOne ==
    \A m \in Messages : \A u \in Users : text[u][m] = "plain" =>
        \/ u = To[m] /\ u # By[m] /\ sealed[m].of = None
        \/ u = By[m] /\ (m \notin stored \/ To[m] = u)
===============================================================================
