------------------------------- MODULE PreKeys -------------------------------
(***************************************************************************)
(* The pre-key server (apps/server/src/domain/signal) for one device, and   *)
(* the web client that uploads its bundle on every page load and again on   *)
(* every access-token refresh.  Over PostgreSQL upload and takeBundle are   *)
(* READ COMMITTED transactions: what one writes is invisible, and the rows  *)
(* it wrote are locked, until it commits.                                   *)
(***************************************************************************)
EXTENDS Integers, FiniteSets

CONSTANTS
  Identities,  \* bound: the identities the client's page loads generate
  KeyIds,      \* the ids of the one-time keys of every bundle, 1..5 in the web client
  Slots,       \* bound: requests the server has in flight at once
  Absent       \* no identity, no slot

ASSUME ConstantsAssumption == Absent \notin Identities /\ Absent \notin Slots

VARIABLES
  backend,   \* "memory" or "drizzle", env.PERSISTENCE: chosen once
  identity,  \* the identity of the loaded page, which lives in memory only
  bundleOf,  \* the identity whose bundle is stored
  key,       \* [KeyIds -> [of : identity it belongs to, used : BOOLEAN]], of = Absent: no row
  locked,    \* row locks: the slot whose transaction holds the key's row
  req,       \* [Slots -> Request]
  fetches,   \* history: fetches that got the key since it was last (re)activated
  grants,    \* history: consume calls that were told "consumed" since then
  given      \* history: <<key, identity>> pairs some fetch has returned

pvars == <<backend, identity, bundleOf, key, locked, req, fetches, grants, given>>
history == <<fetches, grants, given>>

OptIdentity == Identities \cup {Absent}

Request == [pc : {"idle"}]
             \cup [pc : {"pick"}, of : Identities]
             \cup [pc : {"commit"}, of : Identities, k : KeyIds]
             \cup [pc : {"update"}, k : KeyIds]
             \cup [pc : {"sent", "upload", "uploaded"}, of : Identities]

Idle == [pc |-> "idle"]

NoKeys == [k \in KeyIds |-> [of |-> Absent, used |-> FALSE]]

Never == [k \in KeyIds |-> 0]

Become(s, r) == req' = [req EXCEPT ![s] = r]

\* Bound: the history counts to two.
Count(f, k) == [f EXCEPT ![k] = IF @ < 2 THEN @ + 1 ELSE @]

-----------------------------------------------------------------------------
(* The web client *)

\* A page load generates a new identity; requests of the old page go on.
LoadPage(i) ==
  /\ i \notin {identity, bundleOf}
  /\ \A k \in KeyIds : <<k, i>> \notin given /\ key[k].of # i
  /\ \A s \in Slots : "of" \in DOMAIN req[s] => req[s].of # i
  /\ identity' = i
  /\ UNCHANGED <<backend, bundleOf, key, locked, req, history>>

-----------------------------------------------------------------------------
(* Uploading *)

\* The rows of a bundle's keys: inserted, or overwritten and set unconsumed.
Activated(i) == [k \in KeyIds |-> [of |-> i, used |-> FALSE]]

Store(i) ==
  /\ bundleOf' = i
  /\ key' = Activated(i)
  /\ fetches' = Never /\ grants' = Never
  /\ UNCHANGED given

\* The page posts its bundle: when it loads and whenever its access token changes.  The
\* answer is not awaited, so posts of two pages reach the store in either order.
PostBundle(s) ==
  /\ req[s] = Idle /\ identity # Absent
  /\ Become(s, [pc |-> "sent", of |-> identity])
  /\ UNCHANGED <<backend, identity, bundleOf, key, locked, history>>

UploadInMemory(s) ==
  /\ backend = "memory" /\ req[s].pc = "sent"
  /\ Store(req[s].of)
  /\ Become(s, Idle)
  /\ UNCHANGED <<backend, identity, locked>>

Storing == {s \in Slots : req[s].pc \in {"upload", "uploaded"}}

\* The transaction's upsert of the bundle row: one upload at a time holds it.
UploadBundle(s) ==
  /\ backend = "drizzle" /\ req[s].pc = "sent"
  /\ Storing = {}
  /\ Become(s, [req[s] EXCEPT !.pc = "upload"])
  /\ UNCHANGED <<backend, identity, bundleOf, key, locked, history>>

\* The upsert of the key rows waits for the locks of fetches.
UploadKeys(s) ==
  /\ req[s].pc = "upload"
  /\ \A k \in KeyIds : locked[k] = Absent
  /\ locked' = [k \in KeyIds |-> s]
  /\ Become(s, [req[s] EXCEPT !.pc = "uploaded"])
  /\ UNCHANGED <<backend, identity, bundleOf, key, history>>

UploadCommit(s) ==
  /\ req[s].pc = "uploaded"
  /\ Store(req[s].of)
  /\ locked' = [k \in KeyIds |-> Absent]
  /\ Become(s, Idle)
  /\ UNCHANGED <<backend, identity>>

-----------------------------------------------------------------------------
(* Fetching a bundle with one key *)

Free(k) == key[k].of # Absent /\ ~ key[k].used

Use(k) == key' = [key EXCEPT ![k].used = TRUE]

\* A fetch returned key k.
Given(k) ==
  /\ fetches' = Count(fetches, k)
  /\ given' = given \cup {<<k, key[k].of>>}
  /\ UNCHANGED grants

FetchInMemory ==
  /\ backend = "memory" /\ bundleOf # Absent
  /\ \E k \in KeyIds : Free(k) /\ Use(k) /\ Given(k)
  /\ UNCHANGED <<backend, identity, bundleOf, locked, req>>

FetchBundle(s) ==
  /\ backend = "drizzle" /\ req[s] = Idle /\ bundleOf # Absent
  /\ Become(s, [pc |-> "pick", of |-> bundleOf])
  /\ UNCHANGED <<backend, identity, bundleOf, key, locked, history>>

\* Mutant: FOR UPDATE SKIP LOCKED is forgotten.
Pickable_LockedToo == {k \in KeyIds : Free(k)}

\* WHERE consumed_at IS NULL FOR UPDATE SKIP LOCKED
Pickable == {k \in KeyIds : Free(k) /\ locked[k] = Absent}

\* One statement picks, locks and marks a key; without one the bundle goes out alone.
Pick(s) ==
  /\ req[s].pc = "pick"
  /\ \/ \E k \in Pickable :
          /\ locked' = [locked EXCEPT ![k] = s]
          /\ Become(s, [pc |-> "commit", of |-> req[s].of, k |-> k])
     \/ /\ Pickable = {}
        /\ Become(s, Idle) /\ UNCHANGED locked
  /\ UNCHANGED <<backend, identity, bundleOf, key, history>>

\* Mutant: a transaction ends without giving up its locks.
Unlocked_Never(k) == locked

Unlocked(k) == [locked EXCEPT ![k] = Absent]

FetchCommit(s) ==
  /\ req[s].pc = "commit"
  /\ Use(req[s].k) /\ Given(req[s].k)
  /\ locked' = Unlocked(req[s].k)
  /\ Become(s, Idle)
  /\ UNCHANGED <<backend, identity, bundleOf>>

-----------------------------------------------------------------------------
(* Consuming a key by its id *)

Granted(k) == grants' = Count(grants, k) /\ UNCHANGED <<fetches, given>>

\* Mutant: the caller is told "consumed" but the row is not marked.
UseInMemory_Unmarked(k) == UNCHANGED key

UseInMemory(k) == Use(k)

ConsumeInMemory(k) ==
  /\ backend = "memory" /\ Free(k)
  /\ UseInMemory(k) /\ Granted(k)
  /\ UNCHANGED <<backend, identity, bundleOf, locked, req>>

\* SELECT: a missing or used key ends the call here.
ConsumeSelect(s, k) ==
  /\ backend = "drizzle" /\ req[s] = Idle /\ Free(k)
  /\ Become(s, [pc |-> "update", k |-> k])
  /\ UNCHANGED <<backend, identity, bundleOf, key, locked, history>>

\* UPDATE ... WHERE consumed_at IS NULL, which waits for the lock of a matching row;
\* "consumed" is answered whether a row matched or not.
ConsumeUpdate(s) ==
  /\ req[s].pc = "update" /\ (Free(req[s].k) => locked[req[s].k] = Absent)
  /\ Use(req[s].k) /\ Granted(req[s].k)
  /\ Become(s, Idle)
  /\ UNCHANGED <<backend, identity, bundleOf, locked>>

-----------------------------------------------------------------------------
\* The server restarts: open transactions roll back and tables stay, Maps are lost.
Restart ==
  /\ req' = [s \in Slots |-> Idle]
  /\ locked' = [k \in KeyIds |-> Absent]
  /\ \/ backend = "drizzle" /\ UNCHANGED <<bundleOf, key, fetches, grants>>
     \/ backend = "memory" /\ bundleOf' = Absent /\ key' = NoKeys /\ fetches' = Never /\ grants' = Never
  /\ UNCHANGED <<backend, identity, given>>

PInit ==
  /\ backend \in {"memory", "drizzle"}
  /\ identity = Absent /\ bundleOf = Absent
  /\ key = NoKeys
  /\ locked = [k \in KeyIds |-> Absent]
  /\ req = [s \in Slots |-> Idle]
  /\ fetches = Never /\ grants = Never
  /\ given = {}

\* The request in slot s takes its next step.
Proceed(s) ==
  \/ UploadInMemory(s) \/ UploadBundle(s) \/ UploadKeys(s) \/ UploadCommit(s)
  \/ Pick(s) \/ FetchCommit(s) \/ ConsumeUpdate(s)

PNext ==
  \/ \E i \in Identities : LoadPage(i)
  \/ FetchInMemory \/ \E k \in KeyIds : ConsumeInMemory(k)
  \/ \E s \in Slots : PostBundle(s) \/ FetchBundle(s) \/ Proceed(s) \/ \E k \in KeyIds : ConsumeSelect(s, k)
  \/ Restart

PSpec == PInit /\ [][PNext]_pvars

\* The event loop and PostgreSQL's lock queues serve every request, the client uploads
\* at every token refresh, and the server does not restart for ever.
PFairSpec ==
  /\ PSpec
  /\ \A s \in Slots : SF_pvars(Proceed(s))
  /\ SF_pvars(\E s \in Slots : PostBundle(s))
  /\ <>[][~ Restart]_pvars

-----------------------------------------------------------------------------
(* Properties *)

\* Every variable has its type.
TypeOK ==
  /\ backend \in {"memory", "drizzle"}
  /\ identity \in OptIdentity /\ bundleOf \in OptIdentity
  /\ key \in [KeyIds -> [of : OptIdentity, used : BOOLEAN]]
  /\ locked \in [KeyIds -> Slots \cup {Absent}]
  /\ req \in [Slots -> Request]
  /\ fetches \in [KeyIds -> 0..2] /\ grants \in [KeyIds -> 0..2]
  /\ given \subseteq KeyIds \X Identities

\* A transaction that picked a key holds the key's lock and finds it unused when it commits.
PickedIsHeld ==
  \A s \in Slots : req[s].pc = "commit" => locked[req[s].k] = s /\ Free(req[s].k)

\* An upload that is about to commit holds every key.
UploadHolds ==
  \A s \in Slots : req[s].pc = "uploaded" => \A k \in KeyIds : locked[k] = s

\* A lock belongs to an open transaction that took it, so none outlives its transaction.
LocksAreHeld ==
  \A k \in KeyIds : locked[k] # Absent =>
    LET r == req[locked[k]] IN r.pc = "uploaded" \/ (r.pc = "commit" /\ r.k = k)

\* The Maps have no transactions: a request either waits or is answered.
AtomicInMemory == backend = "memory" => \A s \in Slots : req[s].pc \in {"idle", "sent"}

\* The types, and how locks, transactions and rows go together.
Inv == TypeOK /\ PickedIsHeld /\ UploadHolds /\ LocksAreHeld /\ AtomicInMemory

\* No two fetches, however they overlap, get the same activation of a one-time key.
FetchedOnce == \A k \in KeyIds : fetches[k] <= 1

\* A key that a fetch returned, or a consume call was granted, is marked used until it
\* is uploaded again, so it is never handed out by mistake after a commit.
TakenIsUsed == \A k \in KeyIds : fetches[k] + grants[k] > 0 => key[k].used

\* With the in-memory backend a key is taken once, by a fetch or by a consume call.
TakenOnceInMemory == backend = "memory" => \A k \in KeyIds : fetches[k] + grants[k] <= 1

\* Once the client stays on a page, the server comes to hold that page's bundle for good,
\* even if an upload of an earlier page is committed late or is lost in a restart.
EventuallyCurrent == \A i \in Identities : <>[](identity = i) => <>[](bundleOf = i)
=============================================================================
