-------------------------------- MODULE Accounts --------------------------------
(* Registering, logging in with a password, and the limiter in front of the     *)
(* login: failures are counted per address and per e-mail in windows that end   *)
(* each at its own time.  One account; the clients of it are Slots, and the     *)
(* hash that decides about a password is external.                              *)
EXTENDS Naturals, FiniteSets

CONSTANTS
    Slots,        \* clients, with one request each at a time
    Ips,          \* addresses they call from
    Email,        \* the account's name, in lower case
    MaxFailures,  \* maxFailures
    Scopes        \* what an instance may choose: its clients, addresses, backend, files and faults

ASSUME AccountAssumption ==
    /\ IsFiniteSet(Slots) /\ MaxFailures \in Nat \ {0} /\ Email \notin Ips
    /\ \A s \in Scopes : s.slots \subseteq Slots /\ s.ips \subseteq Ips /\ s.backend \in {"memory", "drizzle"}

VARIABLES
    scope,  \* the choice from Scopes
    user,    \* whether the row exists
    req,     \* by client: where its request is, and where it calls from
    count,   \* the buckets' counts
    token    \* by client: whether it holds an access token

avars == <<scope, user, req, count, token>>

Keys == Ips \cup {Email}
Idle == [at |-> "idle", ip |-> Email]

AInit ==
    /\ scope \in Scopes
    /\ user = FALSE
    /\ req = [r \in Slots |-> Idle]
    /\ count = [k \in Keys |-> 0]
    /\ token = [r \in Slots |-> FALSE]

Step(r, at) == req' = [req EXCEPT ![r].at = at]
-------------------------------------------------------------------------------
\* Mutant: the count by e-mail is not looked at.
Allowed_AddressOnly(ip) == count[ip] < MaxFailures

\* The check comes before the first await ...
Allowed(ip) == count[ip] < MaxFailures /\ count[Email] < MaxFailures
Login(r, ip) ==
    /\ r \in scope.slots /\ ip \in scope.ips /\ req[r] = Idle /\ ~token[r] /\ Allowed(ip)
    /\ req' = [req EXCEPT ![r] = [at |-> "verifying", ip |-> ip]]
    /\ UNCHANGED <<scope, user, count, token>>

\* ... and the count after the password was looked at.
Wrong(r) ==
    /\ req[r].at = "verifying"
    /\ count' = [count EXCEPT ![req[r].ip] = @ + 1, ![Email] = @ + 1]
    /\ req' = [req EXCEPT ![r] = Idle]
    /\ UNCHANGED <<scope, user, token>>

Right(r) ==
    /\ req[r].at = "verifying" /\ user /\ Step(r, "auditing")
    /\ UNCHANGED <<scope, user, count, token>>

Register(r) ==
    /\ r \in scope.slots /\ req[r] = Idle /\ ~token[r] /\ Step(r, "hashing")
    /\ UNCHANGED <<scope, user, count, token>>

\* create answers whether it inserted: the e-mail is unique.
CreateUser(r) ==
    /\ req[r].at = "hashing" /\ user' = TRUE
    /\ IF user THEN req' = [req EXCEPT ![r] = Idle] ELSE Step(r, "auditing")
    /\ UNCHANGED <<scope, count, token>>

\* The audit entry and the session; the first may fail, and the row stays.
Session(r) ==
    /\ req[r].at = "auditing" /\ req' = [req EXCEPT ![r] = Idle]
    /\ token' \in {token, [token EXCEPT ![r] = TRUE]}
    /\ UNCHANGED <<scope, user, count>>

\* bucketFor makes a new bucket once resetAt has passed.
NewWindow(k) ==
    /\ count[k] > 0 /\ count' = [count EXCEPT ![k] = 0]
    /\ UNCHANGED <<scope, user, req, token>>

\* The buckets are the process's, and in memory the row is too.
ARestart ==
    /\ req' = [r \in Slots |-> Idle] /\ count' = [k \in Keys |-> 0]
    /\ user' = (user /\ scope.backend = "drizzle")
    /\ UNCHANGED <<scope, token>>

ANext ==
    \/ \E r \in Slots :
        Wrong(r) \/ Right(r) \/ Register(r) \/ CreateUser(r) \/ Session(r) \/ \E ip \in Ips : Login(r, ip)
    \/ \E k \in Keys : NewWindow(k)

ASpec == AInit /\ [][ANext \/ ARestart]_avars
-------------------------------------------------------------------------------
ATypeOK ==
    /\ scope \in Scopes /\ user \in BOOLEAN
    /\ req \in [Slots -> [at : {"idle", "verifying", "auditing", "hashing"}, ip : Keys]]
    /\ count \in [Keys -> Nat] /\ token \in [Slots -> BOOLEAN]
    /\ \A r \in Slots : req[r].at = "verifying" => req[r].ip \in Ips

\* auth-rate-limit.ts:9-14: neither rotating the address nor asking about many
\* accounts passes the limit.  What a window admits beyond maxFailures are the
\* attempts that were verified at the same time as the last one of the limit.
Verifying(k) == {r \in Slots : req[r].at = "verifying" /\ k \in {req[r].ip, Email}}
Limited == \A k \in Keys : count[k] + Cardinality(Verifying(k)) <= MaxFailures + Cardinality(Slots) - 1
===============================================================================
