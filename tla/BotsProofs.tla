------------------------------- MODULE BotsProofs -------------------------------
(* For any bots, events, installations and faults: the server polls for an SDK's *)
(* socket exactly while it is up, and the retries of the SDK are never used up.  *)
EXTENDS Bots, SequenceTheorems, TLAPS

Steps == {"off", "dialing", "up", "waiting", "stopped"}

Rows  == [gen : Nat, chans : SUBSET Channels, subs : SUBSET Kinds]
Calls == [at : {"match", "enqueue", "help"}, e : Events, to : SUBSET Bots]

BTypeOK ==
    /\ reg \in [Bots -> Rows] /\ calls \subseteq Calls
    /\ gens \in [Bots -> Nat] /\ held \in [Bots -> Nat]
    /\ sdk \in [Bots -> Steps] /\ attempt \in [Bots -> Nat]
    /\ link \in [Bots -> SUBSET {"sdk", "ghost"}]

\* What bounds the retries: a bot that is up, or was never up, has counted none.
Rested == \A b \in Bots : sdk[b] \in {"off", "up"} => attempt[b] = 0

BInv == BTypeOK /\ Rested /\ Inv /\ NeverExhausted

LEMMA BInitOk == Init => BInv
BY BotsAssumption DEF Init, BInv, BTypeOK, Steps, Rows, Rested, Inv, NeverExhausted, Absent, Kinds

\* The end of a connection of bots that were up: from no retry counted to one.
LEMMA DownOnce ==
  ASSUME BInv, NEW bs \in SUBSET Bots, \A b \in bs : sdk[b] = "up", Down(bs)
  PROVE  /\ sdk' = [b \in Bots |-> IF b \in bs THEN "waiting" ELSE sdk[b]]
         /\ attempt' = [b \in Bots |-> IF b \in bs THEN 1 ELSE attempt[b]]
BY BotsAssumption DEF BInv, BTypeOK, Rested, Down
-------------------------------------------------------------------------------
Registry == <<reg, gens, held>>
Sdk      == <<sdk, attempt, link, refused>>

\* The three parts of the invariant and the state each is about.
RegOk == /\ reg \in [Bots -> Rows] /\ gens \in [Bots -> Nat] /\ held \in [Bots -> Nat]
         /\ \A b \in Bots : reg[b].chans \subseteq Channels \ Secret /\ reg[b].subs \subseteq Kinds
         /\ \A b \in Bots : reg[b].gen \in {0, gens[b]} /\ held[b] <= gens[b] /\ gens[b] <= MaxGen
SdkOk == /\ sdk \in [Bots -> Steps] /\ attempt \in [Bots -> Nat]
         /\ link \in [Bots -> SUBSET {"sdk", "ghost"}] /\ Rested
         /\ \A b \in Bots : "sdk" \in link[b] <=> sdk[b] = "up"
         /\ NeverExhausted
CallsOk == calls \subseteq Calls /\ \A k \in calls : k.e \in published

LEMMA Parts == BInv <=> RegOk /\ SdkOk /\ CallsOk
BY BotsAssumption DEF BInv, BTypeOK, Inv, RegOk, SdkOk, CallsOk, NeverExhausted, Steps

LEMMA RegKept == BInv /\ [Next]_vars => RegOk'
<1> SUFFICES ASSUME BInv, [Next]_vars PROVE RegOk'
  OBVIOUS
<1>0. RegOk
  BY Parts
<1> USE <1>0, BotsAssumption DEF RegOk, Rows, Absent, Fresh, Kinds
<1>1. ASSUME NEW b \in Bots, Install(b) PROVE RegOk'
  BY <1>1 DEF Install, CreateRow, program
<1>2. ASSUME NEW b \in Bots, NEW c \in Channels, AddToChannel(b, c) PROVE RegOk'
  BY <1>2 DEF AddToChannel, program
<1>3. ASSUME NEW b \in Bots, NEW c \in Channels, RemoveFromChannel(b, c) PROVE RegOk'
  BY <1>3 DEF RemoveFromChannel, program
<1>4. ASSUME NEW b \in Bots, NEW k \in Kinds, Subscribe(b, k) \/ Unsubscribe(b, k) PROVE RegOk'
  BY <1>4 DEF Subscribe, Unsubscribe, program
<1>5. ASSUME NEW b \in Bots, Start(b) PROVE RegOk'
  BY <1>5 DEF Start, registry
<1>6. CASE Crash
  BY <1>6 DEF Crash
<1>7. CASE UNCHANGED Registry
  BY <1>7 DEF Registry
<1>8. ASSUME NEW b \in Bots,
             Dial(b) \/ Refuse(b) \/ Break(b) \/ Redial(b) \/ Disconnect(b) \/ GhostEnds(b) \/ Dispatch(b)
               \/ \E s \in {"sdk", "ghost"} : Poll(b, s)
      PROVE  UNCHANGED Registry
  BY <1>8 DEF Dial, Refuse, Break, Redial, Disconnect, GhostEnds, Dispatch, Poll, registry, program, Registry
<1>9. ASSUME \/ \E e \in Events : Publish(e)
             \/ \E k \in calls : Match(k) \/ Enqueue(k) \/ Help(k)
             \/ \E p \in posts : CheckWrite(p) \/ StoreAnswer(p)
             \/ Boot \/ UNCHANGED vars
      PROVE  UNCHANGED Registry
  BY <1>9 DEF Publish, Match, Enqueue, Help, CheckWrite, StoreAnswer, Boot, vars, registry, program, Registry
<1> QED
  BY <1>1, <1>2, <1>3, <1>4, <1>5, <1>6, <1>7, <1>8, <1>9 DEF Next

LEMMA SdkKept == BInv /\ [Next]_vars => SdkOk'
<1> SUFFICES ASSUME BInv, [Next]_vars PROVE SdkOk'
  OBVIOUS
<1>0. SdkOk
  BY Parts
<1> USE DEF SdkOk, Rested, NeverExhausted, Steps
<1>1. ASSUME NEW b \in Bots, Start(b) \/ Redial(b) PROVE SdkOk'
  BY <1>0, <1>1 DEF Start, Redial
<1>2. ASSUME NEW b \in Bots, Dial(b) PROVE SdkOk'
  BY <1>0, <1>2 DEF Dial
<1>3. ASSUME NEW b \in Bots, Refuse(b) PROVE SdkOk'
  BY <1>0, <1>3 DEF Refuse
<1>4. ASSUME NEW b \in Bots, Break(b) PROVE SdkOk'
  <2>1. Down({b}) /\ UNCHANGED refused /\ \A d \in {b} : sdk[d] = "up"
    BY <1>4 DEF Break
  <2>2. /\ sdk' = [d \in Bots |-> IF d \in {b} THEN "waiting" ELSE sdk[d]]
        /\ attempt' = [d \in Bots |-> IF d \in {b} THEN 1 ELSE attempt[d]]
    BY <2>1, DownOnce
  <2>3. link' = [link EXCEPT ![b] = link[b] \ {"sdk"}] \/ link' = [link EXCEPT ![b] = {"ghost"}]
    BY <1>4 DEF Break
  <2> QED
    BY <1>0, <2>1, <2>2, <2>3
<1>5. ASSUME NEW b \in Bots, Disconnect(b) PROVE SdkOk'
  <2>1. /\ refused' = refused \cup {b}
        /\ link' = [link EXCEPT ![b] = link[b] \ {"sdk"}]
    BY <1>5 DEF Disconnect
  <2>2. CASE sdk[b] = "up"
    <3>1. Down({b}) /\ \A d \in {b} : sdk[d] = "up"
      BY <1>5, <2>2 DEF Disconnect
    <3>2. /\ sdk' = [d \in Bots |-> IF d \in {b} THEN "waiting" ELSE sdk[d]]
          /\ attempt' = [d \in Bots |-> IF d \in {b} THEN 1 ELSE attempt[d]]
      BY <3>1, DownOnce
    <3> QED
      BY <1>0, <2>1, <2>2, <3>2
  <2>3. CASE sdk[b] # "up"
    BY <1>0, <1>5, <2>1, <2>3 DEF Disconnect
  <2> QED
    BY <2>2, <2>3
<1>6. CASE Crash
  <2> DEFINE bs == {b \in Bots : sdk[b] = "up"}
  <2>1. Down(bs) /\ link' = [b \in Bots |-> {}] /\ UNCHANGED refused
    BY <1>6 DEF Crash
  <2>2. /\ sdk' = [d \in Bots |-> IF d \in bs THEN "waiting" ELSE sdk[d]]
        /\ attempt' = [d \in Bots |-> IF d \in bs THEN 1 ELSE attempt[d]]
    BY <2>1, DownOnce
  <2> QED
    BY <1>0, <2>1, <2>2
<1>7. ASSUME NEW b \in Bots, GhostEnds(b) PROVE SdkOk'
  BY <1>0, <1>7 DEF GhostEnds, program
<1>8. CASE UNCHANGED Sdk
  BY <1>0, <1>8 DEF Sdk
<1>9. ASSUME NEW b \in Bots,
             \/ Install(b) \/ Dispatch(b)
             \/ \E c \in Channels : AddToChannel(b, c) \/ RemoveFromChannel(b, c)
             \/ \E k \in Kinds : Subscribe(b, k) \/ Unsubscribe(b, k)
             \/ \E s \in {"sdk", "ghost"} : Poll(b, s)
      PROVE  UNCHANGED Sdk
  BY <1>9 DEF Install, Dispatch, AddToChannel, RemoveFromChannel, Subscribe, Unsubscribe, Poll, program, Sdk
<1>10. ASSUME \/ \E e \in Events : Publish(e)
              \/ \E k \in calls : Match(k) \/ Enqueue(k) \/ Help(k)
              \/ \E p \in posts : CheckWrite(p) \/ StoreAnswer(p)
              \/ Boot \/ UNCHANGED vars
      PROVE  UNCHANGED Sdk
  BY <1>10 DEF Publish, Match, Enqueue, Help, CheckWrite, StoreAnswer, Boot, vars, program, Sdk
<1> QED
  BY <1>1, <1>2, <1>3, <1>4, <1>5, <1>6, <1>7, <1>8, <1>9, <1>10 DEF Next

LEMMA CallsKept == BInv /\ [Next]_vars => CallsOk'
<1> SUFFICES ASSUME BInv, [Next]_vars PROVE CallsOk'
  OBVIOUS
<1>0. CallsOk
  BY Parts
<1> USE <1>0 DEF CallsOk, Calls
<1>1. ASSUME NEW e \in Events, Publish(e) PROVE CallsOk'
  BY <1>1 DEF Publish
<1>2. ASSUME NEW k \in calls, Match(k) PROVE CallsOk'
  BY <1>2 DEF Match
<1>3. ASSUME NEW k \in calls, Enqueue(k) PROVE CallsOk'
  BY <1>3 DEF Enqueue
<1>4. ASSUME NEW k \in calls, Help(k) PROVE CallsOk'
  BY <1>4 DEF Help
<1>5. CASE Crash
  BY <1>5 DEF Crash
<1>6. CASE UNCHANGED <<calls, published>>
  BY <1>6
<1>7. ASSUME NEW b \in Bots,
             \/ Install(b) \/ Start(b) \/ Dial(b) \/ Refuse(b) \/ Break(b) \/ Redial(b)
             \/ Disconnect(b) \/ GhostEnds(b) \/ Dispatch(b)
             \/ \E c \in Channels : AddToChannel(b, c) \/ RemoveFromChannel(b, c)
             \/ \E k \in Kinds : Subscribe(b, k) \/ Unsubscribe(b, k)
             \/ \E s \in {"sdk", "ghost"} : Poll(b, s)
      PROVE  UNCHANGED <<calls, published>>
  BY <1>7 DEF Install, Start, Dial, Refuse, Break, Redial, Disconnect, GhostEnds, Dispatch,
              AddToChannel, RemoveFromChannel, Subscribe, Unsubscribe, Poll
<1>8. ASSUME (\E p \in posts : CheckWrite(p) \/ StoreAnswer(p)) \/ Boot \/ UNCHANGED vars
      PROVE  UNCHANGED <<calls, published>>
  BY <1>8 DEF CheckWrite, StoreAnswer, Boot, vars
<1> QED
  BY <1>1, <1>2, <1>3, <1>4, <1>5, <1>6, <1>7, <1>8 DEF Next
-------------------------------------------------------------------------------
LEMMA BKept == BInv /\ [Next]_vars => BInv'
<1> SUFFICES ASSUME BInv, [Next]_vars PROVE BInv'
  OBVIOUS
<1>1. RegOk' /\ SdkOk' /\ CallsOk'
  BY RegKept, SdkKept, CallsKept
<1> QED
  BY <1>1, BotsAssumption DEF BInv, BTypeOK, Inv, RegOk, SdkOk, CallsOk, NeverExhausted, Steps

\* socket.ts:142-155, store.ts: whatever is installed, revoked, cut off or
\* restarted, the server polls for an SDK's socket exactly while the SDK is
\* connected, memberships stay out of the encrypted channels, and a token in use
\* is one that was issued.
THEOREM BotsRight == Spec => []Inv
BY BInitOk, BKept, PTL DEF Spec, BInv

\* bot-sdk 40-63, 145-162: for any number of retries, a bot never uses up its
\* retries, so backoff never grows and the cap is never what stops a bot.
THEOREM RetriesLast == Spec => []NeverExhausted
BY BInitOk, BKept, PTL DEF Spec, BInv
-------------------------------------------------------------------------------
\* Nothing that is placed is placed twice.
LEMMA PlacedOnce ==
  ASSUME NEW S, NEW K \in Seq(S), NEW E \in Seq(S), NEW X, Placed(K, E, X)
  PROVE  \A i, j \in 1 .. Len(K) : K[i] = K[j] => i = j
<1> SUFFICES ASSUME NEW i \in 1 .. Len(K), NEW j \in 1 .. Len(K), K[i] = K[j] PROVE i = j
  OBVIOUS
<1>1. PICK k \in DOMAIN E : E[k] = K[i]
  <2>1. K[i] \in ToSet(K) /\ ToSet(K) \subseteq ToSet(E)
    BY LenProperties DEF Placed, ToSet
  <2> QED
    BY <2>1 DEF ToSet
<1>2. k \in Nat /\ ~(k < k)
  OBVIOUS
<1>3. ~(i < j) /\ ~(j < i)
  BY <1>1, <1>2 DEF Placed
<1> QED
  BY <1>3

\* Putting an event that was never there at the end of both keeps it so.
LEMMA PlacedPut ==
  ASSUME NEW S, NEW K \in Seq(S), NEW E \in Seq(S), NEW X, NEW e \in S,
         e \notin X, e \notin ToSet(E), Placed(K, E, X)
  PROVE  Placed(Append(K, e), Append(E, e), X)
<1> DEFINE L == Append(K, e)
           F == Append(E, e)
<1>1. /\ DOMAIN K = 1 .. Len(K) /\ DOMAIN E = 1 .. Len(E) /\ Len(K) \in Nat /\ Len(E) \in Nat
      /\ DOMAIN L = 1 .. Len(K) + 1 /\ DOMAIN F = 1 .. Len(E) + 1
      /\ \A i \in 1 .. Len(K) : L[i] = K[i]
      /\ \A k \in 1 .. Len(E) : F[k] = E[k]
      /\ L[Len(K) + 1] = e /\ F[Len(E) + 1] = e
  BY AppendProperties, LenProperties
<1>2. \A i \in 1 .. Len(K) : K[i] # e /\ \A k \in 1 .. Len(E) : E[k] # e
  BY <1>1 DEF Placed, ToSet
<1>3. ToSet(L) = ToSet(K) \cup {e} /\ ToSet(F) = ToSet(E) \cup {e}
  BY <1>1 DEF ToSet
<1> HIDE DEF L, F
<1>4. ASSUME NEW i \in DOMAIN L, NEW j \in DOMAIN L, NEW k \in DOMAIN F, NEW l \in DOMAIN F, L[i] = F[k], L[j] = F[l]
      PROVE  i < j <=> k < l
  <2>1. (i = Len(K) + 1 <=> k = Len(E) + 1) /\ (j = Len(K) + 1 <=> l = Len(E) + 1)
    BY <1>1, <1>2, <1>4 DEF Placed, ToSet
  <2>2. CASE i \in 1 .. Len(K) /\ j \in 1 .. Len(K)
    BY <1>1, <1>4, <2>1, <2>2 DEF Placed
  <2>3. CASE ~(i \in 1 .. Len(K) /\ j \in 1 .. Len(K))
    BY <1>1, <2>1, <2>3
  <2> QED
    BY <2>2, <2>3
<1> QED
  BY <1>3, <1>4 DEF Placed, L, F

\* Taking a stretch out of what is placed keeps the rest as it was.
LEMMA PlacedCut ==
  ASSUME NEW S, NEW A \in Seq(S), NEW B \in Seq(S), NEW C \in Seq(S), NEW E \in Seq(S), NEW X,
         Placed(A \o B \o C, E, X)
  PROVE  Placed(A \o C, E, X \cup ToSet(B))
<1> DEFINE K == A \o B \o C
           L == A \o C
           a == Len(A)
           b == Len(B)
           c == Len(C)
           At(i) == IF i <= a THEN i ELSE i + b
<1>1. /\ a \in Nat /\ b \in Nat /\ c \in Nat
      /\ DOMAIN A = 1 .. a /\ DOMAIN B = 1 .. b /\ DOMAIN C = 1 .. c
      /\ K \in Seq(S) /\ L \in Seq(S) /\ Len(K) = a + b + c /\ Len(L) = a + c
      /\ DOMAIN K = 1 .. (a + b + c) /\ DOMAIN L = 1 .. (a + c)
  BY ConcatProperties, LenProperties
<1>2. /\ \A i \in 1 .. a : K[i] = A[i] /\ L[i] = A[i]
      /\ \A i \in 1 .. b : K[a + i] = B[i]
      /\ \A i \in 1 .. c : K[a + b + i] = C[i] /\ L[a + i] = C[i]
  BY <1>1, ConcatProperties
<1> HIDE DEF K, L, a, b, c
<1>3. ASSUME NEW i \in 1 .. (a + c)
      PROVE  At(i) \in 1 .. (a + b + c) /\ At(i) \notin (a + 1) .. (a + b) /\ K[At(i)] = L[i]
  <2>1. CASE i <= a
    BY <1>1, <1>2, <2>1
  <2>2. CASE i > a
    <3>1. PICK j \in 1 .. c : i = a + j
      BY <1>1, <2>2
    <3>2. At(i) = a + b + j
      BY <1>1, <3>1
    <3>3. K[a + b + j] = C[j] /\ L[a + j] = C[j]
      BY <1>2
    <3> QED
      BY <1>1, <2>2, <3>1, <3>2, <3>3
  <2> QED
    BY <1>1, <2>1, <2>2
<1>4. ASSUME NEW i \in 1 .. (a + c), NEW j \in 1 .. (a + c) PROVE At(i) < At(j) <=> i < j
  BY <1>1
<1>5. ASSUME NEW k \in 1 .. (a + b + c), k \notin (a + 1) .. (a + b) PROVE \E i \in 1 .. (a + c) : L[i] = K[k]
  <2>1. CASE k <= a
    BY <1>1, <1>2, <2>1
  <2>2. CASE k > a + b
    <3>1. PICK j \in 1 .. c : k = a + b + j
      BY <1>1, <2>2
    <3>2. K[a + b + j] = C[j] /\ L[a + j] = C[j] /\ a + j \in 1 .. (a + c)
      BY <1>1, <1>2
    <3> QED
      BY <3>1, <3>2
  <2> QED
    BY <1>1, <1>5, <2>1, <2>2
<1>6. \A i, j \in 1 .. (a + b + c) : K[i] = K[j] => i = j
  BY <1>1, PlacedOnce DEF K
<1>7. ToSet(L) = ToSet(E) \ (X \cup ToSet(B))
  <2>1. ASSUME NEW e \in ToSet(L) PROVE e \in ToSet(K) /\ e \notin ToSet(B)
    <3>1. PICK i \in 1 .. (a + c) : e = L[i]
      BY <1>1 DEF ToSet
    <3>2. ASSUME NEW j \in 1 .. b, B[j] = e PROVE FALSE
      <4>1. K[a + j] = K[At(i)] /\ a + j \in 1 .. (a + b + c) /\ a + j \in (a + 1) .. (a + b)
        BY <1>1, <1>2, <1>3, <3>1, <3>2
      <4>2. At(i) \in 1 .. (a + b + c) /\ At(i) \notin (a + 1) .. (a + b)
        BY <1>3
      <4> HIDE DEF At
      <4> QED
        BY <1>6, <4>1, <4>2
    <3> QED
      BY <1>1, <1>3, <3>1, <3>2 DEF ToSet
  <2>2. ASSUME NEW e \in ToSet(K), e \notin ToSet(B) PROVE e \in ToSet(L)
    <3>1. PICK k \in 1 .. (a + b + c) : e = K[k]
      BY <1>1 DEF ToSet
    <3>2. k \notin (a + 1) .. (a + b)
      <4>1. ASSUME NEW j \in 1 .. b, k = a + j PROVE FALSE
        BY <1>1, <1>2, <2>2, <3>1, <4>1 DEF ToSet
      <4>2. k \in (a + 1) .. (a + b) => \E j \in 1 .. b : k = a + j
        BY <1>1
      <4> QED
        BY <4>1, <4>2
    <3> QED
      BY <1>1, <1>5, <3>1, <3>2 DEF ToSet
  <2> QED
    BY <2>1, <2>2 DEF Placed, K
<1>8. ASSUME NEW i \in DOMAIN L, NEW j \in DOMAIN L, NEW k \in DOMAIN E, NEW l \in DOMAIN E, L[i] = E[k], L[j] = E[l]
      PROVE  i < j <=> k < l
  <2>1. /\ At(i) \in DOMAIN K /\ At(j) \in DOMAIN K /\ K[At(i)] = E[k] /\ K[At(j)] = E[l]
        /\ (At(i) < At(j) <=> i < j)
    BY <1>1, <1>3, <1>4, <1>8
  <2> HIDE DEF At
  <2> QED
    BY <2>1 DEF Placed, K
<1> QED
  BY <1>7, <1>8 DEF Placed, L
-------------------------------------------------------------------------------
Queues == [Bots -> Seq(Events)]
QTypeOK == wire \in Queues /\ done \in Queues /\ queue \in Queues /\ enq \in Queues /\ lost \in [Bots -> SUBSET Events]

\* An event has one call, and is in no queue before that call has put it there.
CallOnce ==
    /\ \A j, k \in calls : j.e = k.e => j = k
    /\ \A b \in Bots : \A e \in ToSet(enq[b]) : e \in published /\ \A k \in calls : k.e = e => k.at = "help"

\* Only a connected SDK has anything on its wire, and only what was queued is lost.
Sound == \A b \in Bots : (sdk[b] # "up" => wire[b] = <<>>) /\ lost[b] \subseteq ToSet(enq[b])

QInv == QTypeOK /\ CallOnce /\ Sound /\ EventsKept

LEMMA ToSetOfConcat ==
  ASSUME NEW S, NEW s \in Seq(S), NEW t \in Seq(S)
  PROVE  ToSet(s \o t) = ToSet(s) \cup ToSet(t)
<1>1. /\ DOMAIN s = 1 .. Len(s) /\ DOMAIN t = 1 .. Len(t) /\ Len(s) \in Nat /\ Len(t) \in Nat
      /\ DOMAIN (s \o t) = 1 .. (Len(s) + Len(t))
      /\ \A i \in 1 .. Len(s) : (s \o t)[i] = s[i]
      /\ \A i \in 1 .. Len(t) : (s \o t)[Len(s) + i] = t[i]
  BY ConcatProperties, LenProperties
<1>2. ASSUME NEW e \in ToSet(s \o t) PROVE e \in ToSet(s) \cup ToSet(t)
  <2>1. PICK i \in 1 .. (Len(s) + Len(t)) : (s \o t)[i] = e
    BY <1>1 DEF ToSet
  <2>2. CASE i <= Len(s)
    BY <1>1, <2>1, <2>2 DEF ToSet
  <2>3. CASE i > Len(s)
    <3> DEFINE j == i - Len(s)
    <3>1. j \in 1 .. Len(t) /\ i = Len(s) + j
      BY <1>1, <2>3
    <3> HIDE DEF j
    <3>2. t[j] = e
      BY <1>1, <2>1, <3>1
    <3> QED
      BY <1>1, <3>1, <3>2 DEF ToSet
  <2> QED
    BY <1>1, <2>2, <2>3
<1>3. ASSUME NEW e \in ToSet(s) PROVE e \in ToSet(s \o t)
  BY <1>1 DEF ToSet
<1>4. ASSUME NEW e \in ToSet(t) PROVE e \in ToSet(s \o t)
  <2>1. PICK j \in 1 .. Len(t) : t[j] = e
    BY <1>1 DEF ToSet
  <2>2. Len(s) + j \in 1 .. (Len(s) + Len(t)) /\ (s \o t)[Len(s) + j] = e
    BY <1>1, <2>1
  <2> QED
    BY <1>1, <2>2 DEF ToSet
<1> QED
  BY <1>2, <1>3, <1>4

LEMMA ToSetOfAppend ==
  ASSUME NEW S, NEW s \in Seq(S), NEW e \in S
  PROVE  Append(s, e) \in Seq(S) /\ ToSet(Append(s, e)) = ToSet(s) \cup {e}
<1>1. /\ Append(s, e) \in Seq(S) /\ DOMAIN s = 1 .. Len(s) /\ Len(s) \in Nat
      /\ DOMAIN Append(s, e) = 1 .. Len(s) + 1
      /\ \A i \in 1 .. Len(s) : Append(s, e)[i] = s[i]
      /\ Append(s, e)[Len(s) + 1] = e
  BY AppendProperties, LenProperties
<1> QED
  BY <1>1 DEF ToSet

LEMMA ToSetOfThree ==
  ASSUME NEW S, NEW A \in Seq(S), NEW B \in Seq(S), NEW C \in Seq(S)
  PROVE  ToSet(A \o B \o C) = ToSet(A) \cup ToSet(B) \cup ToSet(C)
<1>1. A \o B \in Seq(S)
  BY ConcatProperties
<1>2. ToSet(A \o B \o C) = ToSet(A \o B) \cup ToSet(C) /\ ToSet(A \o B) = ToSet(A) \cup ToSet(B)
  BY <1>1, ToSetOfConcat
<1> QED
  BY <1>2

\* A batch and what stays behind make up the queue.
LEMMA Split ==
  ASSUME NEW b \in Bots, queue[b] \in Seq(Events)
  PROVE  LET taken == [i \in Batched(b) |-> queue[b][i]]
             rest  == SubSeq(queue[b], Batch + 1, Len(queue[b]))
         IN  /\ taken \in Seq(Events) /\ rest \in Seq(Events) /\ taken \o rest = queue[b]
             /\ ToSet(taken) = {queue[b][i] : i \in Batched(b)}
<1> DEFINE q == queue[b]
           taken == [i \in Batched(b) |-> q[i]]
           rest  == SubSeq(q, Batch + 1, Len(q))
           n == IF Len(q) < Batch THEN Len(q) ELSE Batch
<1>1. Len(q) \in Nat /\ DOMAIN q = 1 .. Len(q) /\ \A i \in 1 .. Len(q) : q[i] \in Events
  BY LenProperties, ElementOfSeq
<1>2. Batch \in Nat /\ n \in Nat /\ n <= Len(q) /\ Batched(b) = 1 .. n
  BY <1>1, BotsAssumption DEF Batched
<1>3. taken \in Seq(Events) /\ Len(taken) = n /\ \A i \in 1 .. n : taken[i] = q[i]
  BY <1>1, <1>2
<1>4. /\ rest \in Seq(Events)
      /\ Len(rest) = IF Batch + 1 <= Len(q) THEN Len(q) - Batch ELSE 0
      /\ \A i \in 1 .. Len(q) - Batch : rest[i] = q[Batch + i]
  <2>1. Batch + 1 \in Int /\ Len(q) \in Int /\ \A i \in Batch + 1 .. Len(q) : q[i] \in Events
    BY <1>1, <1>2
  <2>2. /\ rest \in Seq(Events)
        /\ Len(rest) = IF Batch + 1 <= Len(q) THEN Len(q) - (Batch + 1) + 1 ELSE 0
        /\ \A i \in 1 .. Len(q) - (Batch + 1) + 1 : rest[i] = q[Batch + 1 + i - 1]
    BY <2>1, SubSeqProperties
  <2> QED
    BY <1>1, <1>2, <2>2
<1>5. DOMAIN taken = Batched(b)
  OBVIOUS
<1>6. ToSet(taken) = {q[i] : i \in Batched(b)}
  BY <1>5 DEF ToSet
<1> HIDE DEF taken, rest
<1>7. Len(taken \o rest) = Len(q) /\ taken \o rest \in Seq(Events)
  <2>1. Len(taken) + Len(rest) = Len(q)
    <3>1. /\ Len(q) \in Nat /\ Batch \in Nat /\ Len(taken) \in Nat /\ Len(rest) \in Nat
          /\ Len(q) < Batch => Len(taken) = Len(q)
          /\ Len(q) >= Batch => Len(taken) = Batch
          /\ Len(q) <= Batch => Len(rest) = 0
          /\ Len(q) > Batch => Len(rest) = Len(q) - Batch
      BY <1>1, <1>2, <1>3, <1>4
    <3> QED
      BY <3>1
  <2> QED
    BY <1>3, <1>4, <2>1, ConcatProperties
<1>8. ASSUME NEW i \in 1 .. Len(q) PROVE (taken \o rest)[i] = q[i]
  <2>1. (taken \o rest)[i] = IF i <= n THEN taken[i] ELSE rest[i - n]
    BY <1>1, <1>3, <1>4, <1>7, ConcatProperties
  <2>2. CASE i <= n
    BY <1>2, <1>3, <2>1, <2>2
  <2>3. CASE i > n
    <3>1. n = Batch /\ i - n \in 1 .. Len(q) - Batch /\ Batch + (i - n) = i
      BY <1>1, <1>2, <2>3
    <3> QED
      BY <1>2, <1>4, <2>1, <2>3, <3>1
  <2> HIDE DEF n
  <2>4. i <= n \/ i > n
    BY <1>1, <1>2
  <2> QED
    BY <2>2, <2>3, <2>4
<1>9. taken \o rest = q
  BY <1>1, <1>7, <1>8, SeqEqual
<1> QED
  BY <1>3, <1>4, <1>6, <1>9 DEF taken, rest

LEMMA AppendLast ==
  ASSUME NEW S, NEW A \in Seq(S), NEW B \in Seq(S), NEW C \in Seq(S), NEW e \in S
  PROVE  A \o B \o Append(C, e) = Append(A \o B \o C, e)
<1>1. <<e>> \in Seq(S) /\ A \o B \in Seq(S) /\ A \o B \o C \in Seq(S)
  BY ConcatProperties
<1>2. Append(C, e) = C \o <<e>> /\ Append(A \o B \o C, e) = (A \o B \o C) \o <<e>>
  BY <1>1, AppendIsConcat
<1> QED
  BY <1>1, <1>2, ConcatAssociative

LEMMA MoveHead ==
  ASSUME NEW S, NEW A \in Seq(S), NEW B \in Seq(S), NEW C \in Seq(S), B # <<>>
  PROVE  /\ Append(A, Head(B)) \in Seq(S) /\ Tail(B) \in Seq(S)
         /\ Append(A, Head(B)) \o Tail(B) \o C = A \o B \o C
<1>1. Head(B) \in S /\ Tail(B) \in Seq(S) /\ <<Head(B)>> \in Seq(S)
  BY HeadTailProperties
<1>2. Append(A, Head(B)) \in Seq(S) /\ Append(A, Head(B)) = A \o <<Head(B)>>
  BY <1>1, AppendProperties, AppendIsConcat
<1>3. <<Head(B)>> \o Tail(B) = B
  <2>1. /\ <<Head(B)>> \o Tail(B) \in Seq(S) /\ Len(<<Head(B)>> \o Tail(B)) = Len(B)
        /\ \A i \in 1 .. Len(B) : (<<Head(B)>> \o Tail(B))[i] = B[i]
    BY <1>1, HeadTailProperties, ConcatProperties
  <2> QED
    BY <2>1, SeqEqual
<1>4. Append(A, Head(B)) \o Tail(B) = A \o B
  BY <1>1, <1>2, <1>3, ConcatAssociative
<1> QED
  BY <1>1, <1>2, <1>4
-------------------------------------------------------------------------------
Traffic == <<wire, done, queue, enq, lost>>

LEMMA QInit == Init => QInv
<1> SUFFICES ASSUME Init PROVE QInv
  OBVIOUS
<1>1. QTypeOK
  BY DEF Init, QTypeOK, Queues
<1>2. \A b \in Bots : wire[b] = <<>> /\ done[b] = <<>> /\ queue[b] = <<>> /\ enq[b] = <<>> /\ lost[b] = {}
  BY DEF Init
<1>3. ToSet(<<>>) = {} /\ <<>> \o <<>> = <<>> /\ DOMAIN <<>> = {}
  BY DEF ToSet
<1>4. CallOnce /\ Sound
  BY <1>2, <1>3 DEF Init, CallOnce, Sound
<1>5. EventsKept
  BY <1>2, <1>3 DEF EventsKept, Placed
<1> QED
  BY <1>1, <1>4, <1>5 DEF QInv

\* What leaves the events where they are.
LEMMA Quiet ==
  ASSUME QInv, UNCHANGED Traffic, CallOnce', \A b \in Bots : sdk[b] = "up" => sdk'[b] = "up"
  PROVE  QInv'
<1>1. QTypeOK' /\ Sound'
  BY DEF QInv, QTypeOK, Sound, Traffic
<1>2. EventsKept'
  BY DEF QInv, EventsKept, Traffic
<1> QED
  BY <1>1, <1>2 DEF QInv

LEMMA SameCalls == ASSUME QInv, UNCHANGED <<calls, published, enq>> PROVE CallOnce'
BY DEF QInv, CallOnce

LEMMA CallSteps ==
  ASSUME BInv, QInv, (\E e \in Events : Publish(e)) \/ \E k \in calls : Match(k) \/ Help(k)
  PROVE  QInv'
<1>0. calls \subseteq Calls /\ (\A k \in calls : k.e \in published) /\ CallOnce
  BY DEF BInv, BTypeOK, Inv, QInv
<1>1. UNCHANGED Traffic /\ UNCHANGED sdk
  BY DEF Publish, Match, Help, Traffic, program
<1>2. ASSUME NEW e \in Events, Publish(e) PROVE CallOnce'
  <2>1. UNCHANGED enq /\ e \notin published /\ published' = published \cup {e}
        /\ calls' = calls \cup {[at |-> "match", e |-> e, to |-> {}]}
    BY <1>2 DEF Publish
  <2> DEFINE r == [at |-> "match", e |-> e, to |-> {}]
  <2>2. r.e = e /\ calls' = calls \cup {r}
    BY <2>1
  <2> HIDE DEF r
  <2>3. \A j, k \in calls' : j.e = k.e => j = k
    BY <1>0, <2>1, <2>2 DEF CallOnce
  <2>4. ASSUME NEW b \in Bots, NEW x \in ToSet(enq'[b])
        PROVE  x \in published' /\ \A k \in calls' : k.e = x => k.at = "help"
    BY <1>0, <2>1, <2>2, <2>4 DEF CallOnce
  <2> QED
    BY <2>3, <2>4 DEF CallOnce
<1>3. ASSUME NEW k \in calls, Match(k) PROVE CallOnce'
  <2>1. PICK bs : /\ calls' = (calls \ {k}) \cup {[k EXCEPT !.at = "enqueue", !.to = bs]}
                  /\ k.at = "match" /\ UNCHANGED <<enq, published>>
    BY <1>3 DEF Match
  <2> DEFINE r == [k EXCEPT !.at = "enqueue", !.to = bs]
  <2>2. r.e = k.e /\ calls' = (calls \ {k}) \cup {r}
    BY <1>0, <2>1 DEF Calls
  <2> HIDE DEF r
  <2> QED
    BY <1>0, <2>1, <2>2 DEF CallOnce
<1>4. ASSUME NEW k \in calls, Help(k) PROVE CallOnce'
  <2>1. calls' = calls \ {k} /\ UNCHANGED <<enq, published>>
    BY <1>4 DEF Help
  <2> QED
    BY <1>0, <2>1 DEF CallOnce
<1> QED
  BY <1>1, <1>2, <1>3, <1>4, Quiet

\* What is put in a queue goes behind everything still on its way.
LEMMA PutLast ==
  ASSUME NEW S, NEW A \in Seq(S), NEW B \in Seq(S), NEW C \in Seq(S), NEW E \in Seq(S), NEW X, NEW e \in S,
         e \notin X, e \notin ToSet(E), Placed(A \o B \o C, E, X)
  PROVE  /\ Append(C, e) \in Seq(S) /\ Append(E, e) \in Seq(S) /\ ToSet(Append(E, e)) = ToSet(E) \cup {e}
         /\ Placed(A \o B \o Append(C, e), Append(E, e), X)
<1>1. Append(C, e) \in Seq(S) /\ Append(E, e) \in Seq(S) /\ A \o B \o C \in Seq(S) /\ <<e>> \in Seq(S)
  BY AppendProperties, ConcatProperties
<1>2. Placed(Append(A \o B \o C, e), Append(E, e), X)
  BY <1>1, PlacedPut
<1>3. A \o B \o Append(C, e) = Append(A \o B \o C, e)
  BY AppendLast
<1>4. ToSet(Append(E, e)) = ToSet(E) \cup {e}
  BY ToSetOfAppend
<1> QED
  BY <1>1, <1>2, <1>3, <1>4

\* What a ghost takes from the front of the queue is lost, and nothing else is.
LEMMA GhostTakes ==
  ASSUME NEW H \in Seq(Events), NEW T \in Seq(Events), NEW R \in Seq(Events), NEW E \in Seq(Events), NEW X,
         X \subseteq ToSet(E), Placed(H \o (T \o R), E, X)
  PROVE  Placed(H \o R, E, X \cup ToSet(T)) /\ X \cup ToSet(T) \subseteq ToSet(E)
<1>1. H \o (T \o R) = H \o T \o R
  BY ConcatAssociative
<1>2. Placed(H \o T \o R, E, X)
  BY <1>1
<1>3. ToSet(T) \subseteq ToSet(E)
  BY <1>2, ToSetOfThree DEF Placed
<1> QED
  BY <1>2, <1>3, PlacedCut

LEMMA Regroup ==
  ASSUME NEW A \in Seq(Events), NEW B \in Seq(Events), NEW C \in Seq(Events)
  PROVE  A \o B \o C = A \o (B \o C)
  BY ConcatAssociative

LEMMA Joined == ASSUME NEW A \in Seq(Events), NEW B \in Seq(Events) PROVE A \o B \in Seq(Events)
  BY ConcatProperties

LEMMA WithoutEmpty == ASSUME NEW A \in Seq(Events) PROVE A \o <<>> = A
  BY ConcatEmptySeq

\* What was dispatched, what is on the wire and what is queued, in one line.
InLine(A, B, C, E, X) == Placed(A \o B \o C, E, X) /\ X \subseteq ToSet(E)

\* What the connection carried is lost when it breaks, and nothing else is.
LEMMA WireLost ==
  ASSUME NEW A \in Seq(Events), NEW B \in Seq(Events), NEW C \in Seq(Events), NEW E \in Seq(Events), NEW X,
         InLine(A, B, C, E, X)
  PROVE  InLine(A, <<>>, C, E, X \cup ToSet(B))
<1>1. ToSet(B) \subseteq ToSet(E)
  BY ToSetOfThree DEF InLine, Placed
<1>2. Placed(A \o C, E, X \cup ToSet(B))
  BY PlacedCut DEF InLine
<1>3. A \o <<>> = A
  BY WithoutEmpty
<1> QED
  BY <1>1, <1>2, <1>3 DEF InLine

\* With the process its queue is lost too.
LEMMA AllLost ==
  ASSUME NEW A \in Seq(Events), NEW B \in Seq(Events), NEW C \in Seq(Events), NEW E \in Seq(Events), NEW X,
         InLine(A, B, C, E, X)
  PROVE  InLine(A, <<>>, <<>>, E, X \cup ToSet(C) \cup ToSet(B))
<1>1. <<>> \in Seq(Events) /\ B \o C \in Seq(Events) /\ ToSet(B \o C) = ToSet(C) \cup ToSet(B)
  BY ConcatProperties, ToSetOfConcat
<1>2. A \o B \o C = A \o (B \o C) \o <<>> /\ A \o <<>> = A
  <2>1. A \o B \o C = A \o (B \o C) /\ A \o (B \o C) \in Seq(Events)
    BY <1>1, Regroup, Joined
  <2> QED
    BY <1>1, <2>1, WithoutEmpty
<1>3. ToSet(B \o C) \subseteq ToSet(E)
  BY <1>1, ToSetOfThree DEF InLine, Placed
<1>4. Placed(A \o <<>>, E, X \cup ToSet(B \o C))
  BY <1>1, <1>2, PlacedCut DEF InLine
<1>5. X \cup ToSet(B \o C) = X \cup ToSet(C) \cup ToSet(B)
  BY <1>1
<1> QED
  BY <1>2, <1>3, <1>4, <1>5 DEF InLine
-------------------------------------------------------------------------------
LEMMA EnqueueStep ==
  ASSUME BInv, QInv, NEW k \in calls, Enqueue(k)
  PROVE  QInv'
<1>0. calls \subseteq Calls /\ (\A j \in calls : j.e \in published) /\ QTypeOK /\ CallOnce /\ Sound /\ EventsKept
  BY DEF BInv, BTypeOK, Inv, QInv
<1>1. PICK e \in Events : e = k.e
  BY <1>0 DEF Calls
<1>2. /\ k.at = "enqueue"
      /\ queue' = [b \in Bots |-> IF b \in k.to THEN Append(queue[b], e) ELSE queue[b]]
      /\ enq' = [b \in Bots |-> IF b \in k.to THEN Append(enq[b], e) ELSE enq[b]]
      /\ UNCHANGED <<wire, done, lost, sdk, published>>
  BY <1>1 DEF Enqueue, program
<1>3. \A b \in Bots : e \notin ToSet(enq[b]) /\ e \notin lost[b]
  BY <1>0, <1>1, <1>2 DEF CallOnce, Sound
<1>4. ASSUME NEW b \in Bots
      PROVE  /\ queue'[b] \in Seq(Events) /\ enq'[b] \in Seq(Events)
             /\ ToSet(enq[b]) \subseteq ToSet(enq'[b]) /\ \A x \in ToSet(enq'[b]) : x \in ToSet(enq[b]) \/ x = e
             /\ Placed(done'[b] \o wire'[b] \o queue'[b], enq'[b], lost'[b])
  <2>0. /\ done[b] \in Seq(Events) /\ wire[b] \in Seq(Events) /\ queue[b] \in Seq(Events) /\ enq[b] \in Seq(Events)
        /\ Placed(done[b] \o wire[b] \o queue[b], enq[b], lost[b])
    BY <1>0 DEF QTypeOK, Queues, EventsKept
  <2>1. CASE b \in k.to
    <3> DEFINE A == done[b]
               B == wire[b]
               C == queue[b]
               E == enq[b]
               X == lost[b]
    <3>1. /\ queue'[b] = Append(C, e) /\ enq'[b] = Append(E, e)
          /\ done'[b] = A /\ wire'[b] = B /\ lost'[b] = X
      BY <1>2, <2>1
    <3>2. /\ A \in Seq(Events) /\ B \in Seq(Events) /\ C \in Seq(Events) /\ E \in Seq(Events)
          /\ e \notin X /\ e \notin ToSet(E) /\ Placed(A \o B \o C, E, X)
      BY <1>3, <2>0
    <3> HIDE DEF A, B, C, E, X
    <3>3. /\ Append(C, e) \in Seq(Events) /\ Append(E, e) \in Seq(Events) /\ ToSet(Append(E, e)) = ToSet(E) \cup {e}
          /\ Placed(A \o B \o Append(C, e), Append(E, e), X)
      BY <3>2, PutLast
    <3> QED
      BY <3>1, <3>3 DEF E
  <2>2. CASE b \notin k.to
    BY <1>2, <2>0, <2>2
  <2> QED
    BY <2>1, <2>2
<1>5. QTypeOK'
  BY <1>0, <1>2, <1>4 DEF QTypeOK, Queues
<1>6. Sound' /\ EventsKept'
  BY <1>0, <1>2, <1>4 DEF Sound, EventsKept
<1>7. CallOnce'
  <2> DEFINE h == [k EXCEPT !.at = "help", !.to = {}]
  <2>0. h.e = e /\ h.at = "help"
    BY <1>0, <1>1 DEF Calls
  <2>1. \A r \in calls' : (r \in calls /\ r # k) \/ r = h
    BY DEF Enqueue
  <2> HIDE DEF h
  <2>2. \A r, s \in calls' : r.e = s.e => r = s
    BY <1>0, <1>1, <2>0, <2>1 DEF CallOnce
  <2>3. ASSUME NEW b \in Bots, NEW x \in ToSet(enq'[b])
        PROVE  x \in published' /\ \A r \in calls' : r.e = x => r.at = "help"
    <3>1. CASE x \in ToSet(enq[b])
      <4>1. x \in published /\ \A r \in calls : r.e = x => r.at = "help"
        BY <1>0, <3>1 DEF CallOnce
      <4> QED
        BY <1>2, <2>0, <2>1, <4>1
    <3>2. CASE x = e
      <4>1. e \in published /\ \A r \in calls : r.e = e => r = k
        BY <1>0, <1>1 DEF CallOnce
      <4> QED
        BY <1>2, <2>0, <2>1, <3>2, <4>1
    <3>3. x \in ToSet(enq[b]) \/ x = e
      BY <1>4, <2>3
    <3> QED
      BY <3>1, <3>2, <3>3
  <2> QED
    BY <2>2, <2>3 DEF CallOnce
<1> QED
  BY <1>5, <1>6, <1>7 DEF QInv
-------------------------------------------------------------------------------
\* The steps that touch what is under way for one bot.
LEMMA OneBot ==
  ASSUME QInv, QTypeOK', UNCHANGED <<calls, published, enq>>, NEW b \in Bots,
         \A d \in Bots \ {b} : /\ wire'[d] = wire[d] /\ done'[d] = done[d] /\ queue'[d] = queue[d]
                               /\ lost'[d] = lost[d] /\ sdk'[d] = sdk[d],
         Placed(done'[b] \o wire'[b] \o queue'[b], enq[b], lost'[b]),
         lost'[b] \subseteq ToSet(enq[b]), sdk'[b] # "up" => wire'[b] = <<>>
  PROVE  QInv'
<1>1. CallOnce'
  BY SameCalls
<1>2. Sound' /\ EventsKept'
  BY DEF QInv, Sound, EventsKept
<1> QED
  BY <1>1, <1>2 DEF QInv

LEMMA PollStep ==
  ASSUME BInv, QInv, NEW b \in Bots, NEW s \in {"sdk", "ghost"}, Poll(b, s)
  PROVE  QInv'
<1> DEFINE A == done[b]
           B == wire[b]
           T == [i \in Batched(b) |-> queue[b][i]]
           R == SubSeq(queue[b], Batch + 1, Len(queue[b]))
           E == enq[b]
           X == lost[b]
<1>0. QTypeOK /\ Sound /\ EventsKept /\ Inv
  BY DEF QInv, BInv
<1>1. /\ A \in Seq(Events) /\ B \in Seq(Events) /\ E \in Seq(Events) /\ queue[b] \in Seq(Events)
      /\ X \subseteq ToSet(E) /\ Placed(A \o B \o queue[b], E, X)
  BY <1>0 DEF QTypeOK, Queues, Sound, EventsKept
<1>2. T \in Seq(Events) /\ R \in Seq(Events) /\ T \o R = queue[b] /\ ToSet(T) = {queue[b][i] : i \in Batched(b)}
  BY <1>1, Split
<1>3. /\ s \in link[b] /\ queue' = [queue EXCEPT ![b] = R]
      /\ s = "sdk" => wire' = [wire EXCEPT ![b] = B \o T] /\ UNCHANGED lost
      /\ s = "ghost" => lost' = [lost EXCEPT ![b] = X \cup ToSet(T)] /\ UNCHANGED wire
      /\ UNCHANGED <<done, enq, sdk, calls, published>>
  BY <1>2 DEF Poll
<1>4. queue' \in Queues /\ done' \in Queues /\ enq' \in Queues /\ queue'[b] = R /\ done'[b] = A
  BY <1>0, <1>2, <1>3 DEF QTypeOK, Queues
<1>5. Placed(A \o B \o (T \o R), E, X)
  BY <1>1, <1>2
<1>6. CASE s = "sdk"
  <2>1. sdk[b] = "up"
    BY <1>0, <1>3, <1>6 DEF Inv
  <2>2. wire'[b] = B \o T /\ lost'[b] = X
    BY <1>0, <1>3, <1>6 DEF QTypeOK, Queues
  <2>3. QTypeOK'
    <3>1. B \o T \in Seq(Events)
      BY <1>1, <1>2, ConcatProperties
    <3> QED
      BY <1>0, <1>3, <1>4, <1>6, <3>1 DEF QTypeOK, Queues
  <2>4. \A d \in Bots \ {b} : /\ wire'[d] = wire[d] /\ done'[d] = done[d] /\ queue'[d] = queue[d]
                              /\ lost'[d] = lost[d] /\ sdk'[d] = sdk[d]
    BY <1>0, <1>3, <1>6 DEF QTypeOK, Queues
  <2> HIDE DEF A, B, T, R, E, X
  <2>5. A \o (B \o T) \o R = A \o B \o (T \o R)
    <3>0. A \in Seq(Events) /\ B \in Seq(Events) /\ T \in Seq(Events) /\ R \in Seq(Events)
      BY <1>1, <1>2
    <3>1. A \o B \in Seq(Events) /\ A \o (B \o T) = A \o B \o T
      BY <3>0, Joined, Regroup
    <3>2. A \o B \o T \o R = A \o B \o (T \o R)
      BY <3>0, <3>1, Regroup
    <3> QED
      BY <3>1, <3>2
  <2>6. Placed(done'[b] \o wire'[b] \o queue'[b], E, lost'[b]) /\ lost'[b] \subseteq ToSet(E)
    BY <1>1, <1>4, <1>5, <2>2, <2>5
  <2>7. sdk'[b] = "up" /\ UNCHANGED <<calls, published, enq>>
    BY <1>3, <2>1
  <2> QED
    BY <2>3, <2>4, <2>6, <2>7, OneBot DEF E
<1>7. CASE s = "ghost"
  <2>1. sdk'[b] # "up" => wire'[b] = <<>>
    BY <1>0, <1>3, <1>7 DEF Sound
  <2>2. wire'[b] = B /\ lost'[b] = X \cup ToSet(T)
    BY <1>0, <1>3, <1>7 DEF QTypeOK, Queues
  <2>4. \A d \in Bots \ {b} : /\ wire'[d] = wire[d] /\ done'[d] = done[d] /\ queue'[d] = queue[d]
                              /\ lost'[d] = lost[d] /\ sdk'[d] = sdk[d]
    BY <1>0, <1>3, <1>7 DEF QTypeOK, Queues
  <2>5. ToSet(T) \subseteq Events
    BY <1>2, ElementOfSeq DEF ToSet
  <2>3. QTypeOK'
    BY <1>0, <1>3, <1>4, <1>7, <2>5 DEF QTypeOK, Queues
  <2> HIDE DEF A, B, T, R, E, X
  <2>6. Placed(A \o B \o R, E, X \cup ToSet(T)) /\ X \cup ToSet(T) \subseteq ToSet(E)
    <3> DEFINE H == A \o B
    <3>0. T \in Seq(Events) /\ R \in Seq(Events) /\ E \in Seq(Events) /\ X \subseteq ToSet(E)
      BY <1>1, <1>2
    <3>1. H \in Seq(Events) /\ Placed(H \o (T \o R), E, X)
      BY <1>1, <1>5, ConcatProperties
    <3> HIDE DEF H
    <3>2. Placed(H \o R, E, X \cup ToSet(T)) /\ X \cup ToSet(T) \subseteq ToSet(E)
      BY <3>0, <3>1, GhostTakes
    <3> QED
      BY <3>2 DEF H
  <2>7. Placed(done'[b] \o wire'[b] \o queue'[b], E, lost'[b]) /\ lost'[b] \subseteq ToSet(E)
    BY <1>4, <2>2, <2>6
  <2>8. UNCHANGED <<calls, published, enq>>
    BY <1>3
  <2> QED
    BY <2>1, <2>3, <2>4, <2>7, <2>8, OneBot DEF E
<1> QED
  BY <1>6, <1>7

LEMMA DispatchStep ==
  ASSUME QInv, NEW b \in Bots, Dispatch(b)
  PROVE  QInv'
<1> DEFINE A == done[b]
           B == wire[b]
           C == queue[b]
<1>0. QTypeOK /\ Sound /\ EventsKept
  BY DEF QInv
<1>1. /\ A \in Seq(Events) /\ B \in Seq(Events) /\ C \in Seq(Events) /\ B # <<>>
      /\ lost[b] \subseteq ToSet(enq[b]) /\ Placed(A \o B \o C, enq[b], lost[b])
  BY <1>0 DEF QTypeOK, Queues, Sound, EventsKept, Dispatch
<1>2. /\ wire' = [wire EXCEPT ![b] = Tail(B)] /\ done' = [done EXCEPT ![b] = Append(A, Head(B))]
      /\ UNCHANGED <<queue, enq, lost, sdk, calls, published>> /\ sdk[b] = "up"
  BY DEF Dispatch
<1>3. wire'[b] = Tail(B) /\ done'[b] = Append(A, Head(B)) /\ queue'[b] = C /\ lost'[b] = lost[b]
  BY <1>0, <1>2 DEF QTypeOK, Queues
<1>4. /\ Append(A, Head(B)) \in Seq(Events) /\ Tail(B) \in Seq(Events)
      /\ Append(A, Head(B)) \o Tail(B) \o C = A \o B \o C
  <2> HIDE DEF A, B, C
  <2> QED
    BY <1>1, MoveHead
<1>5. QTypeOK'
  BY <1>0, <1>2, <1>4 DEF QTypeOK, Queues
<1>6. \A d \in Bots \ {b} : /\ wire'[d] = wire[d] /\ done'[d] = done[d] /\ queue'[d] = queue[d]
                            /\ lost'[d] = lost[d] /\ sdk'[d] = sdk[d]
  BY <1>0, <1>2 DEF QTypeOK, Queues
<1> HIDE DEF A, B, C
<1>7. Placed(done'[b] \o wire'[b] \o queue'[b], enq[b], lost'[b])
  BY <1>1, <1>3, <1>4
<1>8. sdk'[b] = "up" /\ UNCHANGED <<calls, published, enq>> /\ lost'[b] \subseteq ToSet(enq[b])
  BY <1>1, <1>2
<1> QED
  BY <1>5, <1>6, <1>7, <1>8, OneBot

LEMMA DownStep ==
  ASSUME BInv, QInv, NEW b \in Bots, Break(b) \/ Disconnect(b)
  PROVE  QInv'
<1> DEFINE A == done[b]
           B == wire[b]
           C == queue[b]
           E == enq[b]
           X == lost[b]
<1>0. QTypeOK /\ Sound /\ EventsKept /\ sdk \in [Bots -> Steps]
  BY DEF QInv, BInv, BTypeOK
<1>1. /\ A \in Seq(Events) /\ B \in Seq(Events) /\ C \in Seq(Events) /\ E \in Seq(Events)
      /\ X \subseteq ToSet(E) /\ Placed(A \o B \o C, E, X)
  BY <1>0 DEF QTypeOK, Queues, Sound, EventsKept
<1>2. lost' = [lost EXCEPT ![b] = X \cup ToSet(B)] /\ UNCHANGED <<done, queue, enq, calls, published>>
  BY DEF Break, Disconnect
<1>3. wire' = [wire EXCEPT ![b] = <<>>] /\ sdk'[b] # "up" /\ \A d \in Bots \ {b} : sdk'[d] = sdk[d]
  <2>1. CASE sdk[b] = "up"
    <3>1. Down({b})
      BY <2>1 DEF Break, Disconnect
    <3> QED
      BY <1>0, <3>1 DEF Down, QTypeOK, Queues
  <2>2. CASE sdk[b] # "up"
    BY <1>0, <2>2 DEF Break, Disconnect, QTypeOK, Queues, Sound
  <2> QED
    BY <2>1, <2>2
<1>4. wire'[b] = <<>> /\ done'[b] = A /\ queue'[b] = C /\ lost'[b] = X \cup ToSet(B)
  BY <1>0, <1>2, <1>3 DEF QTypeOK, Queues
<1>5. ToSet(B) \subseteq Events
  BY <1>1, ElementOfSeq DEF ToSet
<1>6. QTypeOK'
  BY <1>0, <1>2, <1>3, <1>5 DEF QTypeOK, Queues
<1>7. \A d \in Bots \ {b} : /\ wire'[d] = wire[d] /\ done'[d] = done[d] /\ queue'[d] = queue[d]
                            /\ lost'[d] = lost[d] /\ sdk'[d] = sdk[d]
  BY <1>0, <1>2, <1>3 DEF QTypeOK, Queues
<1>8. UNCHANGED <<calls, published, enq>>
  BY <1>2
<1> HIDE DEF A, B, C, E, X
<1>9. InLine(A, B, C, E, X)
  BY <1>1 DEF InLine
<1>10. InLine(A, <<>>, C, E, X \cup ToSet(B))
  <2>1. A \in Seq(Events) /\ B \in Seq(Events) /\ C \in Seq(Events) /\ E \in Seq(Events)
    BY <1>1
  <2> QED
    BY <1>9, <2>1, WireLost
<1>11. Placed(done'[b] \o wire'[b] \o queue'[b], E, lost'[b]) /\ lost'[b] \subseteq ToSet(E)
  BY <1>4, <1>10 DEF InLine
<1> QED
  BY <1>4, <1>6, <1>7, <1>8, <1>11, OneBot DEF E

LEMMA CrashStep ==
  ASSUME BInv, QInv, Crash
  PROVE  QInv'
<1>0. QTypeOK /\ Sound /\ EventsKept /\ CallOnce
  BY DEF QInv
<1>1. /\ wire' = [b \in Bots |-> <<>>] /\ queue' = [b \in Bots |-> <<>>]
      /\ lost' = [b \in Bots |-> lost[b] \cup ToSet(queue[b]) \cup ToSet(wire[b])]
      /\ calls' = {} /\ UNCHANGED <<done, enq, published>>
  <2>1. Down({b \in Bots : sdk[b] = "up"})
    BY DEF Crash
  <2>2. wire' = [b \in Bots |-> <<>>]
    BY <1>0, <2>1 DEF Down, Sound
  <2> QED
    BY <2>2 DEF Crash
<1>2. ASSUME NEW b \in Bots
      PROVE  /\ Placed(done[b] \o <<>> \o <<>>, enq[b], lost'[b]) /\ lost'[b] \subseteq ToSet(enq[b])
             /\ lost'[b] \subseteq Events
  <2> DEFINE A == done[b]
             B == wire[b]
             C == queue[b]
             E == enq[b]
             X == lost[b]
  <2>1. /\ A \in Seq(Events) /\ B \in Seq(Events) /\ C \in Seq(Events) /\ E \in Seq(Events)
        /\ X \subseteq ToSet(E) /\ Placed(A \o B \o C, E, X) /\ lost'[b] = X \cup ToSet(C) \cup ToSet(B)
    BY <1>0, <1>1 DEF QTypeOK, Queues, Sound, EventsKept
  <2>2. ToSet(E) \subseteq Events
    BY <2>1, ElementOfSeq DEF ToSet
  <2> HIDE DEF A, B, C, E, X
  <2>3. InLine(A, B, C, E, X)
    BY <2>1 DEF InLine
  <2>4. InLine(A, <<>>, <<>>, E, X \cup ToSet(C) \cup ToSet(B))
    <3>1. A \in Seq(Events) /\ B \in Seq(Events) /\ C \in Seq(Events) /\ E \in Seq(Events)
      BY <2>1
    <3> QED
      BY <2>3, <3>1, AllLost
  <2>5. Placed(A \o <<>> \o <<>>, E, lost'[b]) /\ lost'[b] \subseteq ToSet(E) /\ lost'[b] \subseteq Events
    BY <2>1, <2>2, <2>4 DEF InLine
  <2> QED
    BY <2>5 DEF A, E
<1>3. QTypeOK'
  <2>1. <<>> \in Seq(Events)
    BY EmptySeq
  <2>2. wire' \in Queues /\ queue' \in Queues /\ done' \in Queues /\ enq' \in Queues
    BY <1>0, <1>1, <2>1 DEF QTypeOK, Queues
  <2>3. lost' \in [Bots -> SUBSET Events]
    <3>1. \A b \in Bots : lost'[b] \subseteq Events
      BY <1>2
    <3> QED
      BY <1>1, <3>1
  <2> QED
    BY <2>2, <2>3 DEF QTypeOK
<1>4. Sound' /\ EventsKept'
  BY <1>1, <1>2 DEF Sound, EventsKept
<1>5. CallOnce'
  BY <1>0, <1>1 DEF CallOnce
<1> QED
  BY <1>3, <1>4, <1>5 DEF QInv

LEMMA QKept == BInv /\ QInv /\ [Next]_vars => QInv'
<1> SUFFICES ASSUME BInv, QInv, [Next]_vars PROVE QInv'
  OBVIOUS
<1>1. CASE (\E e \in Events : Publish(e)) \/ \E k \in calls : Match(k) \/ Help(k)
  BY <1>1, CallSteps
<1>2. ASSUME NEW k \in calls, Enqueue(k) PROVE QInv'
  BY <1>2, EnqueueStep
<1>3. ASSUME NEW b \in Bots, NEW s \in {"sdk", "ghost"}, Poll(b, s) PROVE QInv'
  BY <1>3, PollStep
<1>4. ASSUME NEW b \in Bots, Dispatch(b) PROVE QInv'
  BY <1>4, DispatchStep
<1>5. ASSUME NEW b \in Bots, Break(b) \/ Disconnect(b) PROVE QInv'
  BY <1>5, DownStep
<1>6. CASE Crash
  BY <1>6, CrashStep
<1>7. ASSUME NEW b \in Bots, Start(b) \/ Dial(b) \/ Refuse(b) \/ Redial(b) PROVE QInv'
  <2>1. UNCHANGED Traffic /\ UNCHANGED <<calls, published, enq>>
    BY <1>7 DEF Start, Dial, Refuse, Redial, Traffic
  <2>2. \A d \in Bots : sdk[d] = "up" => sdk'[d] = "up"
    BY <1>7 DEF Start, Dial, Refuse, Redial, BInv, BTypeOK
  <2> QED
    BY <2>1, <2>2, Quiet, SameCalls
<1>8. ASSUME \/ \E b \in Bots :
                  \/ Install(b) \/ GhostEnds(b)
                  \/ \E c \in Channels : AddToChannel(b, c) \/ RemoveFromChannel(b, c)
                  \/ \E k \in Kinds : Subscribe(b, k) \/ Unsubscribe(b, k)
             \/ \E p \in posts : CheckWrite(p) \/ StoreAnswer(p)
             \/ Boot \/ UNCHANGED vars
      PROVE  QInv'
  <2>1. UNCHANGED Traffic /\ UNCHANGED <<calls, published, enq, sdk>>
    BY <1>8 DEF Install, GhostEnds, AddToChannel, RemoveFromChannel, Subscribe, Unsubscribe,
                CheckWrite, StoreAnswer, Boot, vars, program, Traffic
  <2> QED
    BY <2>1, Quiet, SameCalls
<1> QED
  BY <1>1, <1>2, <1>3, <1>4, <1>5, <1>6, <1>7, <1>8 DEF Next

\* service.ts:160-177, socket.ts:142-155: for any number of bots, channels and
\* events and any size of the batch, every event put in a bot's queue is, in the
\* order it was put there, still queued, on the wire or dispatched, or was lost
\* with a connection or the process, and none is there twice.
THEOREM EventsStay == Spec => []EventsKept
<1>1. Init => BInv /\ QInv
  BY BInitOk, QInit
<1>2. (BInv /\ QInv) /\ [Next]_vars => (BInv /\ QInv)'
  BY BKept, QKept
<1>3. BInv /\ QInv => EventsKept
  BY DEF QInv
<1> QED
  BY <1>1, <1>2, <1>3, PTL DEF Spec
===============================================================================
