------------------------------ MODULE SignalProofs ------------------------------
(* Both sides of the Signal exchange.  On the server (PreKeys), one-time keys are *)
(* handed out once, for any number of keys, pages and requests.  Between the web  *)
(* pages (Sealing), for any users, messages and identities: who can read what was *)
(* sealed.  A key is between the two it was derived for, which keeps everybody    *)
(* else out; as long as neither loses an identity both derive the same one.       *)
EXTENDS PreKeys, Sealing, TLAPS
-------------------------------------------------------------------------------
(* Pre-keys *)

\* What the pre-key server guarantees; inductive.
Safe == Inv /\ TakenIsUsed /\ FetchedOnce /\ TakenOnceInMemory

LEMMA InitSafe == PInit => Safe
<1> SUFFICES ASSUME PInit PROVE Safe
  OBVIOUS
<1>1. TypeOK
  <2>1. Idle \in Request
    BY DEF Idle, Request
  <2>2. NoKeys \in [KeyIds -> [of : OptIdentity, used : BOOLEAN]]
    BY DEF NoKeys, OptIdentity
  <2>3. Never \in [KeyIds -> 0..2]
    BY DEF Never
  <2>4. QED
    BY <2>1, <2>2, <2>3 DEF PInit, TypeOK, OptIdentity
<1>2. PickedIsHeld /\ UploadHolds /\ LocksAreHeld /\ AtomicInMemory
  BY DEF PInit, PickedIsHeld, UploadHolds, LocksAreHeld, AtomicInMemory, Idle
<1>3. TakenIsUsed /\ FetchedOnce /\ TakenOnceInMemory
  BY DEF PInit, TakenIsUsed, FetchedOnce, TakenOnceInMemory, Never
<1>4. QED
  BY <1>1, <1>2, <1>3 DEF Safe, Inv

-----------------------------------------------------------------------------
(* Requests that move on without touching rows or locks *)

\* A request that takes a step between two statements keeps everything, provided
\* it neither leaves nor enters a state in which it holds locks.
LEMMA Moves ==
  ASSUME Safe, NEW s \in Slots, NEW r \in Request, Become(s, r),
         r.pc \notin {"commit", "uploaded"}, req[s].pc \notin {"commit", "uploaded"},
         backend = "memory" => r.pc \in {"idle", "sent"},
         UNCHANGED <<backend, identity, bundleOf, key, locked, history>>
  PROVE  Safe'
<1>1. req' \in [Slots -> Request] /\ req'[s] = r /\ \A t \in Slots \ {s} : req'[t] = req[t]
  BY DEF Safe, Inv, TypeOK, Become
<1>2. TypeOK'
  BY <1>1 DEF Safe, Inv, TypeOK, history
<1>3. PickedIsHeld' /\ UploadHolds'
  BY <1>1 DEF Safe, Inv, PickedIsHeld, UploadHolds, Free
<1>4. LocksAreHeld'
  BY <1>1 DEF Safe, Inv, LocksAreHeld, TypeOK
<1>5. AtomicInMemory'
  BY <1>1 DEF Safe, Inv, AtomicInMemory
<1>6. TakenIsUsed' /\ FetchedOnce' /\ TakenOnceInMemory'
  BY DEF Safe, TakenIsUsed, FetchedOnce, TakenOnceInMemory, history
<1>7. QED
  BY <1>2, <1>3, <1>4, <1>5, <1>6 DEF Safe, Inv

LEMMA PostStep == ASSUME Safe, NEW s \in Slots, PostBundle(s) PROVE Safe'
<1>1. [pc |-> "sent", of |-> identity] \in Request
  BY DEF PostBundle, Safe, Inv, TypeOK, OptIdentity, Request
<1>2. QED
  BY <1>1, Moves DEF PostBundle, Idle

LEMMA UploadBundleStep == ASSUME Safe, NEW s \in Slots, UploadBundle(s) PROVE Safe'
<1>1. [req[s] EXCEPT !.pc = "upload"] \in Request /\ [req[s] EXCEPT !.pc = "upload"].pc = "upload"
  BY DEF UploadBundle, Safe, Inv, TypeOK, Request
<1>2. QED
  BY <1>1, Moves DEF UploadBundle

LEMMA FetchBundleStep == ASSUME Safe, NEW s \in Slots, FetchBundle(s) PROVE Safe'
<1>1. [pc |-> "pick", of |-> bundleOf] \in Request
  BY DEF FetchBundle, Safe, Inv, TypeOK, OptIdentity, Request
<1>2. QED
  BY <1>1, Moves DEF FetchBundle, Idle

LEMMA ConsumeSelectStep ==
  ASSUME Safe, NEW s \in Slots, NEW k \in KeyIds, ConsumeSelect(s, k) PROVE Safe'
<1>1. [pc |-> "update", k |-> k] \in Request
  BY DEF Request
<1>2. QED
  BY <1>1, Moves DEF ConsumeSelect, Idle

LEMMA LoadPageStep == ASSUME Safe, NEW i \in Identities, LoadPage(i) PROVE Safe'
<1>1. TypeOK'
  BY DEF LoadPage, Safe, Inv, TypeOK, OptIdentity, history
<1>2. PickedIsHeld' /\ UploadHolds' /\ LocksAreHeld' /\ AtomicInMemory'
  BY DEF LoadPage, Safe, Inv, PickedIsHeld, UploadHolds, LocksAreHeld, AtomicInMemory, Free
<1>3. TakenIsUsed' /\ FetchedOnce' /\ TakenOnceInMemory'
  BY DEF LoadPage, Safe, TakenIsUsed, FetchedOnce, TakenOnceInMemory, history
<1>4. QED
  BY <1>1, <1>2, <1>3 DEF Safe, Inv

-----------------------------------------------------------------------------
(* Locks *)

LEMMA PickStep == ASSUME Safe, NEW s \in Slots, Pick(s) PROVE Safe'
<1>1. CASE Pickable = {} /\ Become(s, Idle) /\ UNCHANGED locked
  <2>1. Idle \in Request /\ Idle.pc = "idle"
    BY DEF Idle, Request
  <2>2. QED
    BY <1>1, <2>1, Moves DEF Pick
<1>2. ASSUME NEW k \in Pickable, locked' = [locked EXCEPT ![k] = s],
             Become(s, [pc |-> "commit", of |-> req[s].of, k |-> k])
      PROVE  Safe'
  <2>1. k \in KeyIds /\ Free(k) /\ locked[k] = Absent
    BY <1>2 DEF Pickable
  <2>2. [pc |-> "commit", of |-> req[s].of, k |-> k] \in Request
    BY <2>1 DEF Pick, Safe, Inv, TypeOK, Request
  <2>3. /\ req' \in [Slots -> Request]
        /\ req'[s] = [pc |-> "commit", of |-> req[s].of, k |-> k]
        /\ \A t \in Slots \ {s} : req'[t] = req[t]
    BY <1>2, <2>2 DEF Safe, Inv, TypeOK, Become
  <2>4. /\ locked' \in [KeyIds -> Slots \cup {Absent}]
        /\ locked'[k] = s
        /\ \A j \in KeyIds \ {k} : locked'[j] = locked[j]
    BY <1>2, <2>1 DEF Safe, Inv, TypeOK
  <2>5. TypeOK'
    BY <2>3, <2>4 DEF Pick, Safe, Inv, TypeOK, history
  <2>6. \A t \in Slots : req[t].pc = "commit" => req[t].k # k
    BY <2>1, ConstantsAssumption DEF Safe, Inv, PickedIsHeld
  <2>7. PickedIsHeld'
    <3>1. SUFFICES ASSUME NEW t \in Slots, req'[t].pc = "commit"
                   PROVE  locked'[req'[t].k] = t /\ Free(req[t].k)'
      BY DEF PickedIsHeld
    <3>a. UNCHANGED key
      BY DEF Pick
    <3>2. CASE t = s
      BY <2>1, <2>3, <2>4, <3>2, <3>a DEF Free
    <3>3. CASE t # s
      <4>1. req[t].pc = "commit" /\ req'[t] = req[t] /\ req[t].k \in KeyIds
        BY <2>3, <3>1, <3>3 DEF Safe, Inv, TypeOK, Request
      <4>2. QED
        BY <2>4, <2>6, <3>a, <4>1 DEF Safe, Inv, PickedIsHeld, Free
    <3>4. QED
      BY <3>2, <3>3
  <2>8. UploadHolds'
    BY <2>1, <2>3, ConstantsAssumption DEF Safe, Inv, UploadHolds
  <2>9. LocksAreHeld'
    <3>1. SUFFICES ASSUME NEW j \in KeyIds, locked'[j] # Absent
                   PROVE  \/ req'[locked'[j]].pc = "uploaded"
                          \/ req'[locked'[j]].pc = "commit" /\ req'[locked'[j]].k = j
      BY DEF LocksAreHeld
    <3>2. CASE j = k
      BY <2>3, <2>4, <3>2
    <3>3. CASE j # k
      BY <2>3, <2>4, <3>1, <3>3 DEF Pick, Safe, Inv, LocksAreHeld, TypeOK
    <3>4. QED
      BY <3>2, <3>3
  <2>10. AtomicInMemory'
    BY <2>3 DEF Pick, Safe, Inv, AtomicInMemory
  <2>11. TakenIsUsed' /\ FetchedOnce' /\ TakenOnceInMemory'
    BY DEF Pick, Safe, TakenIsUsed, FetchedOnce, TakenOnceInMemory, history
  <2>12. QED
    BY <2>5, <2>7, <2>8, <2>9, <2>10, <2>11 DEF Safe, Inv
<1>3. QED
  BY <1>1, <1>2 DEF Pick

LEMMA UploadKeysStep == ASSUME Safe, NEW s \in Slots, UploadKeys(s) PROVE Safe'
<1>1. [req[s] EXCEPT !.pc = "uploaded"] \in Request
  BY DEF UploadKeys, Safe, Inv, TypeOK, Request
<1>2. /\ req' \in [Slots -> Request]
      /\ req'[s].pc = "uploaded"
      /\ \A t \in Slots \ {s} : req'[t] = req[t]
  BY <1>1 DEF UploadKeys, Safe, Inv, TypeOK, Become, Request
<1>3. \A k \in KeyIds : locked[k] = Absent /\ locked'[k] = s
  BY DEF UploadKeys
<1>4. TypeOK'
  BY <1>2 DEF UploadKeys, Safe, Inv, TypeOK, history
<1>5. \A t \in Slots : req[t].pc # "commit"
  BY <1>3, ConstantsAssumption DEF Safe, Inv, PickedIsHeld, TypeOK, Request
<1>6. PickedIsHeld'
  BY <1>2, <1>5 DEF PickedIsHeld
<1>7. UploadHolds'
  BY <1>2, <1>3, ConstantsAssumption DEF Safe, Inv, UploadHolds
<1>8. LocksAreHeld'
  BY <1>2, <1>3 DEF LocksAreHeld
<1>9. AtomicInMemory'
  BY <1>2 DEF UploadKeys, Safe, Inv, AtomicInMemory
<1>10. TakenIsUsed' /\ FetchedOnce' /\ TakenOnceInMemory'
  BY DEF UploadKeys, Safe, TakenIsUsed, FetchedOnce, TakenOnceInMemory, history
<1>11. QED
  BY <1>4, <1>6, <1>7, <1>8, <1>9, <1>10 DEF Safe, Inv
-----------------------------------------------------------------------------
(* Rows *)

\* Fresh rows have been taken by nobody.
LEMMA Stores ==
  ASSUME Safe, NEW i \in Identities, Store(i)
  PROVE  /\ key' \in [KeyIds -> [of : OptIdentity, used : BOOLEAN]]
         /\ bundleOf' \in OptIdentity
         /\ fetches' \in [KeyIds -> 0..2] /\ grants' \in [KeyIds -> 0..2]
         /\ given' \subseteq KeyIds \X Identities
         /\ TakenIsUsed' /\ FetchedOnce' /\ TakenOnceInMemory'
<1>1. key' \in [KeyIds -> [of : OptIdentity, used : BOOLEAN]] /\ bundleOf' \in OptIdentity
  BY DEF Store, Activated, OptIdentity
<1>2. \A k \in KeyIds : fetches'[k] = 0 /\ grants'[k] = 0
  BY DEF Store, Never
<1>3. fetches' \in [KeyIds -> 0..2] /\ grants' \in [KeyIds -> 0..2]
  BY DEF Store, Never
<1>4. given' \subseteq KeyIds \X Identities
  BY DEF Store, Safe, Inv, TypeOK
<1>5. TakenIsUsed' /\ FetchedOnce' /\ TakenOnceInMemory'
  BY <1>2 DEF TakenIsUsed, FetchedOnce, TakenOnceInMemory
<1>6. QED
  BY <1>1, <1>3, <1>4, <1>5

\* Marking a row; one more fetch or grant is counted only where the row was free.
LEMMA Marks ==
  ASSUME Safe, NEW k \in KeyIds, Use(k)
  PROVE  /\ key' \in [KeyIds -> [of : OptIdentity, used : BOOLEAN]]
         /\ key'[k].used
         /\ \A j \in KeyIds \ {k} : key'[j] = key[j]
  BY DEF Safe, Inv, TypeOK, Use

LEMMA Gives ==
  ASSUME Safe, NEW k \in KeyIds, Free(k), Use(k), Given(k), UNCHANGED backend
  PROVE  /\ fetches' \in [KeyIds -> 0..2] /\ grants' \in [KeyIds -> 0..2]
         /\ given' \subseteq KeyIds \X Identities
         /\ TakenIsUsed' /\ FetchedOnce' /\ TakenOnceInMemory'
<1>1. fetches[k] = 0 /\ grants[k] = 0
  BY DEF Safe, Inv, TypeOK, TakenIsUsed, Free
<1>2. /\ fetches' \in [KeyIds -> 0..2] /\ fetches'[k] = 1
      /\ \A j \in KeyIds \ {k} : fetches'[j] = fetches[j]
  BY <1>1 DEF Safe, Inv, TypeOK, Given, Count
<1>3. grants' = grants /\ grants \in [KeyIds -> 0..2]
  BY DEF Safe, Inv, TypeOK, Given
<1>4. given' \subseteq KeyIds \X Identities
  BY DEF Safe, Inv, TypeOK, Given, Free, OptIdentity
<1>5. TakenIsUsed'
  BY <1>2, <1>3, Marks DEF Safe, TakenIsUsed
<1>6. FetchedOnce' /\ TakenOnceInMemory'
  BY <1>1, <1>2, <1>3 DEF Safe, FetchedOnce, TakenOnceInMemory
<1>7. QED
  BY <1>2, <1>3, <1>4, <1>5, <1>6

LEMMA UploadInMemoryStep == ASSUME Safe, NEW s \in Slots, UploadInMemory(s) PROVE Safe'
<1>1. req[s].of \in Identities /\ Idle \in Request /\ Idle.pc = "idle"
  BY DEF UploadInMemory, Safe, Inv, TypeOK, Request, Idle
<1>2. /\ req' \in [Slots -> Request] /\ req'[s] = Idle
      /\ \A t \in Slots \ {s} : req'[t] = req[t]
  BY <1>1 DEF UploadInMemory, Safe, Inv, TypeOK, Become
<1>3. TypeOK' /\ TakenIsUsed' /\ FetchedOnce' /\ TakenOnceInMemory'
  BY <1>1, <1>2, Stores DEF UploadInMemory, Safe, Inv, TypeOK
<1>4. \A t \in Slots : req'[t].pc \in {"idle", "sent"}
  BY <1>1, <1>2 DEF UploadInMemory, Safe, Inv, AtomicInMemory
<1>5. PickedIsHeld' /\ UploadHolds' /\ AtomicInMemory'
  BY <1>4 DEF PickedIsHeld, UploadHolds, AtomicInMemory
<1>6. LocksAreHeld'
  BY <1>4 DEF UploadInMemory, Safe, Inv, LocksAreHeld, AtomicInMemory, TypeOK
<1>7. QED
  BY <1>3, <1>5, <1>6 DEF Safe, Inv

LEMMA UploadCommitStep == ASSUME Safe, NEW s \in Slots, UploadCommit(s) PROVE Safe'
<1>1. req[s].of \in Identities /\ Idle \in Request /\ Idle.pc = "idle"
  BY DEF UploadCommit, Safe, Inv, TypeOK, Request, Idle
<1>2. /\ req' \in [Slots -> Request] /\ req'[s] = Idle
      /\ \A t \in Slots \ {s} : req'[t] = req[t]
  BY <1>1 DEF UploadCommit, Safe, Inv, TypeOK, Become
<1>3. /\ locked' \in [KeyIds -> Slots \cup {Absent}]
      /\ \A k \in KeyIds : locked[k] = s /\ locked'[k] = Absent
  BY DEF UploadCommit, Safe, Inv, UploadHolds
<1>4. TypeOK' /\ TakenIsUsed' /\ FetchedOnce' /\ TakenOnceInMemory'
  BY <1>1, <1>2, <1>3, Stores DEF UploadCommit, Safe, Inv, TypeOK
<1>5. \A t \in Slots : req'[t].pc # "commit"
  <2>1. SUFFICES ASSUME NEW t \in Slots, req[t].pc = "commit", t # s PROVE FALSE
    BY <1>1, <1>2
  <2>2. req[t].k \in KeyIds
    BY <2>1 DEF Safe, Inv, TypeOK, Request
  <2>3. QED
    BY <1>3, <2>1, <2>2 DEF Safe, Inv, PickedIsHeld
<1>6. PickedIsHeld' /\ LocksAreHeld'
  BY <1>3, <1>5 DEF PickedIsHeld, LocksAreHeld
<1>7. UploadHolds'
  <2>1. SUFFICES ASSUME NEW t \in Slots, req[t].pc = "uploaded", t # s, NEW k \in KeyIds
                 PROVE  FALSE
    BY <1>1, <1>2 DEF UploadHolds
  <2>2. QED
    BY <1>3, <2>1 DEF Safe, Inv, UploadHolds
<1>8. AtomicInMemory'
  BY <1>1, <1>2 DEF UploadCommit, Safe, Inv, AtomicInMemory
<1>9. QED
  BY <1>4, <1>6, <1>7, <1>8 DEF Safe, Inv

LEMMA FetchInMemoryStep == ASSUME Safe, FetchInMemory PROVE Safe'
<1>1. PICK k \in KeyIds : Free(k) /\ Use(k) /\ Given(k)
  BY DEF FetchInMemory
<1>2. TypeOK' /\ TakenIsUsed' /\ FetchedOnce' /\ TakenOnceInMemory'
  BY <1>1, Marks, Gives DEF FetchInMemory, Safe, Inv, TypeOK
<1>3. PickedIsHeld' /\ UploadHolds' /\ LocksAreHeld' /\ AtomicInMemory'
  BY DEF FetchInMemory, Safe, Inv, PickedIsHeld, UploadHolds, LocksAreHeld, AtomicInMemory
<1>4. QED
  BY <1>2, <1>3 DEF Safe, Inv

LEMMA FetchCommitStep == ASSUME Safe, NEW s \in Slots, FetchCommit(s) PROVE Safe'
<1>1. PICK k \in KeyIds : k = req[s].k
  BY DEF FetchCommit, Safe, Inv, TypeOK, Request
<1>2. Free(k) /\ locked[k] = s /\ Use(k) /\ Given(k) /\ UNCHANGED backend
  BY <1>1 DEF FetchCommit, Safe, Inv, PickedIsHeld
<1>3. Idle \in Request /\ Idle.pc = "idle"
  BY DEF Idle, Request
<1>4. /\ req' \in [Slots -> Request] /\ req'[s] = Idle
      /\ \A t \in Slots \ {s} : req'[t] = req[t]
  BY <1>3 DEF FetchCommit, Safe, Inv, TypeOK, Become
<1>5. /\ locked' \in [KeyIds -> Slots \cup {Absent}] /\ locked'[k] = Absent
      /\ \A j \in KeyIds \ {k} : locked'[j] = locked[j]
  BY <1>1 DEF FetchCommit, Unlocked, Safe, Inv, TypeOK
<1>6. TypeOK' /\ TakenIsUsed' /\ FetchedOnce' /\ TakenOnceInMemory'
  BY <1>2, <1>4, <1>5, Marks, Gives DEF FetchCommit, Safe, Inv, TypeOK
<1>7. PickedIsHeld'
  <2>1. SUFFICES ASSUME NEW t \in Slots, t # s, req[t].pc = "commit"
                 PROVE  /\ locked'[req[t].k] = t
                        /\ key'[req[t].k].of # Absent /\ ~ key'[req[t].k].used
    BY <1>3, <1>4 DEF PickedIsHeld, Free
  <2>2. req[t].k \in KeyIds /\ locked[req[t].k] = t /\ Free(req[t].k)
    BY <2>1 DEF Safe, Inv, TypeOK, Request, PickedIsHeld
  <2>3. req[t].k # k
    BY <1>2, <2>1, <2>2
  <2>4. key'[req[t].k] = key[req[t].k]
    BY <1>2, <2>2, <2>3, Marks
  <2>5. QED
    BY <1>5, <2>2, <2>3, <2>4 DEF Free
<1>8. UploadHolds'
  <2>1. SUFFICES ASSUME NEW t \in Slots, t # s, req[t].pc = "uploaded", NEW j \in KeyIds
                 PROVE  FALSE
    BY <1>3, <1>4 DEF UploadHolds
  <2>2. QED
    BY <1>2, <2>1 DEF Safe, Inv, UploadHolds
<1>9. LocksAreHeld'
  <2>1. SUFFICES ASSUME NEW j \in KeyIds, locked'[j] # Absent
                 PROVE  \/ req'[locked'[j]].pc = "uploaded"
                        \/ req'[locked'[j]].pc = "commit" /\ req'[locked'[j]].k = j
    BY DEF LocksAreHeld
  <2>2. j # k /\ locked'[j] = locked[j] /\ locked[j] \in Slots
    BY <1>5, <2>1 DEF Safe, Inv, TypeOK
  <2>3. \/ req[locked[j]].pc = "uploaded"
        \/ req[locked[j]].pc = "commit" /\ req[locked[j]].k = j
    BY <2>1, <2>2 DEF Safe, Inv, LocksAreHeld
  <2>4. locked[j] # s
    BY <1>1, <2>2, <2>3 DEF FetchCommit
  <2>5. QED
    BY <1>4, <2>2, <2>3, <2>4
<1>10. AtomicInMemory'
  BY <1>3, <1>4 DEF FetchCommit, Safe, Inv, AtomicInMemory
<1>11. QED
  BY <1>6, <1>7, <1>8, <1>9, <1>10 DEF Safe, Inv

LEMMA ConsumeInMemoryStep == ASSUME Safe, NEW k \in KeyIds, ConsumeInMemory(k) PROVE Safe'
<1>1. Use(k) /\ Free(k)
  BY DEF ConsumeInMemory, UseInMemory
<1>2. fetches[k] = 0 /\ grants[k] = 0
  BY <1>1 DEF Safe, Inv, TypeOK, TakenIsUsed, Free
<1>3. /\ grants' \in [KeyIds -> 0..2] /\ grants'[k] = 1
      /\ \A j \in KeyIds \ {k} : grants'[j] = grants[j]
  BY <1>2 DEF ConsumeInMemory, Granted, Count, Safe, Inv, TypeOK
<1>4. fetches' = fetches
  BY DEF ConsumeInMemory, Granted
<1>5. TypeOK'
  BY <1>1, <1>3, Marks DEF ConsumeInMemory, Granted, Safe, Inv, TypeOK
<1>6. TakenIsUsed' /\ FetchedOnce' /\ TakenOnceInMemory'
  BY <1>1, <1>2, <1>3, <1>4, Marks DEF ConsumeInMemory, Safe, TakenIsUsed, FetchedOnce, TakenOnceInMemory
<1>7. PickedIsHeld' /\ UploadHolds' /\ LocksAreHeld' /\ AtomicInMemory'
  BY DEF ConsumeInMemory, Safe, Inv, PickedIsHeld, UploadHolds, LocksAreHeld, AtomicInMemory
<1>8. QED
  BY <1>5, <1>6, <1>7 DEF Safe, Inv

LEMMA ConsumeUpdateStep == ASSUME Safe, NEW s \in Slots, ConsumeUpdate(s) PROVE Safe'
<1>1. PICK k \in KeyIds : k = req[s].k
  BY DEF ConsumeUpdate, Safe, Inv, TypeOK, Request
<1>2. Use(k) /\ (Free(k) => locked[k] = Absent) /\ backend # "memory" /\ UNCHANGED backend
  BY <1>1 DEF ConsumeUpdate, Safe, Inv, AtomicInMemory
<1>3. Idle \in Request /\ Idle.pc = "idle"
  BY DEF Idle, Request
<1>4. /\ req' \in [Slots -> Request] /\ req'[s] = Idle
      /\ \A t \in Slots \ {s} : req'[t] = req[t]
  BY <1>3 DEF ConsumeUpdate, Safe, Inv, TypeOK, Become
<1>5. /\ grants' \in [KeyIds -> 0..2] /\ fetches' = fetches
      /\ \A j \in KeyIds \ {k} : grants'[j] = grants[j]
  BY <1>1 DEF ConsumeUpdate, Granted, Count, Safe, Inv, TypeOK
<1>6. TypeOK'
  BY <1>2, <1>4, <1>5, Marks DEF ConsumeUpdate, Granted, Safe, Inv, TypeOK
<1>7. TakenIsUsed' /\ FetchedOnce' /\ TakenOnceInMemory'
  BY <1>2, <1>5, Marks DEF Safe, TakenIsUsed, FetchedOnce, TakenOnceInMemory
<1>8. PickedIsHeld'
  <2>1. SUFFICES ASSUME NEW t \in Slots, t # s, req[t].pc = "commit"
                 PROVE  /\ locked'[req[t].k] = t
                        /\ key'[req[t].k].of # Absent /\ ~ key'[req[t].k].used
    BY <1>3, <1>4 DEF PickedIsHeld, Free
  <2>2. req[t].k \in KeyIds /\ locked[req[t].k] = t /\ Free(req[t].k)
    BY <2>1 DEF Safe, Inv, TypeOK, Request, PickedIsHeld
  <2>3. req[t].k # k
    BY <1>2, <2>2, ConstantsAssumption
  <2>4. key'[req[t].k] = key[req[t].k]
    BY <1>2, <2>2, <2>3, Marks
  <2>5. QED
    BY <2>2, <2>4 DEF ConsumeUpdate, Free
<1>9. UploadHolds' /\ LocksAreHeld'
  <2>1. UploadHolds'
    BY <1>3, <1>4 DEF ConsumeUpdate, Safe, Inv, UploadHolds
  <2>2. LocksAreHeld'
    BY <1>3, <1>4 DEF ConsumeUpdate, Safe, Inv, LocksAreHeld, TypeOK
  <2>3. QED
    BY <2>1, <2>2
<1>10. AtomicInMemory'
  BY <1>2 DEF AtomicInMemory
<1>11. QED
  BY <1>6, <1>7, <1>8, <1>9, <1>10 DEF Safe, Inv

LEMMA RestartStep == ASSUME Safe, Restart PROVE Safe'
<1>1. Idle \in Request /\ Idle.pc = "idle" /\ \A s \in Slots : req'[s] = Idle
  BY DEF Idle, Request, Restart
<1>2. req' \in [Slots -> Request] /\ locked' \in [KeyIds -> Slots \cup {Absent}]
  BY <1>1 DEF Restart
<1>3. PickedIsHeld' /\ UploadHolds' /\ LocksAreHeld' /\ AtomicInMemory'
  BY <1>1 DEF Restart, PickedIsHeld, UploadHolds, LocksAreHeld, AtomicInMemory
<1>4. CASE UNCHANGED <<bundleOf, key, fetches, grants>>
  <2>1. TypeOK'
    BY <1>2, <1>4 DEF Restart, Safe, Inv, TypeOK
  <2>2. TakenIsUsed' /\ FetchedOnce' /\ TakenOnceInMemory'
    BY <1>4 DEF Restart, Safe, TakenIsUsed, FetchedOnce, TakenOnceInMemory
  <2>3. QED
    BY <1>3, <2>1, <2>2 DEF Safe, Inv
<1>5. CASE bundleOf' = Absent /\ key' = NoKeys /\ fetches' = Never /\ grants' = Never
  <2>1. key' \in [KeyIds -> [of : OptIdentity, used : BOOLEAN]] /\ bundleOf' \in OptIdentity
    BY <1>5 DEF NoKeys, OptIdentity
  <2>2. fetches' \in [KeyIds -> 0..2] /\ grants' \in [KeyIds -> 0..2]
    BY <1>5 DEF Never
  <2>3. TypeOK'
    BY <1>2, <2>1, <2>2 DEF Restart, Safe, Inv, TypeOK
  <2>4. \A k \in KeyIds : fetches'[k] = 0 /\ grants'[k] = 0
    BY <1>5 DEF Never
  <2>5. TakenIsUsed' /\ FetchedOnce' /\ TakenOnceInMemory'
    BY <2>4 DEF TakenIsUsed, FetchedOnce, TakenOnceInMemory
  <2>6. QED
    BY <1>3, <2>3, <2>5 DEF Safe, Inv
<1>6. QED
  BY <1>4, <1>5 DEF Restart

-----------------------------------------------------------------------------
LEMMA Stutter == ASSUME Safe, UNCHANGED pvars PROVE Safe'
<1>1. TypeOK' /\ PickedIsHeld' /\ UploadHolds' /\ LocksAreHeld' /\ AtomicInMemory'
  BY DEF Safe, Inv, TypeOK, PickedIsHeld, UploadHolds, LocksAreHeld, AtomicInMemory, Free, pvars
<1>2. TakenIsUsed' /\ FetchedOnce' /\ TakenOnceInMemory'
  BY DEF Safe, TakenIsUsed, FetchedOnce, TakenOnceInMemory, pvars
<1>3. QED
  BY <1>1, <1>2 DEF Safe, Inv

LEMMA NextSafe == Safe /\ [PNext]_pvars => Safe'
<1> SUFFICES ASSUME Safe, [PNext]_pvars PROVE Safe'
  OBVIOUS
<1>1. CASE \E i \in Identities : LoadPage(i)
  BY <1>1, LoadPageStep
<1>2. CASE FetchInMemory
  BY <1>2, FetchInMemoryStep
<1>3. CASE \E k \in KeyIds : ConsumeInMemory(k)
  BY <1>3, ConsumeInMemoryStep
<1>4. ASSUME NEW s \in Slots, Proceed(s) PROVE Safe'
  BY <1>4, UploadInMemoryStep, UploadBundleStep, UploadKeysStep, UploadCommitStep, PickStep,
     FetchCommitStep, ConsumeUpdateStep DEF Proceed
<1>5. CASE \E s \in Slots : PostBundle(s) \/ FetchBundle(s) \/ \E k \in KeyIds : ConsumeSelect(s, k)
  BY <1>5, PostStep, FetchBundleStep, ConsumeSelectStep
<1>6. CASE Restart
  BY <1>6, RestartStep
<1>7. CASE UNCHANGED pvars
  BY <1>7, Stutter
<1>8. QED
  BY <1>1, <1>2, <1>3, <1>4, <1>5, <1>6, <1>7 DEF PNext

\* Locks, transactions and rows agree in every state of both backends.
THEOREM Invariance == PSpec => []Inv
<1>1. Safe => Inv
  BY DEF Safe
<1>2. QED
  BY <1>1, InitSafe, NextSafe, PTL DEF PSpec

\* No two bundle fetches get the same activation of a one-time key, and a key that was
\* handed out stays marked until it is uploaded again.
THEOREM SingleFetch == PSpec => [](FetchedOnce /\ TakenIsUsed)
<1>1. Safe => FetchedOnce /\ TakenIsUsed
  BY DEF Safe
<1>2. QED
  BY <1>1, InitSafe, NextSafe, PTL DEF PSpec

\* In memory, fetches and consume calls together take a key once.
THEOREM SingleTake == PSpec => []TakenOnceInMemory
<1>1. Safe => TakenOnceInMemory
  BY DEF Safe
<1>2. QED
  BY <1>1, InitSafe, NextSafe, PTL DEF PSpec
-------------------------------------------------------------------------------
(* Sealing *)

Keys  == [of : Users \cup {None}, pair : SUBSET (Users \X Nat)]
Whys  == {"upload", "send", "read"}
Texts == {"none", "plain", "unable"}
Steps == {"making", "fetch", "served", "derived", "use"}
Tasks == [u : Users, why : Whys, m : Messages \cup {None}, at : Steps, n : Nat, key : Keys]

STypeOK ==
    /\ made \in [Users -> Nat] /\ id \in [Users -> Nat] /\ bundle \in [Users -> Nat]
    /\ posts \subseteq Users \X Nat
    /\ sess \in [Users -> [Users -> Keys]] /\ sealed \in [Messages -> Keys]
    /\ tasks \subseteq Tasks /\ stored \subseteq Messages
    /\ store \in [Users -> SUBSET Messages]
    /\ text \in [Users -> [Messages -> Texts]]

\* A run that encrypts or decrypts a message, one of the page for that message.
Crypts(t) == t.why \in {"send", "read"}
TasksOk ==
    /\ \A t \in tasks : IF t.why = "upload" THEN t.at = "making" ELSE t.m \in Messages
    /\ \A s, t \in tasks : Crypts(s) /\ Crypts(t) /\ s.u = t.u /\ s.m = t.m => s = t
    /\ \A t \in tasks : Crypts(t) /\ t.at # "making" => id[t.u] # 0

\* A message is sealed once, by its author, before anybody has it.
SealedOnce ==
    /\ \A t \in tasks : t.why = "send" => t.u = By[t.m] /\ sealed[t.m] = NoKey
    /\ \A t \in tasks : t.why = "read" => sealed[t.m] # NoKey /\ t.u \in Readers(t.m)
    /\ \A m \in stored : sealed[m] # NoKey
    /\ \A u \in Users : \A m \in store[u] : sealed[m] # NoKey /\ u \in Readers(m)
    /\ \A u \in Users : \A m \in Messages : text[u][m] # "none" => sealed[m] # NoKey

\* The keys that u derives for v, whatever identities and bundle he has found.
KeysOf(u, v) ==
    {k \in Keys : /\ \E i, n \in Nat : k.pair = {<<u, i>>, <<v, n>>}
                  /\ k.of \in {None, v}}
Derived ==
    /\ \A u, v \in Users : sess[u][v] # NoKey => sess[u][v] \in KeysOf(u, v)
    /\ \A t \in tasks : Crypts(t) /\ t.at \in {"derived", "use"} => t.key \in KeysOf(t.u, Peer(t))
    /\ \A m \in Messages : sealed[m] # NoKey => sealed[m] \in KeysOf(By[m], To[m])

SealInv == STypeOK /\ TasksOk /\ SealedOnce /\ Derived /\ SealedForOne

\* What two who have lost nothing hold for each other is of the identities they have.
Current(u, v) == [of |-> None, pair |-> {<<u, id[u]>>, <<v, id[v]>>}]
Fits(k, u, v) == id[u] # 0 /\ id[v] # 0 /\ k = Current(u, v)
Agree(u, v) ==
    /\ sess[u][v] # NoKey => Fits(sess[u][v], u, v)
    /\ \A m \in Messages : Between(m, u, v) => Fits(sealed[m], u, v)
    /\ \A t \in tasks : t.u = u /\ Crypts(t) /\ Peer(t) = v =>
         /\ t.at = "served" => id[v] # 0 /\ t.n = id[v]
         /\ t.at \in {"derived", "use"} => Fits(t.key, u, v)
AllAgree == \A u, v \in Users : u # v /\ {u, v} \notin shaken => Agree(u, v)
Unmade   == \A u \in Users : id[u] = 0 => \A v \in Users : sess[u][v] = NoKey

AgreeInv == AllAgree /\ Unmade /\ ReadsWhatIsSent
-------------------------------------------------------------------------------
LEMMA NoKeyIs == NoKey \in Keys /\ \A u, v \in Users : NoKey \notin KeysOf(u, v)
<1>1. NoKey \in Keys
  BY DEF NoKey, Keys
<1>2. ASSUME NEW u \in Users, NEW v \in Users, NoKey \in KeysOf(u, v) PROVE FALSE
  <2>1. PICK i \in Nat, n \in Nat : NoKey.pair = {<<u, i>>, <<v, n>>}
    BY <1>2 DEF KeysOf
  <2> QED
    BY <2>1 DEF NoKey
<1> QED
  BY <1>1, <1>2

LEMMA KeyDerived ==
  ASSUME NEW u \in Users, NEW v \in Users, NEW n \in Nat, id \in [Users -> Nat]
  PROVE  Key(u, v, n) \in KeysOf(u, v)
<1>1. ASSUME NEW i \in Nat, NEW j \in Nat, NEW o \in {None, v}
      PROVE  [of |-> o, pair |-> {<<u, i>>, <<v, j>>}] \in KeysOf(u, v)
  <2>1. {<<u, i>>, <<v, j>>} \in SUBSET (Users \X Nat)
    OBVIOUS
  <2> QED
    BY <2>1 DEF KeysOf, Keys
<1> QED
  BY <1>1 DEF Key

\* A key that u has for the author a and a has for b: u is b, and unless b is a
\* himself the key is not one that was made up.
LEMMA OneReader ==
  ASSUME NEW u \in Users, NEW a \in Users, NEW b \in Users, NEW k \in KeysOf(u, a) \cap KeysOf(a, b)
  PROVE  u = b /\ (a # b => k.of = None)
<1>1. PICK i \in Nat, j \in Nat : k.pair = {<<u, i>>, <<a, j>>}
  BY DEF KeysOf
<1>2. PICK l \in Nat, n \in Nat : k.pair = {<<a, l>>, <<b, n>>}
  BY DEF KeysOf
<1>3. <<u, i>> \in {<<a, l>>, <<b, n>>} /\ <<b, n>> \in {<<u, i>>, <<a, j>>}
  BY <1>1, <1>2
<1>4. (u = a \/ u = b) /\ (b = u \/ b = a)
  BY <1>3
<1>5. k.of \in {None, a} /\ k.of \in {None, b}
  BY DEF KeysOf
<1> QED
  BY <1>4, <1>5

LEMMA SealInit == Init => SealInv
<1> SUFFICES ASSUME Init PROVE SealInv
  OBVIOUS
<1> USE NoKeyIs DEF Init
<1>1. STypeOK
  BY DEF STypeOK, Texts
<1>2. TasksOk /\ SealedOnce /\ Derived /\ SealedForOne
  BY DEF TasksOk, SealedOnce, Derived, SealedForOne
<1> QED
  BY <1>1, <1>2 DEF SealInv
-------------------------------------------------------------------------------
\* A run in progress: whose it is and for what message never changes.
LEMMA Peers ==
  ASSUME STypeOK, TasksOk, NEW t \in tasks, Crypts(t)
  PROVE  t.u \in Users /\ t.m \in Messages /\ Peer(t) \in Users
BY SealingAssumption DEF STypeOK, Tasks, TasksOk, Crypts, Peer

LEMMA NotUpload ==
  ASSUME STypeOK, TasksOk, NEW t \in tasks, t.at # "making" \/ t.why # "upload"
  PROVE  Crypts(t) /\ t.m \in Messages
BY DEF STypeOK, Tasks, Whys, TasksOk, Crypts

LEMMA TaskTypes ==
  ASSUME NEW t \in Tasks, NEW at \in Steps, NEW n \in Nat, NEW k \in Keys
  PROVE  /\ [t EXCEPT !.at = at] \in Tasks
         /\ [t EXCEPT !.at = at, !.n = n] \in Tasks
         /\ [t EXCEPT !.at = at, !.key = k] \in Tasks
         /\ [t EXCEPT !.at = at, !.key = k, !.n = n] \in Tasks
BY DEF Tasks

LEMMA TextTypes ==
  ASSUME NEW f \in [Users -> [Messages -> Texts]], NEW u \in Users, NEW m \in Messages, NEW x \in Texts
  PROVE  [f EXCEPT ![u][m] = x] \in [Users -> [Messages -> Texts]]
<1>1. [f[u] EXCEPT ![m] = x] \in [Messages -> Texts]
  OBVIOUS
<1> QED
  BY <1>1

LEMMA TextSet ==
  ASSUME STypeOK, NEW a \in Users, NEW b \in Messages, NEW x \in Texts, text' = [text EXCEPT ![a][b] = x]
  PROVE  \A u \in Users, m \in Messages : text'[u][m] = IF u = a /\ m = b THEN x ELSE text[u][m]
<1>1. \A u \in Users : text'[u] = IF u = a THEN [text[a] EXCEPT ![b] = x] ELSE text[u]
  BY DEF STypeOK
<1>2. text[a] \in [Messages -> Texts]
  BY DEF STypeOK
<1> QED
  BY <1>1, <1>2

LEMMA TypeKept == SealInv /\ [Next]_vars => STypeOK'
<1> SUFFICES ASSUME SealInv, [Next]_vars PROVE STypeOK'
  OBVIOUS
<1>0. STypeOK /\ TasksOk /\ Derived
  BY DEF SealInv
<1> USE DEF STypeOK, Steps
<1>1. ASSUME NEW u \in Users, Load(u) PROVE STypeOK'
  BY <1>0, <1>1, NoKeyIs DEF Load, Uploading, Task, Tasks, Whys, Texts
<1>2. ASSUME NEW u \in Users, Refresh(u) PROVE STypeOK'
  BY <1>0, <1>2 DEF Refresh
<1>3. ASSUME NEW t \in tasks, Made(t) PROVE STypeOK'
  <2> DEFINE u == t.u
             n == made[u] + 1
             t2 == IF sess[u][Peer(t)] = NoKey THEN [t EXCEPT !.at = "fetch"]
                   ELSE [t EXCEPT !.at = "use", !.key = sess[u][Peer(t)]]
  <2>0. u \in Users /\ n \in Nat
    BY <1>0 DEF Tasks
  <2>1. made' \in [Users -> Nat] /\ id' \in [Users -> Nat] /\ posts' \subseteq Users \X Nat
    BY <1>0, <1>3, <2>0 DEF Made
  <2>2. tasks' \subseteq Tasks
    <3>1. CASE t.why = "upload"
      BY <1>0, <1>3, <3>1 DEF Made
    <3>2. CASE t.why # "upload"
      <4>1. tasks' = (tasks \ {t}) \cup {t2}
        BY <1>3, <3>2 DEF Made
      <4>2. Peer(t) \in Users
        BY <1>0, <3>2, NotUpload, Peers
      <4>3. sess[u][Peer(t)] \in Keys
        BY <1>0, <2>0, <4>2
      <4>4. /\ [t EXCEPT !.at = "fetch"] \in Tasks
            /\ [t EXCEPT !.at = "use", !.key = sess[u][Peer(t)]] \in Tasks
        BY <1>0, <4>3, TaskTypes
      <4> QED
        BY <1>0, <4>1, <4>4
    <3> QED
      BY <3>1, <3>2
  <2> QED
    BY <1>0, <1>3, <2>1, <2>2 DEF Made
<1>4. ASSUME NEW p \in posts, Post(p) PROVE STypeOK'
  BY <1>0, <1>4 DEF Post
<1>5. ASSUME NEW u \in Users, NEW m \in Messages, NEW why \in {"send", "read"}, Begin(u, m, why) PROVE STypeOK'
  <2> DEFINE t == Task(u, why, m, "fetch")
             t2 == IF id[u] = 0 THEN [t EXCEPT !.at = "making"]
                   ELSE IF sess[u][Peer(t)] = NoKey THEN t
                   ELSE [t EXCEPT !.at = "use", !.key = sess[u][Peer(t)]]
  <2>1. Peer(t) \in Users
    BY SealingAssumption DEF Peer, Task
  <2>2. t \in Tasks /\ sess[u][Peer(t)] \in Keys
    BY <1>0, <2>1, NoKeyIs DEF Task, Tasks, Whys
  <2>3. t2 \in Tasks
    BY <2>2, TaskTypes
  <2>4. tasks' = tasks \cup {t2}
    BY <1>5 DEF Begin
  <2> QED
    BY <1>0, <1>5, <2>3, <2>4 DEF Begin
<1>6. ASSUME NEW t \in tasks, Serve(t) PROVE STypeOK'
  <2>1. t.why # "upload"
    BY <1>0, <1>6 DEF TasksOk, Serve
  <2>2. Peer(t) \in Users
    BY <1>0, <2>1, NotUpload, Peers
  <2>3. PICK n \in {0, bundle[Peer(t)]} : tasks' = (tasks \ {t}) \cup {[t EXCEPT !.at = "served", !.n = n]}
    BY <1>6 DEF Serve
  <2>n. n \in Nat /\ t \in Tasks
    BY <1>0, <2>2
  <2>4. [t EXCEPT !.at = "served", !.n = n] \in Tasks
    BY <1>0, <2>n, NoKeyIs, TaskTypes
  <2> QED
    BY <1>0, <1>6, <2>3, <2>4 DEF Serve
<1>7. ASSUME NEW t \in tasks, Derive(t) PROVE STypeOK'
  <2>1. t.why # "upload" /\ t.n \in Nat /\ t.u \in Users
    BY <1>0, <1>7 DEF TasksOk, Derive, Tasks
  <2>2. Peer(t) \in Users
    BY <1>0, <2>1, NotUpload, Peers
  <2>3. Key(t.u, Peer(t), t.n) \in Keys
    BY <1>0, <2>1, <2>2, KeyDerived DEF KeysOf
  <2>4. [t EXCEPT !.at = "derived", !.key = Key(t.u, Peer(t), t.n), !.n = 0] \in Tasks
    BY <1>0, <2>3, TaskTypes
  <2> QED
    BY <1>0, <1>7, <2>4 DEF Derive
<1>8. ASSUME NEW t \in tasks, Keep(t) PROVE STypeOK'
  <2>1. t.why # "upload" /\ t.key \in Keys /\ t.u \in Users
    BY <1>0, <1>8 DEF TasksOk, Keep, Tasks
  <2>2. Peer(t) \in Users /\ [t EXCEPT !.at = "use"] \in Tasks
    BY <1>0, <2>1, NotUpload, Peers, TaskTypes
  <2>3. sess' \in [Users -> [Users -> Keys]]
    BY <1>0, <1>8, <2>1, <2>2 DEF Keep
  <2> QED
    BY <1>0, <1>8, <2>2, <2>3 DEF Keep
<1>9. ASSUME NEW t \in tasks, Relay(t) \/ SendP2p(t) PROVE STypeOK'
  <2>1. t.m \in Messages /\ t.key \in Keys /\ t.u \in Users
    BY <1>0, <1>9, NotUpload DEF Relay, SendP2p, Tasks
  <2>2. sealed' \in [Messages -> Keys] /\ tasks' \subseteq Tasks /\ stored' \subseteq Messages
    BY <1>0, <1>9, <2>1 DEF Relay, SendP2p
  <2>3. store' = [u \in Users |-> IF u \in Readers(t.m) THEN store[u] \cup {t.m} ELSE store[u]]
    BY <1>9 DEF Relay, SendP2p
  <2>4. store' \in [Users -> SUBSET Messages]
    BY <1>0, <2>1, <2>3
  <2>5. UNCHANGED text \/ text' = [text EXCEPT ![t.u][t.m] = "plain"]
    BY <1>9 DEF Relay, SendP2p
  <2>6. text' \in [Users -> [Messages -> Texts]]
    <3>1. text \in [Users -> [Messages -> Texts]] /\ "plain" \in Texts
      BY <1>0 DEF Texts
    <3>2. [text EXCEPT ![t.u][t.m] = "plain"] \in [Users -> [Messages -> Texts]]
      BY <2>1, <3>1, TextTypes
    <3> QED
      BY <2>5, <3>1, <3>2
  <2> QED
    BY <1>0, <1>9, <2>2, <2>4, <2>6 DEF Relay, SendP2p
<1>10. ASSUME NEW t \in tasks, Open(t) PROVE STypeOK'
  <2>1. t.m \in Messages /\ t.u \in Users
    BY <1>0, <1>10, NotUpload DEF Open, Tasks
  <2>2. \/ UNCHANGED text
        \/ \E x \in {"plain", "unable"} : text' = [text EXCEPT ![t.u][t.m] = x]
    BY <1>10 DEF Open
  <2>3. text' \in [Users -> [Messages -> Texts]]
    <3>1. text \in [Users -> [Messages -> Texts]] /\ {"plain", "unable"} \subseteq Texts
      BY <1>0 DEF Texts
    <3>2. \A x \in Texts : [text EXCEPT ![t.u][t.m] = x] \in [Users -> [Messages -> Texts]]
      BY <2>1, <3>1, TextTypes
    <3> QED
      BY <2>2, <3>1, <3>2
  <2> QED
    BY <1>0, <1>10, <2>3 DEF Open
<1>11. CASE UNCHANGED vars
  BY <1>0, <1>11 DEF vars
<1>12. ASSUME NEW u \in Users, NEW m \in Messages, Submit(m) \/ Decrypt(u, m) PROVE STypeOK'
  BY <1>5, <1>12, SealingAssumption DEF Submit, Decrypt
<1> HIDE DEF STypeOK
<1> QED
  BY <1>1, <1>2, <1>3, <1>4, <1>6, <1>7, <1>8, <1>9, <1>10, <1>11, <1>12, SealingAssumption DEF Next
-------------------------------------------------------------------------------
\* What a step does to the runs: one goes on, one ends, or one begins.
Same(r, t) == r.u = t.u /\ r.m = t.m /\ r.why = t.why
GoesOn(t, r) == Same(r, t) /\ r.at # "making" /\ tasks' = (tasks \ {t}) \cup {r}
Ends(t) == tasks' = tasks \ {t}
Begins(r) ==
    /\ Crypts(r) /\ r.m \in Messages /\ (r.at # "making" => id[r.u] # 0)
    /\ \A o \in tasks : o.u # r.u \/ o.m # r.m
    /\ tasks' = tasks \cup {r}

LEMMA MadeGoesOn ==
  ASSUME SealInv, NEW t \in tasks, Made(t), t.why # "upload"
  PROVE  \E r : /\ GoesOn(t, r)
                /\ \/ r.at = "fetch"
                   \/ r.at = "use" /\ r.key = sess[t.u][Peer(t)] /\ sess[t.u][Peer(t)] # NoKey
<1> DEFINE k == sess[t.u][Peer(t)]
           r == IF k = NoKey THEN [t EXCEPT !.at = "fetch"] ELSE [t EXCEPT !.at = "use", !.key = k]
<1>1. tasks' = (tasks \ {t}) \cup {r}
  BY DEF Made
<1>2. t \in Tasks
  BY DEF SealInv, STypeOK
<1>3. Same(r, t) /\ (r.at = "fetch" \/ (r.at = "use" /\ r.key = k /\ k # NoKey))
  BY <1>2 DEF Tasks, Same
<1> HIDE DEF r
<1> QED
  BY <1>1, <1>3 DEF GoesOn

LEMMA ServeGoesOn ==
  ASSUME SealInv, NEW t \in tasks, Serve(t)
  PROVE  /\ Crypts(t) /\ t.m \in Messages
         /\ \E n \in {0, bundle[Peer(t)]} : \E r :
              /\ GoesOn(t, r) /\ r.at = "served" /\ r.n = n
              /\ shaken' = IF n = 0 \/ n # id[Peer(t)] THEN Shake(t.u, {Peer(t)}) ELSE shaken
<1>0. t \in Tasks /\ Crypts(t) /\ t.m \in Messages
  BY NotUpload DEF SealInv, STypeOK, Serve
<1>1. PICK n \in {0, bundle[Peer(t)]} :
        /\ tasks' = (tasks \ {t}) \cup {[t EXCEPT !.at = "served", !.n = n]}
        /\ shaken' = IF n = 0 \/ n # id[Peer(t)] THEN Shake(t.u, {Peer(t)}) ELSE shaken
  BY DEF Serve
<1> DEFINE r == [t EXCEPT !.at = "served", !.n = n]
<1>2. Same(r, t) /\ r.at = "served" /\ r.n = n
  BY <1>0 DEF Tasks, Same
<1> HIDE DEF r
<1> QED
  BY <1>0, <1>1, <1>2 DEF GoesOn, r

LEMMA DeriveGoesOn ==
  ASSUME SealInv, NEW t \in tasks, Derive(t)
  PROVE  /\ Crypts(t) /\ t.m \in Messages
         /\ \E r : GoesOn(t, r) /\ r.at = "derived" /\ r.key = Key(t.u, Peer(t), t.n)
<1> DEFINE r == [t EXCEPT !.at = "derived", !.key = Key(t.u, Peer(t), t.n), !.n = 0]
<1>0. t \in Tasks /\ Crypts(t) /\ t.m \in Messages
  BY NotUpload DEF SealInv, STypeOK, Derive
<1>1. tasks' = (tasks \ {t}) \cup {r}
  BY DEF Derive
<1>2. Same(r, t) /\ r.at = "derived" /\ r.key = Key(t.u, Peer(t), t.n)
  BY <1>0 DEF Tasks, Same
<1> HIDE DEF r
<1> QED
  BY <1>0, <1>1, <1>2 DEF GoesOn

LEMMA KeepGoesOn ==
  ASSUME SealInv, NEW t \in tasks, Keep(t)
  PROVE  /\ Crypts(t) /\ t.m \in Messages
         /\ \E r : GoesOn(t, r) /\ r.at = "use" /\ r.key = t.key
<1> DEFINE r == [t EXCEPT !.at = "use"]
<1>0. t \in Tasks /\ Crypts(t) /\ t.m \in Messages
  BY NotUpload DEF SealInv, STypeOK, Keep
<1>1. tasks' = (tasks \ {t}) \cup {r}
  BY DEF Keep
<1>2. Same(r, t) /\ r.at = "use" /\ r.key = t.key
  BY <1>0 DEF Tasks, Same
<1> HIDE DEF r
<1> QED
  BY <1>0, <1>1, <1>2 DEF GoesOn

LEMMA BeginBegins ==
  ASSUME SealInv, NEW u \in Users, NEW m \in Messages, NEW w \in {"send", "read"}, Begin(u, m, w)
  PROVE  \E r : /\ Begins(r) /\ r.u = u /\ r.m = m /\ r.why = w
                /\ r.at \in {"making", "fetch", "use"}
                /\ r.at = "use" => r.key = sess[u][Peer(r)] /\ sess[u][Peer(r)] # NoKey
<1> DEFINE t == Task(u, w, m, "fetch")
           k == sess[u][Peer(t)]
           r == IF id[u] = 0 THEN [t EXCEPT !.at = "making"]
                ELSE IF k = NoKey THEN t ELSE [t EXCEPT !.at = "use", !.key = k]
<1>1. tasks' = tasks \cup {r} /\ \A o \in tasks : o.u # u \/ o.m # m
  BY DEF Begin
<1>2. t \in Tasks
  BY NoKeyIs DEF Task, Tasks, Whys, Steps
<1>3. Same(r, t) /\ r.at \in {"making", "fetch", "use"}
  BY <1>2 DEF Task, Tasks, Same
<1>4. /\ r.at # "making" => id[u] # 0
      /\ r.at = "use" => r.key = k /\ k # NoKey
  BY <1>2 DEF Tasks, Task
<1>5. t.u = u /\ t.m = m /\ t.why = w
  BY DEF Task
<1>6. Peer(r) = Peer(t)
  BY <1>3 DEF Peer, Same
<1> HIDE DEF t, r
<1> QED
  BY <1>1, <1>3, <1>4, <1>5, <1>6 DEF Begins, Crypts, Same

LEMMA EndsOf ==
  ASSUME NEW t \in tasks, (Made(t) /\ t.why = "upload") \/ Relay(t) \/ SendP2p(t) \/ Open(t)
  PROVE  Ends(t)
BY DEF Made, Relay, SendP2p, Open, Ends
-------------------------------------------------------------------------------
LEMMA TasksKept == SealInv /\ [Next]_vars => TasksOk'
<1> SUFFICES ASSUME SealInv, STypeOK', [Next]_vars PROVE TasksOk'
  BY TypeKept
<1>0. STypeOK /\ TasksOk
  BY DEF SealInv
<1> USE DEF TasksOk, Crypts
<1>1. ASSUME NEW t \in tasks, NEW r, GoesOn(t, r), Crypts(t), t.m \in Messages, UNCHANGED id, t.at # "making"
      PROVE  TasksOk'
  BY <1>0, <1>1 DEF GoesOn, Same
<1>2. ASSUME NEW t \in tasks, Ends(t), \A u \in Users : id[u] # 0 => id'[u] # 0 PROVE TasksOk'
  BY <1>0, <1>2 DEF Ends, STypeOK, Tasks
<1>3. ASSUME NEW r, Begins(r), UNCHANGED id PROVE TasksOk'
  BY <1>0, <1>3 DEF Begins
<1>4. ASSUME NEW u \in Users, Load(u) PROVE TasksOk'
  BY <1>0, <1>4 DEF Load, Uploading, Task, STypeOK
<1>5. CASE UNCHANGED <<tasks, id>>
  BY <1>0, <1>5
<1>6. ASSUME NEW t \in tasks, Made(t) PROVE TasksOk'
  <2>1. t.u \in Users /\ id' = [id EXCEPT ![t.u] = made[t.u] + 1] /\ made[t.u] + 1 # 0
    BY <1>0, <1>6 DEF Made, STypeOK, Tasks
  <2>2. \A u \in Users : id[u] # 0 => id'[u] # 0
    BY <1>0, <2>1 DEF STypeOK
  <2>3. CASE t.why = "upload"
    BY <1>2, <1>6, <2>2, <2>3, EndsOf
  <2>4. CASE t.why # "upload"
    <3>1. PICK r : GoesOn(t, r)
      BY <1>6, <2>4, MadeGoesOn
    <3>2. id'[t.u] # 0 /\ Crypts(t) /\ t.m \in Messages
      BY <1>0, <2>1, <2>4, NotUpload DEF STypeOK
    <3> QED
      <4> USE <3>1, <3>2 DEF GoesOn, Same
      <4>1. \A x \in tasks' : IF x.why = "upload" THEN x.at = "making" ELSE x.m \in Messages
        BY <1>0, <2>4
      <4>2. \A x, y \in tasks' : Crypts(x) /\ Crypts(y) /\ x.u = y.u /\ x.m = y.m => x = y
        BY <1>0, <2>4
      <4>3. \A x \in tasks' : Crypts(x) /\ x.at # "making" => id'[x.u] # 0
        BY <1>0, <2>2 DEF STypeOK, Tasks
      <4> QED
        BY <4>1, <4>2, <4>3
  <2> QED
    BY <2>3, <2>4
<1>7. ASSUME NEW t \in tasks, Serve(t) \/ Derive(t) \/ Keep(t) PROVE TasksOk'
  <2>1. UNCHANGED id /\ t.at # "making"
    BY <1>7 DEF Serve, Derive, Keep
  <2>2. Crypts(t) /\ t.m \in Messages /\ \E r : GoesOn(t, r)
    BY <1>7, ServeGoesOn, DeriveGoesOn, KeepGoesOn
  <2> QED
    BY <1>1, <2>1, <2>2
<1>8. ASSUME NEW t \in tasks, Relay(t) \/ SendP2p(t) \/ Open(t) PROVE TasksOk'
  <2>1. Ends(t) /\ UNCHANGED id
    BY <1>8, EndsOf DEF Relay, SendP2p, Open
  <2> QED
    BY <1>2, <2>1
<1>9. ASSUME NEW u \in Users, NEW m \in Messages, NEW why \in {"send", "read"}, Begin(u, m, why) PROVE TasksOk'
  <2>1. PICK r : Begins(r)
    BY <1>9, BeginBegins
  <2> QED
    BY <1>3, <1>9, <2>1 DEF Begin
<1>10. ASSUME NEW u \in Users, NEW m \in Messages, Submit(m) \/ Decrypt(u, m) PROVE TasksOk'
  BY <1>9, <1>10, SealingAssumption DEF Submit, Decrypt
<1> HIDE DEF TasksOk
<1> QED
  BY <1>4, <1>5, <1>6, <1>7, <1>8, <1>10, SealingAssumption DEF Next, Refresh, Post, vars
-------------------------------------------------------------------------------
\* What begins: the author's only attempt to send it, or a reader's to read it.
LEMMA SubmitBegins ==
  ASSUME SealInv, NEW u \in Users, NEW m \in Messages, Submit(m) \/ Decrypt(u, m)
  PROVE  \E r : /\ Begins(r) /\ r.m = m /\ r.u \in Users
                /\ \/ r.why = "send" /\ r.u = By[m] /\ sealed[m] = NoKey
                   \/ r.why = "read" /\ sealed[m] # NoKey /\ r.u \in Readers(m)
                /\ r.at \in {"making", "fetch", "use"}
                /\ r.at = "use" => r.key = sess[r.u][Peer(r)] /\ sess[r.u][Peer(r)] # NoKey
<1>1. CASE Submit(m)
  <2>1. By[m] \in Users /\ Begin(By[m], m, "send") /\ sealed[m] = NoKey
    BY <1>1, SealingAssumption DEF Submit
  <2> QED
    BY <2>1, BeginBegins
<1>2. CASE Decrypt(u, m)
  <2>1. Begin(u, m, "read") /\ sealed[m] # NoKey /\ u \in Readers(m)
    BY <1>2 DEF Decrypt, SealInv, SealedOnce
  <2> QED
    BY <2>1, BeginBegins
<1> QED
  BY <1>1, <1>2

\* A message is sealed with what its author holds for the peer.
LEMMA Seals ==
  ASSUME SealInv, NEW t \in tasks, Relay(t) \/ SendP2p(t)
  PROVE  /\ t.why = "send" /\ t.m \in Messages /\ t.u = By[t.m] /\ t.u \in Users
         /\ sealed[t.m] = NoKey /\ t.m \notin stored
         /\ t.key \in KeysOf(By[t.m], To[t.m]) /\ t.key # NoKey
         /\ sealed' = [sealed EXCEPT ![t.m] = t.key]
<1>1. t.why = "send" /\ t.m \in Messages /\ Crypts(t) /\ t.u \in Users /\ t.at = "use"
  BY NotUpload DEF Relay, SendP2p, SealInv, STypeOK, Tasks
<1>2. t.u = By[t.m] /\ sealed[t.m] = NoKey /\ t.m \notin stored
  BY <1>1 DEF SealInv, SealedOnce
<1>3. t.key \in KeysOf(By[t.m], To[t.m])
  BY <1>1, <1>2 DEF SealInv, Derived, Peer
<1> QED
  BY <1>1, <1>2, <1>3, NoKeyIs, SealingAssumption DEF Relay, SendP2p

LEMMA OnceKept == SealInv /\ [Next]_vars => SealedOnce'
<1> SUFFICES ASSUME SealInv, [Next]_vars PROVE SealedOnce'
  OBVIOUS
<1>0. STypeOK /\ TasksOk /\ SealedOnce
  BY DEF SealInv
<1> USE DEF SealedOnce
<1>1. ASSUME NEW t \in tasks, NEW r, GoesOn(t, r), UNCHANGED <<sealed, stored, store, text>>
      PROVE  SealedOnce'
  BY <1>0, <1>1 DEF GoesOn, Same, Readers
<1>2. ASSUME NEW t \in tasks, Ends(t), UNCHANGED <<sealed, stored, store>>,
             \A u \in Users, m \in Messages : text'[u][m] # "none" => text[u][m] # "none" \/ sealed[m] # NoKey
      PROVE  SealedOnce'
  BY <1>0, <1>2 DEF Ends, Readers
<1>3. ASSUME NEW u \in Users, Load(u) PROVE SealedOnce'
  <2>1. \A t \in tasks' : t.why \in {"send", "read"} => t \in tasks
    BY <1>3 DEF Load, Uploading, Task
  <2>2. UNCHANGED <<sealed, stored>>
    BY <1>3 DEF Load
  <2>3. \A v \in Users : \A m \in store'[v] : sealed[m] # NoKey /\ v \in Readers(m)
    BY <1>0, <1>3 DEF Load, STypeOK
  <2>4. \A v \in Users : \A m \in Messages : text'[v][m] # "none" => sealed[m] # NoKey
    BY <1>0, <1>3 DEF Load, STypeOK
  <2> QED
    BY <1>0, <2>1, <2>2, <2>3, <2>4 DEF Readers
<1>4. ASSUME NEW t \in tasks, Made(t) PROVE SealedOnce'
  <2>1. UNCHANGED <<sealed, stored, store, text>>
    BY <1>4 DEF Made
  <2> QED
    BY <1>1, <1>2, <1>4, <2>1, MadeGoesOn, EndsOf
<1>5. ASSUME NEW t \in tasks, Serve(t) \/ Derive(t) \/ Keep(t) PROVE SealedOnce'
  <2>1. UNCHANGED <<sealed, stored, store, text>>
    BY <1>5 DEF Serve, Derive, Keep
  <2> QED
    BY <1>1, <1>5, <2>1, ServeGoesOn, DeriveGoesOn, KeepGoesOn
<1>6. ASSUME NEW u \in Users, NEW m \in Messages, Submit(m) \/ Decrypt(u, m) PROVE SealedOnce'
  <2>1. PICK r : /\ Begins(r) /\ r.m = m
                 /\ \/ r.why = "send" /\ r.u = By[m] /\ sealed[m] = NoKey
                    \/ r.why = "read" /\ sealed[m] # NoKey /\ r.u \in Readers(m)
    BY <1>6, SubmitBegins
  <2>2. UNCHANGED <<sealed, stored, store, text>>
    BY <1>6 DEF Submit, Decrypt, Begin
  <2> QED
    BY <1>0, <2>1, <2>2 DEF Begins, Readers
<1>7. ASSUME NEW t \in tasks, Relay(t) \/ SendP2p(t) PROVE SealedOnce'
  <2>1. \A s \in tasks' : s \in tasks /\ s # t
    BY <1>7 DEF Relay, SendP2p
  <2>2. /\ t.why = "send" /\ t.m \in Messages /\ t.u = By[t.m] /\ t.u \in Users
        /\ sealed[t.m] = NoKey /\ t.key # NoKey
        /\ sealed' = [sealed EXCEPT ![t.m] = t.key]
    BY <1>7, Seals
  <2>3. \A m \in Messages : IF m = t.m THEN sealed'[m] # NoKey ELSE sealed'[m] = sealed[m]
    BY <1>0, <2>2 DEF STypeOK
  <2>4. \A s \in tasks' : s.why = "send" => s.u = By[s.m] /\ sealed'[s.m] = NoKey
    BY <1>0, <2>1, <2>2, <2>3 DEF TasksOk, Crypts
  <2>5. \A s \in tasks' : s.why = "read" => sealed'[s.m] # NoKey /\ s.u \in Readers(s.m)
    BY <1>0, <2>1, <2>2, <2>3 DEF TasksOk
  <2>6. \A m \in stored' : sealed'[m] # NoKey
    BY <1>0, <1>7, <2>2, <2>3 DEF STypeOK, Relay, SendP2p
  <2>7. \A u \in Users : \A m \in store'[u] : sealed'[m] # NoKey /\ u \in Readers(m)
    <3>1. \A u \in Users : store'[u] = IF u \in Readers(t.m) THEN store[u] \cup {t.m} ELSE store[u]
      BY <1>7 DEF Relay, SendP2p
    <3>2. ASSUME NEW u \in Users, NEW m \in store'[u], m # t.m PROVE sealed'[m] # NoKey /\ u \in Readers(m)
      <4>1. m \in store[u] /\ m \in Messages
        <5>1. m \in store[u]
          BY <3>1, <3>2
        <5>2. store[u] \subseteq Messages
          BY <1>0 DEF STypeOK
        <5> QED
          BY <5>1, <5>2
      <4> QED
        BY <1>0, <2>3, <3>2, <4>1
    <3>3. ASSUME NEW u \in Users, t.m \in store'[u] PROVE sealed'[t.m] # NoKey /\ u \in Readers(t.m)
      BY <1>0, <2>2, <2>3, <3>1, <3>3
    <3> QED
      BY <3>2, <3>3
  <2>8. \A u \in Users : \A m \in Messages : text'[u][m] # "none" => sealed'[m] # NoKey
    <3>1. \A u \in Users : \A m \in Messages : text'[u][m] # "none" => text[u][m] # "none" \/ m = t.m
      <4>1. UNCHANGED text \/ text' = [text EXCEPT ![t.u][t.m] = "plain"]
        BY <1>7 DEF Relay, SendP2p
      <4>2. ASSUME text' = [text EXCEPT ![t.u][t.m] = "plain"]
            PROVE  \A u \in Users, m \in Messages : text'[u][m] = IF u = t.u /\ m = t.m THEN "plain" ELSE text[u][m]
        <5>1. t.u \in Users /\ t.m \in Messages
          BY <2>2
        <5>2. /\ text'[t.u] = [text[t.u] EXCEPT ![t.m] = "plain"]
              /\ \A u \in Users : u # t.u => text'[u] = text[u]
          BY <1>0, <4>2, <5>1 DEF STypeOK
        <5>3. text[t.u] \in [Messages -> Texts]
          BY <1>0, <5>1 DEF STypeOK
        <5> QED
          BY <5>1, <5>2, <5>3
      <4> QED
        BY <4>1, <4>2
    <3> QED
      BY <1>0, <2>2, <2>3, <3>1
  <2> QED
    BY <2>4, <2>5, <2>6, <2>7, <2>8 DEF Readers
<1>8. ASSUME NEW t \in tasks, Open(t) PROVE SealedOnce'
  <2>1. t.m \in Messages /\ t.u \in Users /\ sealed[t.m] # NoKey
    BY <1>0, <1>8, NotUpload DEF Open, STypeOK, Tasks
  <2>2. \A u \in Users, m \in Messages : text'[u][m] # "none" => text[u][m] # "none" \/ sealed[m] # NoKey
    <3>1. "plain" \in Texts /\ "unable" \in Texts
      BY DEF Texts
    <3> QED
      BY <1>0, <1>8, <2>1, <3>1, TextSet DEF Open
  <2>3. Ends(t) /\ UNCHANGED <<sealed, stored, store>>
    BY <1>8, EndsOf DEF Open
  <2> QED
    BY <1>2, <2>2, <2>3
<1>9. CASE UNCHANGED <<tasks, sealed, stored, store, text>>
  BY <1>0, <1>9 DEF Readers
<1> HIDE DEF SealedOnce
<1> QED
  BY <1>3, <1>4, <1>5, <1>6, <1>7, <1>8, <1>9, SealingAssumption DEF Next, Refresh, Post, vars
-------------------------------------------------------------------------------
LEMMA DerivedKept == SealInv /\ [Next]_vars => Derived'
<1> SUFFICES ASSUME SealInv, [Next]_vars PROVE Derived'
  OBVIOUS
<1>0. STypeOK /\ TasksOk /\ SealedOnce /\ Derived
  BY DEF SealInv
<1> USE DEF Derived
<1>1. ASSUME NEW t \in tasks, NEW r, GoesOn(t, r), UNCHANGED <<sess, sealed>>,
             Crypts(t) /\ r.at \in {"derived", "use"} => r.key \in KeysOf(t.u, Peer(t))
      PROVE  Derived'
  <2>1. Crypts(r) <=> Crypts(t)
    BY <1>1 DEF GoesOn, Same, Crypts
  <2>2. r.u = t.u /\ Peer(r) = Peer(t)
    BY <1>1 DEF GoesOn, Same, Peer
  <2> QED
    BY <1>0, <1>1, <2>1, <2>2 DEF GoesOn
<1>2. ASSUME NEW t \in tasks, Ends(t), UNCHANGED <<sess, sealed>> PROVE Derived'
  BY <1>0, <1>2 DEF Ends
<1>3. ASSUME NEW u \in Users, Load(u) PROVE Derived'
  <2>1. \A t \in tasks' : Crypts(t) => t \in tasks
    BY <1>3 DEF Load, Uploading, Task, Crypts
  <2>2. \A v, w \in Users : sess'[v][w] = sess[v][w] \/ sess'[v][w] = NoKey
    BY <1>0, <1>3 DEF Load, STypeOK
  <2>3. UNCHANGED sealed
    BY <1>3 DEF Load
  <2> QED
    BY <1>0, <2>1, <2>2, <2>3
<1>4. ASSUME NEW t \in tasks, Made(t) PROVE Derived'
  <2>1. UNCHANGED <<sess, sealed>>
    BY <1>4 DEF Made
  <2>2. CASE t.why = "upload"
    BY <1>2, <1>4, <2>1, <2>2, EndsOf
  <2>3. CASE t.why # "upload"
    <3>1. Peer(t) \in Users /\ t.u \in Users
      BY <1>0, <2>3, NotUpload, Peers
    <3>2. sess[t.u][Peer(t)] # NoKey => sess[t.u][Peer(t)] \in KeysOf(t.u, Peer(t))
      BY <1>0, <3>1
    <3>3. PICK r : /\ GoesOn(t, r)
                   /\ \/ r.at = "fetch"
                      \/ r.at = "use" /\ r.key = sess[t.u][Peer(t)] /\ sess[t.u][Peer(t)] # NoKey
      BY <1>4, <2>3, MadeGoesOn
    <3> QED
      BY <1>1, <2>1, <3>2, <3>3
  <2> QED
    BY <2>2, <2>3
<1>5. ASSUME NEW t \in tasks, Serve(t) PROVE Derived'
  <2>1. UNCHANGED <<sess, sealed>>
    BY <1>5 DEF Serve
  <2>2. PICK r : GoesOn(t, r) /\ r.at = "served"
    BY <1>5, ServeGoesOn
  <2> QED
    BY <1>1, <2>1, <2>2
<1>6. ASSUME NEW t \in tasks, Derive(t) PROVE Derived'
  <2>1. UNCHANGED <<sess, sealed>>
    BY <1>6 DEF Derive
  <2>2. PICK r : GoesOn(t, r) /\ r.at = "derived" /\ r.key = Key(t.u, Peer(t), t.n)
    BY <1>6, DeriveGoesOn
  <2>3. Peer(t) \in Users /\ t.u \in Users /\ t.n \in Nat
    BY <1>0, <1>6, DeriveGoesOn, Peers DEF STypeOK, Tasks
  <2>4. Key(t.u, Peer(t), t.n) \in KeysOf(t.u, Peer(t))
    BY <1>0, <2>3, KeyDerived DEF STypeOK
  <2> QED
    BY <1>1, <2>1, <2>2, <2>4
<1>7. ASSUME NEW t \in tasks, Keep(t) PROVE Derived'
  <2>1. sess' = [sess EXCEPT ![t.u][Peer(t)] = t.key] /\ t.at = "derived" /\ UNCHANGED sealed
    BY <1>7 DEF Keep
  <2>2. Crypts(t) /\ Peer(t) \in Users /\ t.u \in Users
    BY <1>0, <1>7, KeepGoesOn, Peers
  <2>3. t.key \in KeysOf(t.u, Peer(t))
    BY <1>0, <2>1, <2>2
  <2>4. ASSUME NEW u \in Users, NEW v \in Users, sess'[u][v] # NoKey
        PROVE  sess'[u][v] \in KeysOf(u, v)
    <3>1. CASE u = t.u /\ v = Peer(t)
      BY <1>0, <2>1, <2>3, <3>1 DEF STypeOK
    <3>2. CASE ~(u = t.u /\ v = Peer(t))
      <4>1. sess'[u][v] = sess[u][v]
        BY <1>0, <2>1, <2>2, <3>2 DEF STypeOK
      <4> QED
        BY <1>0, <2>4, <4>1
    <3> QED
      BY <3>1, <3>2
  <2>5. PICK r : GoesOn(t, r) /\ r.at = "use" /\ r.key = t.key
    BY <1>7, KeepGoesOn
  <2>6. r.u = t.u /\ Peer(r) = Peer(t)
    BY <2>5 DEF GoesOn, Same, Peer
  <2>7. \A s \in tasks' : Crypts(s) /\ s.at \in {"derived", "use"} => s.key \in KeysOf(s.u, Peer(s))
    BY <1>0, <2>3, <2>5, <2>6 DEF GoesOn
  <2> QED
    BY <1>0, <2>1, <2>4, <2>7
<1>8. ASSUME NEW u \in Users, NEW m \in Messages, Submit(m) \/ Decrypt(u, m) PROVE Derived'
  <2>1. UNCHANGED <<sess, sealed>>
    BY <1>8 DEF Submit, Decrypt, Begin
  <2>2. PICK r : /\ Begins(r) /\ r.u \in Users /\ r.m = m
                 /\ r.at \in {"making", "fetch", "use"}
                 /\ r.at = "use" => r.key = sess[r.u][Peer(r)] /\ sess[r.u][Peer(r)] # NoKey
    BY <1>8, SubmitBegins
  <2>3. Peer(r) \in Users
    BY <2>2, SealingAssumption DEF Peer
  <2> QED
    BY <1>0, <2>1, <2>2, <2>3 DEF Begins
<1>9. ASSUME NEW t \in tasks, Relay(t) \/ SendP2p(t) PROVE Derived'
  <2>1. UNCHANGED sess /\ \A s \in tasks' : s \in tasks
    BY <1>9 DEF Relay, SendP2p
  <2>2. t.key \in KeysOf(By[t.m], To[t.m]) /\ sealed' = [sealed EXCEPT ![t.m] = t.key]
    BY <1>9, Seals
  <2>3. \A m \in Messages : sealed'[m] = IF m = t.m THEN t.key ELSE sealed[m]
    BY <1>0, <2>2 DEF STypeOK
  <2> QED
    BY <1>0, <2>1, <2>2, <2>3
<1>10. ASSUME NEW t \in tasks, Open(t) PROVE Derived'
  BY <1>2, <1>10, EndsOf DEF Open
<1>11. CASE UNCHANGED <<tasks, sess, sealed>>
  BY <1>0, <1>11
<1> HIDE DEF Derived
<1> QED
  BY <1>3, <1>4, <1>5, <1>6, <1>7, <1>8, <1>9, <1>10, <1>11, SealingAssumption DEF Next, Refresh, Post, vars

LEMMA ForOneKept == SealInv /\ [Next]_vars => SealedForOne'
<1> SUFFICES ASSUME SealInv, [Next]_vars PROVE SealedForOne'
  OBVIOUS
<1>0. STypeOK /\ TasksOk /\ SealedOnce /\ Derived /\ SealedForOne
  BY DEF SealInv
<1> USE DEF SealedForOne
<1>1. CASE UNCHANGED <<text, sealed, stored>>
  BY <1>0, <1>1
<1>2. ASSUME NEW u \in Users, Load(u) PROVE SealedForOne'
  <2>1. UNCHANGED <<sealed, stored>>
    BY <1>2 DEF Load
  <2>2. \A v \in Users, m \in Messages : text'[v][m] = text[v][m] \/ text'[v][m] = "none"
    BY <1>0, <1>2 DEF Load, STypeOK
  <2> QED
    BY <1>0, <2>1, <2>2
<1>3. ASSUME NEW t \in tasks, Relay(t) \/ SendP2p(t),
             NEW m \in Messages, NEW u \in Users, text'[u][m] = "plain"
      PROVE  \/ u = To[m] /\ u # By[m] /\ sealed'[m].of = None
             \/ u = By[m] /\ (m \notin stored' \/ To[m] = u)
  <2>1. /\ t.m \in Messages /\ t.u = By[t.m] /\ t.u \in Users
        /\ sealed[t.m] = NoKey /\ t.m \notin stored
        /\ sealed' = [sealed EXCEPT ![t.m] = t.key]
    BY <1>3, Seals
  <2>2. m # t.m => sealed'[m] = sealed[m]
    BY <1>0, <2>1 DEF STypeOK
  <2>3. CASE text[u][m] = "plain"
    <3>1. m # t.m
      BY <1>0, <2>1, <2>3 DEF SealedOnce
    <3> QED
      BY <1>0, <1>3, <2>2, <2>3, <3>1 DEF Relay, SendP2p
  <2>4. CASE text[u][m] # "plain"
    <3>1. UNCHANGED stored /\ text' = [text EXCEPT ![t.u][t.m] = "plain"]
      BY <1>3, <2>4 DEF Relay, SendP2p
    <3>2. u = t.u /\ m = t.m
      BY <1>0, <1>3, <2>4, <3>1 DEF STypeOK
    <3> QED
      BY <2>1, <3>1, <3>2
  <2> QED
    BY <2>3, <2>4
<1>4. ASSUME NEW t \in tasks, Open(t) PROVE SealedForOne'
  <2>1. Crypts(t) /\ t.m \in Messages /\ t.at = "use" /\ t.why = "read" /\ UNCHANGED <<sealed, stored>>
    BY <1>0, <1>4, NotUpload DEF Open
  <2>2. Peer(t) = By[t.m] /\ t.u \in Users /\ sealed[t.m] # NoKey /\ By[t.m] \in Users /\ To[t.m] \in Users
    BY <1>0, <2>1, SealingAssumption DEF Peer, SealedOnce, STypeOK, Tasks
  <2>3. t.key \in KeysOf(t.u, By[t.m]) /\ sealed[t.m] \in KeysOf(By[t.m], To[t.m])
    BY <1>0, <2>1, <2>2 DEF Derived
  <2>4. ASSUME t.key = sealed[t.m]
        PROVE  t.u = To[t.m] /\ (By[t.m] # To[t.m] => sealed[t.m].of = None)
    BY <2>2, <2>3, <2>4, OneReader
  <2>5. ASSUME NEW u \in Users, NEW m \in Messages, text'[u][m] = "plain", text[u][m] # "plain"
        PROVE  u = t.u /\ m = t.m /\ t.key = sealed[t.m]
    <3>1. text' = [text EXCEPT ![t.u][t.m] = IF t.key = sealed[t.m] THEN "plain" ELSE "unable"]
      BY <1>4, <2>5 DEF Open
    <3>2. u = t.u /\ m = t.m
      BY <1>0, <2>5, <3>1 DEF STypeOK
    <3>3. text'[u][m] = IF t.key = sealed[t.m] THEN "plain" ELSE "unable"
      BY <1>0, <3>1, <3>2 DEF STypeOK
    <3> QED
      BY <2>5, <3>2, <3>3
  <2> QED
    BY <1>0, <2>1, <2>2, <2>4, <2>5
<1>5. ASSUME NEW t \in tasks, Made(t) \/ Serve(t) \/ Derive(t) \/ Keep(t) PROVE SealedForOne'
  BY <1>1, <1>5 DEF Made, Serve, Derive, Keep
<1>6. ASSUME NEW u \in Users, NEW m \in Messages, Submit(m) \/ Decrypt(u, m) PROVE SealedForOne'
  BY <1>1, <1>6 DEF Submit, Decrypt, Begin
<1>7. ASSUME NEW t \in tasks, Relay(t) \/ SendP2p(t) PROVE SealedForOne'
  BY <1>3, <1>7
<1> HIDE DEF SealedForOne
<1> QED
  BY <1>1, <1>2, <1>4, <1>5, <1>6, <1>7, SealingAssumption DEF Next, Refresh, Post, vars

LEMMA SealKept == SealInv /\ [Next]_vars => SealInv'
BY TypeKept, TasksKept, OnceKept, DerivedKept, ForOneKept DEF SealInv

\* ChatRoute.tsx:201-220, 438: whoever reads a sealed message is the peer it was
\* sealed for or its author, for any users, messages, uploads and interleavings.
THEOREM ForOneHolds == Spec => []SealedForOne
<1>1. Spec => []SealInv
  BY SealInit, SealKept, PTL DEF Spec
<1>2. SealInv => SealedForOne
  BY DEF SealInv
<1> QED
  BY <1>1, <1>2, PTL
-------------------------------------------------------------------------------
\* Both ends derive one key, and it is the same pair whoever names it.
LEMMA Mutual == \A u, v, k : Fits(k, u, v) <=> Fits(k, v, u)
<1>1. \A u, v : Current(u, v) = Current(v, u)
  BY DEF Current
<1> QED
  BY <1>1 DEF Fits

LEMMA Monotone == [Next]_vars => shaken \subseteq shaken'
BY DEF Next, vars, Load, Refresh, Made, Post, Submit, Decrypt, Begin, Serve, Derive, Keep, Relay,
       SendP2p, Open, Shake

\* What must hold of what a step adds, when neither of the two changes identity.
Fresh(t, u, v) ==
    /\ t.at = "served" => id[v] # 0 /\ t.n = id[v]
    /\ t.at \in {"derived", "use"} => Fits(t.key, u, v)
LEMMA Steady ==
  ASSUME NEW u \in Users, NEW v \in Users, Agree(u, v), id'[u] = id[u], id'[v] = id[v],
         sess'[u][v] = sess[u][v] \/ Fits(sess'[u][v], u, v),
         \A m \in Messages : sealed'[m] = sealed[m] \/ ({By[m], To[m]} = {u, v} => Fits(sealed'[m], u, v)),
         \A t \in tasks' : t.u = u /\ Crypts(t) /\ Peer(t) = v => t \in tasks \/ Fresh(t, u, v)
  PROVE  Agree(u, v)'
<1>1. \A k : Fits(k, u, v)' <=> Fits(k, u, v)
  BY DEF Fits, Current
<1>2. sess'[u][v] # NoKey => Fits(sess'[u][v], u, v)
  BY DEF Agree
<1>3. ASSUME NEW m \in Messages, Between(m, u, v)' PROVE Fits(sealed'[m], u, v)
  BY <1>3 DEF Agree, Between
<1>4. ASSUME NEW t \in tasks', t.u = u, Crypts(t), Peer(t) = v PROVE Fresh(t, u, v)
  BY <1>4 DEF Agree, Fresh
<1>5. \A m \in Messages : Between(m, u, v)' => Fits(sealed[m], u, v)'
  BY <1>3 DEF Fits, Current
<1>6. \A t \in tasks' : t.u = u /\ Crypts(t) /\ Peer(t) = v =>
         /\ t.at = "served" => id'[v] # 0 /\ t.n = id'[v]
         /\ t.at \in {"derived", "use"} => Fits(t.key, u, v)'
  BY <1>1, <1>4 DEF Fresh
<1>7. (sess[u][v] # NoKey => Fits(sess[u][v], u, v))'
  BY <1>2 DEF Fits, Current
<1> QED
  BY <1>5, <1>6, <1>7 DEF Agree

\* Two who hold nothing of each other agree whatever happens to their identities.
LEMMA Untied ==
  ASSUME NEW u \in Users, NEW v \in Users, sess'[u][v] = NoKey,
         \A m \in Messages : ~Between(m, u, v), UNCHANGED sealed,
         \A t \in tasks' : t.u = u /\ Crypts(t) /\ Peer(t) = v =>
            t.at \notin {"derived", "use"} /\ (t.at = "served" => id'[v] # 0 /\ t.n = id'[v])
  PROVE  Agree(u, v)'
BY DEF Agree, Between

\* An identity that goes, or gives way to another, shakes those who built on it.
LEMMA Released ==
  ASSUME SealInv, NEW u \in Users, NEW v \in Users, v \notin Holders(u)
  PROVE  /\ sess[v][u] = NoKey
         /\ \A m \in Messages : ~Between(m, u, v)
         /\ \A t \in tasks : t.u = v /\ Crypts(t) /\ Peer(t) = u => t.at \notin {"served", "derived", "use"}
BY DEF Holders, Crypts

LEMMA LoadAgrees ==
  ASSUME SealInv, AllAgree, NEW w \in Users, Load(w) PROVE AllAgree'
<1> SUFFICES ASSUME NEW u \in Users, NEW v \in Users, u # v, {u, v} \notin shaken' PROVE Agree(u, v)'
  BY DEF AllAgree
<1>0. STypeOK /\ UNCHANGED sealed /\ shaken' = Shake(w, Holders(w))
  BY DEF SealInv, Load
<1>1. \A t \in tasks' : Crypts(t) => t \in tasks /\ t.u # w
  BY DEF Load, Uploading, Task, Crypts
<1>2. CASE u = w
  <2>1. v \notin Holders(w)
    BY <1>0, <1>2 DEF Shake
  <2>2. sess'[w][v] = NoKey
    BY <1>0 DEF Load, STypeOK
  <2> QED
    BY <1>0, <1>1, <1>2, <2>1, <2>2, Released, Untied
<1>3. CASE v = w
  <2>1. u \notin Holders(w)
    BY <1>0, <1>3 DEF Shake
  <2>2. sess'[u][w] = sess[u][w]
    BY <1>0, <1>3 DEF Load, STypeOK
  <2>3. /\ sess'[u][w] = NoKey
        /\ \A m \in Messages : ~Between(m, u, w)
        /\ \A t \in tasks : t.u = u /\ Crypts(t) /\ Peer(t) = w => t.at \notin {"served", "derived", "use"}
    BY <2>1, <2>2, Released DEF Between
  <2> QED
    BY <1>0, <1>1, <1>3, <2>3, Untied
<1>4. CASE u # w /\ v # w
  <2>1. Agree(u, v)
    BY <1>0 DEF AllAgree, Shake
  <2>2. id'[u] = id[u] /\ id'[v] = id[v] /\ sess'[u][v] = sess[u][v]
    BY <1>0, <1>4 DEF Load, STypeOK
  <2> QED
    BY <1>0, <1>1, <2>1, <2>2, Steady
<1> QED
  BY <1>2, <1>3, <1>4

LEMMA MadeAgrees ==
  ASSUME SealInv, AllAgree, Unmade, NEW t0 \in tasks, Made(t0) PROVE AllAgree'
<1> SUFFICES ASSUME NEW u \in Users, NEW v \in Users, u # v, {u, v} \notin shaken' PROVE Agree(u, v)'
  BY DEF AllAgree
<1> DEFINE w == t0.u
<1>0. /\ STypeOK /\ TasksOk /\ w \in Users
      /\ UNCHANGED <<sealed, sess>> /\ id' = [id EXCEPT ![w] = made[w] + 1]
      /\ shaken' = IF id[w] # 0 THEN Shake(w, Holders(w) \cup Own(w)) ELSE shaken
  BY DEF SealInv, STypeOK, Tasks, Made
<1>1. ASSUME NEW t \in tasks', Crypts(t), t \notin tasks
      PROVE  /\ t.u = w
             /\ t.at = "fetch" \/ (t.at = "use" /\ sess[w][Peer(t)] # NoKey /\ t.key = sess[w][Peer(t)])
  <2>1. t0.why # "upload"
    BY <1>1 DEF Made
  <2>2. PICK r : /\ GoesOn(t0, r)
                 /\ \/ r.at = "fetch"
                    \/ r.at = "use" /\ r.key = sess[w][Peer(t0)] /\ sess[w][Peer(t0)] # NoKey
    BY <2>1, MadeGoesOn
  <2>3. t = r
    BY <1>1, <2>2 DEF GoesOn
  <2>4. t.u = w /\ Peer(t) = Peer(t0)
    BY <2>2, <2>3 DEF GoesOn, Same, Peer
  <2> QED
    BY <2>2, <2>3, <2>4
<1>2. Agree(u, v) /\ Agree(v, u)
  <2>1. {u, v} \notin shaken /\ {u, v} = {v, u}
    BY <1>0 DEF Shake
  <2> QED
    BY <2>1 DEF AllAgree
<1>3. CASE u = w
  <2>1. /\ sess[u][v] = NoKey
        /\ \A m \in Messages : ~Between(m, u, v)
        /\ \A t \in tasks : t.u = u /\ Crypts(t) /\ Peer(t) = v => t.at \notin {"derived", "use"}
    <3>1. CASE id[w] # 0
      <4>1. v \notin Holders(w) /\ v \notin Own(w)
        BY <1>0, <1>3, <3>1 DEF Shake
      <4> QED
        BY <1>3, <4>1, Released DEF Own, Crypts
    <3>2. CASE id[w] = 0
      BY <1>2, <1>3, <3>2 DEF Agree, Fits
    <3> QED
      BY <3>1, <3>2
  <2>2. id'[v] = id[v]
    BY <1>0, <1>3 DEF STypeOK
  <2>3. ASSUME NEW t \in tasks', t.u = u, Crypts(t), Peer(t) = v
        PROVE  t.at \notin {"derived", "use"} /\ (t.at = "served" => id'[v] # 0 /\ t.n = id'[v])
    <3>1. CASE t \in tasks
      BY <1>2, <2>1, <2>2, <2>3, <3>1 DEF Agree
    <3>2. CASE t \notin tasks
      BY <1>1, <1>3, <2>1, <2>3, <3>2
    <3> QED
      BY <3>1, <3>2
  <2> QED
    BY <1>0, <2>1, <2>3, Untied
<1>4. CASE v = w
  <2>1. /\ sess[u][v] = NoKey
        /\ \A m \in Messages : ~Between(m, u, v)
        /\ \A t \in tasks : t.u = u /\ Crypts(t) /\ Peer(t) = v => t.at \notin {"served", "derived", "use"}
    <3>1. CASE id[w] # 0
      <4>1. u \notin Holders(w)
        BY <1>0, <1>4, <3>1 DEF Shake
      <4> QED
        BY <1>4, <4>1, Released DEF Between
    <3>2. CASE id[w] = 0
      BY <1>2, <1>4, <3>2 DEF Agree, Fits
    <3> QED
      BY <3>1, <3>2
  <2>2. ASSUME NEW t \in tasks', t.u = u, Crypts(t) PROVE t \in tasks
    BY <1>1, <1>4, <2>2
  <2> QED
    BY <1>0, <2>1, <2>2, Untied
<1>5. CASE u # w /\ v # w
  <2>1. id'[u] = id[u] /\ id'[v] = id[v]
    BY <1>0, <1>5 DEF STypeOK
  <2> QED
    BY <1>0, <1>1, <1>2, <1>5, <2>1, Steady
<1> QED
  BY <1>3, <1>4, <1>5

\* The steps that leave the identities alone.
LEMMA OthersAgree ==
  ASSUME SealInv, AllAgree, [Next]_vars, UNCHANGED id,
         \A w \in Users : ~Load(w), \A t \in tasks : ~Made(t)
  PROVE  AllAgree'
<1> SUFFICES ASSUME NEW u \in Users, NEW v \in Users, u # v, {u, v} \notin shaken' PROVE Agree(u, v)'
  BY DEF AllAgree
<1>0. STypeOK /\ TasksOk /\ SealedOnce /\ Derived
  BY DEF SealInv
<1>1. Agree(u, v) /\ Agree(v, u)
  <2>1. {u, v} \notin shaken /\ {u, v} = {v, u}
    BY Monotone
  <2> QED
    BY <2>1 DEF AllAgree
<1>2. ASSUME UNCHANGED <<sess, sealed>>,
             \A t \in tasks' : t.u = u /\ Crypts(t) /\ Peer(t) = v => t \in tasks \/ Fresh(t, u, v)
      PROVE  Agree(u, v)'
  BY <1>1, <1>2, Steady
<1>3. ASSUME NEW t \in tasks, Serve(t) PROVE Agree(u, v)'
  <2>1. UNCHANGED <<sess, sealed>>
    BY <1>3 DEF Serve
  <2>a. PICK n \in {0, bundle[Peer(t)]} : \E r :
          /\ GoesOn(t, r) /\ r.at = "served" /\ r.n = n
          /\ shaken' = IF n = 0 \/ n # id[Peer(t)] THEN Shake(t.u, {Peer(t)}) ELSE shaken
    BY <1>3, ServeGoesOn
  <2>2. PICK r :
          /\ GoesOn(t, r) /\ r.at = "served" /\ r.n = n
          /\ shaken' = IF n = 0 \/ n # id[Peer(t)] THEN Shake(t.u, {Peer(t)}) ELSE shaken
    BY <2>a
  <2>3. r.u = t.u /\ Peer(r) = Peer(t)
    BY <2>2 DEF GoesOn, Same, Peer
  <2>4. r.u = u /\ Peer(r) = v => Fresh(r, u, v)
    BY <2>2, <2>3 DEF Shake, Fresh
  <2> QED
    BY <1>2, <2>1, <2>2, <2>4 DEF GoesOn
<1>4. ASSUME NEW t \in tasks, Derive(t) PROVE Agree(u, v)'
  <2>1. UNCHANGED <<sess, sealed>> /\ t.at = "served"
    BY <1>4 DEF Derive
  <2>2. PICK r : GoesOn(t, r) /\ r.at = "derived" /\ r.key = Key(t.u, Peer(t), t.n)
    BY <1>4, DeriveGoesOn
  <2>3. r.u = t.u /\ Peer(r) = Peer(t) /\ Crypts(t)
    BY <1>4, <2>2, DeriveGoesOn DEF GoesOn, Same, Peer
  <2>4. ASSUME r.u = u, Peer(r) = v PROVE Fresh(r, u, v)
    <3>1. id[v] # 0 /\ t.n = id[v] /\ id[u] # 0
      BY <1>0, <1>1, <2>1, <2>3, <2>4 DEF Agree, TasksOk
    <3>2. r.key = Current(u, v)
      BY <2>2, <2>3, <2>4, <3>1 DEF Key, Current
    <3> QED
      BY <2>2, <3>1, <3>2 DEF Fresh, Fits
  <2> QED
    BY <1>2, <2>1, <2>2, <2>4 DEF GoesOn
<1>5. ASSUME NEW t \in tasks, Keep(t) PROVE Agree(u, v)'
  <2>1. /\ UNCHANGED sealed /\ t.at = "derived" /\ sess' = [sess EXCEPT ![t.u][Peer(t)] = t.key]
    BY <1>5 DEF Keep
  <2>2. PICK r : GoesOn(t, r) /\ r.at = "use" /\ r.key = t.key
    BY <1>5, KeepGoesOn
  <2>3. r.u = t.u /\ Peer(r) = Peer(t) /\ Crypts(t) /\ t.u \in Users /\ Peer(t) \in Users
    BY <1>0, <1>5, <2>2, KeepGoesOn, Peers DEF GoesOn, Same, Peer
  <2>4. t.u = u /\ Peer(t) = v => Fits(t.key, u, v)
    BY <1>1, <2>1, <2>3 DEF Agree
  <2>5. sess'[u][v] = sess[u][v] \/ Fits(sess'[u][v], u, v)
    <3>1. CASE t.u = u /\ Peer(t) = v
      <4>1. sess'[u][v] = t.key
        BY <1>0, <2>1, <3>1 DEF STypeOK
      <4> QED
        BY <2>4, <3>1, <4>1
    <3>2. CASE ~(t.u = u /\ Peer(t) = v)
      BY <1>0, <2>1, <2>3, <3>2 DEF STypeOK
    <3> QED
      BY <3>1, <3>2
  <2>6. \A s \in tasks' : s.u = u /\ Crypts(s) /\ Peer(s) = v => s \in tasks \/ Fresh(s, u, v)
    BY <2>2, <2>3, <2>4 DEF GoesOn, Fresh
  <2> QED
    BY <1>1, <2>1, <2>5, <2>6, Steady
<1>6. ASSUME NEW w \in Users, NEW m \in Messages, Submit(m) \/ Decrypt(w, m) PROVE Agree(u, v)'
  <2>1. UNCHANGED <<sess, sealed>>
    BY <1>6 DEF Submit, Decrypt, Begin
  <2>2. PICK r : /\ Begins(r) /\ r.at \in {"making", "fetch", "use"}
                 /\ r.at = "use" => r.key = sess[r.u][Peer(r)] /\ sess[r.u][Peer(r)] # NoKey
    BY <1>6, SubmitBegins
  <2>3. r.u = u /\ Peer(r) = v => Fresh(r, u, v)
    BY <1>1, <2>2 DEF Agree, Fresh
  <2> QED
    BY <1>2, <2>1, <2>2, <2>3 DEF Begins
<1>7. ASSUME NEW t \in tasks, Relay(t) \/ SendP2p(t) PROVE Agree(u, v)'
  <2>1. UNCHANGED sess /\ t.at = "use" /\ \A s \in tasks' : s \in tasks
    BY <1>7 DEF Relay, SendP2p
  <2>2. /\ t.why = "send" /\ t.m \in Messages /\ t.u = By[t.m]
        /\ sealed' = [sealed EXCEPT ![t.m] = t.key]
    BY <1>7, Seals
  <2>3. Peer(t) = To[t.m] /\ Crypts(t)
    BY <2>2 DEF Peer, Crypts
  <2>4. ASSUME {By[t.m], To[t.m]} = {u, v} PROVE Fits(t.key, u, v)
    <3>1. (t.u = u /\ Peer(t) = v) \/ (t.u = v /\ Peer(t) = u)
      BY <2>2, <2>3, <2>4
    <3>2. Fits(t.key, u, v) \/ Fits(t.key, v, u)
      BY <1>1, <2>1, <2>3, <3>1 DEF Agree
    <3> QED
      BY <3>2, Mutual
  <2>5. \A m \in Messages : sealed'[m] = IF m = t.m THEN t.key ELSE sealed[m]
    BY <1>0, <2>2 DEF STypeOK
  <2> QED
    BY <1>1, <2>1, <2>4, <2>5, Steady
<1>8. ASSUME NEW t \in tasks, Open(t) PROVE Agree(u, v)'
  <2>1. UNCHANGED <<sess, sealed>> /\ \A s \in tasks' : s \in tasks
    BY <1>8 DEF Open
  <2> QED
    BY <1>2, <2>1
<1>9. CASE UNCHANGED <<tasks, sess, sealed>>
  BY <1>2, <1>9
<1> QED
  BY <1>3, <1>4, <1>5, <1>6, <1>7, <1>8, <1>9, SealingAssumption DEF Next, Refresh, Post, vars

LEMMA UnmadeKept ==
  ASSUME SealInv, Unmade, [Next]_vars PROVE Unmade'
<1> SUFFICES ASSUME NEW u \in Users, id'[u] = 0, NEW v \in Users PROVE sess'[u][v] = NoKey
  BY DEF Unmade
<1>0. STypeOK /\ TasksOk
  BY DEF SealInv
<1>1. ASSUME NEW w \in Users, Load(w) PROVE sess'[u][v] = NoKey
  BY <1>0, <1>1 DEF Load, STypeOK, Unmade
<1>2. ASSUME NEW t \in tasks, Made(t) PROVE sess'[u][v] = NoKey
  <2>1. id' = [id EXCEPT ![t.u] = made[t.u] + 1] /\ UNCHANGED sess /\ made[t.u] \in Nat
    BY <1>0, <1>2 DEF Made, STypeOK, Tasks
  <2>2. id[u] = 0
    BY <1>0, <2>1 DEF STypeOK
  <2> QED
    BY <2>1, <2>2 DEF Unmade
<1>3. ASSUME NEW t \in tasks, Keep(t) PROVE sess'[u][v] = NoKey
  <2>1. UNCHANGED id /\ t.at = "derived" /\ sess' = [sess EXCEPT ![t.u][Peer(t)] = t.key]
    BY <1>3 DEF Keep
  <2>2. id[t.u] # 0
    BY <1>0, <1>3, <2>1, KeepGoesOn DEF TasksOk
  <2> QED
    BY <1>0, <2>1, <2>2 DEF STypeOK, Unmade
<1>4. CASE UNCHANGED <<id, sess>>
  BY <1>4 DEF Unmade
<1> QED
  BY <1>1, <1>2, <1>3, <1>4 DEF Next, vars, Refresh, Post, Submit, Decrypt, Begin, Serve, Derive, Relay, SendP2p, Open

LEMMA ReadsKept ==
  ASSUME SealInv, AgreeInv, [Next]_vars PROVE ReadsWhatIsSent'
<1> SUFFICES ASSUME NEW m \in Messages, To[m] # By[m], text'[To[m]][m] = "unable", {By[m], To[m]} \notin shaken'
             PROVE  FALSE
  BY DEF ReadsWhatIsSent
<1>0. /\ STypeOK /\ TasksOk /\ SealedOnce /\ Derived /\ AllAgree
      /\ To[m] \in Users /\ By[m] \in Users
  BY SealingAssumption DEF SealInv, AgreeInv
<1>1. text[To[m]][m] # "unable"
  BY Monotone DEF AgreeInv, ReadsWhatIsSent
<1>2. ASSUME NEW u \in Users, Load(u) PROVE FALSE
  BY <1>0, <1>1, <1>2 DEF Load, STypeOK
<1>3. ASSUME NEW t \in tasks, SendP2p(t) PROVE FALSE
  BY <1>0, <1>1, <1>3 DEF SendP2p, STypeOK
<1>4. ASSUME NEW t \in tasks, Open(t) PROVE FALSE
  <2>1. /\ t.at = "use" /\ t.why = "read"
        /\ text' = [text EXCEPT ![t.u][t.m] = IF t.key = sealed[t.m] THEN "plain" ELSE "unable"]
    BY <1>1, <1>4 DEF Open
  <2>2. t.u = To[m] /\ t.m = m
    BY <1>0, <1>1, <2>1 DEF STypeOK
  <2>3. t.key # sealed[m]
    BY <1>0, <2>1, <2>2 DEF STypeOK
  <2>4. Crypts(t) /\ Peer(t) = By[m] /\ sealed[m] # NoKey
    BY <1>0, <2>1, <2>2 DEF Crypts, Peer, SealedOnce
  <2>5. {To[m], By[m]} = {By[m], To[m]}
    OBVIOUS
  <2>6. Agree(To[m], By[m])
    BY <1>0, <2>5, Monotone DEF AllAgree
  <2>7. Between(m, To[m], By[m])
    BY <2>4, <2>5 DEF Between
  <2>8. Fits(t.key, To[m], By[m]) /\ Fits(sealed[m], To[m], By[m])
    BY <2>1, <2>2, <2>4, <2>6, <2>7 DEF Agree
  <2> QED
    BY <2>3, <2>8 DEF Fits
<1>5. CASE UNCHANGED text
  BY <1>1, <1>5
<1> QED
  BY <1>2, <1>3, <1>4, <1>5 DEF Next, vars, Made, Refresh, Post, Submit, Decrypt, Begin, Serve, Derive, Keep, Relay

LEMMA AgreeInit == Init => AgreeInv
<1> SUFFICES ASSUME Init PROVE AgreeInv
  OBVIOUS
<1>1. AllAgree
  BY DEF Init, AllAgree, Agree, Between
<1>2. Unmade /\ ReadsWhatIsSent
  BY SealingAssumption DEF Init, Unmade, ReadsWhatIsSent
<1> QED
  BY <1>1, <1>2 DEF AgreeInv

LEMMA AgreeKept == SealInv /\ AgreeInv /\ [Next]_vars => AgreeInv'
<1> SUFFICES ASSUME SealInv, AgreeInv, [Next]_vars PROVE AgreeInv'
  OBVIOUS
<1>1. AllAgree /\ Unmade
  BY DEF AgreeInv
<1>2. AllAgree'
  <2>1. CASE \E w \in Users : Load(w)
    BY <1>1, <2>1, LoadAgrees
  <2>2. CASE \E t \in tasks : Made(t)
    BY <1>1, <2>2, MadeAgrees
  <2>3. CASE (\A w \in Users : ~Load(w)) /\ (\A t \in tasks : ~Made(t))
    <3>1. UNCHANGED id
      BY <2>3 DEF Next, vars, Refresh, Post, Submit, Decrypt, Begin, Serve, Derive, Keep, Relay, SendP2p, Open
    <3> QED
      BY <1>1, <2>3, <3>1, OthersAgree
  <2> QED
    BY <2>1, <2>2, <2>3
<1> QED
  BY <1>1, <1>2, UnmadeKept, ReadsKept DEF AgreeInv

\* signal-helpers.ts:67-95, noble.ts:62-93: unless one of the two pages was loaded
\* again, made another identity or was mistaken for another, the peer opens what
\* was sealed for him, whatever the interleaving of effects, uploads and fetches.
THEOREM ReadsHold == Spec => []ReadsWhatIsSent
<1>1. Init => SealInv /\ AgreeInv
  BY SealInit, AgreeInit
<1>2. SealInv /\ AgreeInv /\ [Next]_vars => (SealInv /\ AgreeInv)'
  BY SealKept, AgreeKept
<1>3. AgreeInv => ReadsWhatIsSent
  BY DEF AgreeInv
<1> QED
  BY <1>1, <1>2, <1>3, PTL DEF Spec
===============================================================================
