----------------------------- MODULE UploadsProofs ------------------------------
(* For any clients, addresses, files, messages and scopes: the limit on failed   *)
(* logins, whatever interleaving of requests, windows that end and restarts; and *)
(* what a stored message names can be downloaded, the page being one client      *)
(* among those of the limiter.                                                   *)
EXTENDS Uploads, FiniteSetTheorems, TLAPS

IInv == ATypeOK /\ Limited

\* Who is being verified under a key is one of the clients: a finite number.
LEMMA Verified ==
  ASSUME NEW k
  PROVE  /\ Verifying(k) \subseteq Slots /\ IsFiniteSet(Verifying(k))
         /\ Cardinality(Verifying(k)) \in Nat /\ Cardinality(Slots) \in Nat
         /\ Cardinality(Verifying(k)) <= Cardinality(Slots)
<1>1. Verifying(k) \subseteq Slots
  BY DEF Verifying
<1>2. IsFiniteSet(Slots)
  BY AccountAssumption
<1> QED
  BY <1>1, <1>2, FS_Subset, FS_CardinalityType

\* With no more in verification than before, and no higher count, the limit holds.
LEMMA Fewer ==
  ASSUME IInv, NEW k \in Keys, count'[k] \in Nat, count'[k] <= count[k],
         Verifying(k)' \subseteq Verifying(k)
  PROVE  count'[k] + Cardinality(Verifying(k)') <= MaxFailures + Cardinality(Slots) - 1
<1>1. /\ Cardinality(Verifying(k)') <= Cardinality(Verifying(k))
      /\ Cardinality(Verifying(k)') \in Nat
  BY Verified, FS_Subset, FS_CardinalityType
<1>2. count[k] + Cardinality(Verifying(k)) <= MaxFailures + Cardinality(Slots) - 1
  BY DEF IInv, Limited
<1> QED
  BY <1>1, <1>2, Verified, AccountAssumption DEF IInv, ATypeOK

LEMMA InitOk == AInit => IInv
<1> SUFFICES ASSUME AInit PROVE IInv
  OBVIOUS
<1>1. ATypeOK
  BY DEF AInit, ATypeOK, Idle, Keys
<1>2. Limited
  <2> SUFFICES ASSUME NEW k \in Keys
               PROVE  count[k] + Cardinality(Verifying(k)) <= MaxFailures + Cardinality(Slots) - 1
    BY DEF Limited
  <2>1. Verifying(k) = {}
    BY DEF AInit, Idle, Verifying
  <2>2. Cardinality(Verifying(k)) = 0 /\ count[k] = 0
    BY <2>1, FS_EmptySet DEF AInit
  <2> QED
    BY <2>2, Verified, AccountAssumption
<1> QED
  BY <1>1, <1>2 DEF IInv

LEMMA TypeStep == ATypeOK /\ [ANext \/ ARestart]_avars => ATypeOK'
<1> SUFFICES ASSUME ATypeOK, [ANext \/ ARestart]_avars PROVE ATypeOK'
  OBVIOUS
<1> USE DEF ATypeOK
<1>1. ASSUME NEW r \in Slots, NEW ip \in Ips, Login(r, ip) PROVE ATypeOK'
  BY <1>1 DEF Login, Keys
<1>2. ASSUME NEW r \in Slots, Wrong(r) PROVE ATypeOK'
  BY <1>2 DEF Wrong, Idle, Keys
<1>3. ASSUME NEW r \in Slots, Right(r) \/ Register(r) PROVE ATypeOK'
  BY <1>3 DEF Right, Register, Step
<1>4. ASSUME NEW r \in Slots, CreateUser(r) PROVE ATypeOK'
  BY <1>4 DEF CreateUser, Step, Idle, Keys
<1>5. ASSUME NEW r \in Slots, Session(r) PROVE ATypeOK'
  BY <1>5 DEF Session, Idle, Keys
<1>6. ASSUME NEW k \in Keys, NewWindow(k) PROVE ATypeOK'
  BY <1>6 DEF NewWindow
<1>7. CASE ARestart
  BY <1>7 DEF ARestart, Idle, Keys
<1>8. CASE UNCHANGED avars
  BY <1>8 DEF avars
<1> QED
  BY <1>1, <1>2, <1>3, <1>4, <1>5, <1>6, <1>7, <1>8 DEF ANext

\* Before the await of a login both counts are below the limit; each count that
\* a verification adds takes that verification away.
LEMMA LimitStep == IInv /\ [ANext \/ ARestart]_avars => Limited'
<1> SUFFICES ASSUME IInv, [ANext \/ ARestart]_avars, NEW k \in Keys
             PROVE  count'[k] + Cardinality(Verifying(k)') <= MaxFailures + Cardinality(Slots) - 1
  BY DEF Limited
<1> DEFINE Goal == count'[k] + Cardinality(Verifying(k)') <= MaxFailures + Cardinality(Slots) - 1
<1>0. ATypeOK /\ ATypeOK'
  BY TypeStep DEF IInv
<1>n. MaxFailures \in Nat /\ Cardinality(Slots) \in Nat /\ count[k] \in Nat /\ count'[k] \in Nat
  BY <1>0, Verified, AccountAssumption DEF ATypeOK
<1>1. ASSUME NEW r \in Slots, NEW ip \in Ips, Login(r, ip) PROVE Goal
  <2>1. CASE k \in {ip, Email}
    <3>1. Verifying(k)' \subseteq Slots
      BY DEF Verifying
    <3>2. Cardinality(Verifying(k)') \in Nat /\ Cardinality(Verifying(k)') <= Cardinality(Slots)
      BY <3>1, AccountAssumption, FS_Subset, FS_CardinalityType
    <3>3. count'[k] < MaxFailures
      BY <1>1, <2>1 DEF Login, Allowed
    <3> QED
      BY <3>2, <3>3, <1>n
  <2>2. CASE k \notin {ip, Email}
    <3>1. Verifying(k)' \subseteq Verifying(k)
      BY <1>0, <1>1, <2>2 DEF Login, Verifying, ATypeOK
    <3> QED
      BY <1>0, <1>1, <3>1, Fewer DEF Login, ATypeOK
  <2> QED
    BY <2>1, <2>2
<1>2. ASSUME NEW r \in Slots, Wrong(r) PROVE Goal
  <2>1. Verifying(k)' \subseteq Verifying(k)
    BY <1>0, <1>2 DEF Wrong, Verifying, Idle, ATypeOK
  <2>2. CASE k \in {req[r].ip, Email}
    <3>1. r \in Verifying(k) /\ Verifying(k)' = Verifying(k) \ {r}
      BY <1>0, <1>2, <2>2 DEF Wrong, Verifying, Idle, ATypeOK
    <3>2. Cardinality(Verifying(k)') = Cardinality(Verifying(k)) - 1
      BY <3>1, Verified, FS_RemoveElement
    <3>3. req[r].ip # Email
      BY <1>0, <1>2, AccountAssumption DEF Wrong, ATypeOK
    <3>4. count'[k] = count[k] + 1
      BY <1>0, <1>2, <2>2, <3>3 DEF Wrong, ATypeOK
    <3>5. count[k] + Cardinality(Verifying(k)) <= MaxFailures + Cardinality(Slots) - 1
      BY DEF IInv, Limited
    <3> QED
      BY <3>2, <3>4, <3>5, <1>0, Verified, AccountAssumption DEF ATypeOK
  <2>3. CASE k \notin {req[r].ip, Email}
    <3>1. count'[k] = count[k]
      BY <1>0, <1>2, <2>3 DEF Wrong, ATypeOK
    <3> QED
      BY <1>0, <2>1, <3>1, Fewer DEF ATypeOK
  <2> QED
    BY <2>2, <2>3
<1>3. ASSUME NEW r \in Slots, Right(r) \/ Register(r) \/ CreateUser(r) \/ Session(r) PROVE Goal
  <2>1. Verifying(k)' \subseteq Verifying(k)
    <3>1. CASE Right(r)
      BY <1>0, <3>1 DEF Right, Step, Verifying, ATypeOK
    <3>2. CASE Register(r)
      BY <1>0, <3>2 DEF Register, Step, Verifying, ATypeOK
    <3>3. CASE CreateUser(r)
      BY <1>0, <3>3 DEF CreateUser, Step, Idle, Verifying, ATypeOK
    <3>4. CASE Session(r)
      BY <1>0, <3>4 DEF Session, Idle, Verifying, ATypeOK
    <3> QED
      BY <1>3, <3>1, <3>2, <3>3, <3>4
  <2>2. count'[k] = count[k]
    BY <1>3 DEF Right, Register, CreateUser, Session
  <2> QED
    BY <1>0, <2>1, <2>2, Fewer DEF ATypeOK
<1>4. ASSUME NEW j \in Keys, NewWindow(j) PROVE Goal
  <2>1. Verifying(k)' \subseteq Verifying(k)
    BY <1>4 DEF NewWindow, Verifying
  <2>2. count'[k] \in Nat /\ count'[k] <= count[k]
    BY <1>0, <1>4 DEF NewWindow, ATypeOK
  <2> QED
    BY <2>1, <2>2, Fewer
<1>5. CASE ARestart
  <2>1. Verifying(k)' \subseteq Verifying(k)
    BY <1>5 DEF ARestart, Verifying, Idle
  <2>2. count'[k] \in Nat /\ count'[k] <= count[k]
    BY <1>0, <1>5 DEF ARestart, ATypeOK
  <2> QED
    BY <2>1, <2>2, Fewer
<1>6. CASE UNCHANGED avars
  <2>1. Verifying(k)' \subseteq Verifying(k) /\ count'[k] = count[k]
    BY <1>6 DEF avars, Verifying
  <2> QED
    BY <1>0, <2>1, Fewer DEF ATypeOK
<1> QED
  BY <1>1, <1>2, <1>3, <1>4, <1>5, <1>6 DEF ANext

\* auth-rate-limit.ts:9-14: in a window, however many requests are verified at
\* the same time and from however many addresses, an account and an address see
\* at most maxFailures failures and one less than there are clients.
THEOREM LimitHolds == ASpec => []Limited
<1>1. IInv /\ [ANext \/ ARestart]_avars => IInv'
  BY TypeStep, LimitStep DEF IInv
<1>2. IInv => Limited
  BY DEF IInv
<1> QED
  BY InitOk, <1>1, <1>2, PTL DEF ASpec
-------------------------------------------------------------------------------
Jobs == {"idle", "asking", "putting", "completing", "completed", "over"}
UTypeOK ==
  /\ job \in [Files -> Jobs]
  /\ put \in [Files -> {"none", "arrived", "admitted", "found", "updated"}]
  /\ row \in [Files -> {"none", "pending", "skipped", "clean"}]
  /\ sent \in [Messages -> [at : {"none", "sending", "valid", "refused", "stored", "lost"},
                            files : SUBSET Files]]
  /\ tray \subseteq Files

\* The bytes have been put; or a restart in memory has taken the row since.
Whole(f) == row[f] = "clean" /\ (f \in content \/ f \in gone)
Put(f)   == row[f] = "none" \/ Whole(f)

\* A PUT that found its row still has it, and has marked it before it ends; the
\* page goes on with files whose PUT has ended; a message keeps that until its
\* files are looked at, and from then on their rows are there.
PutHasRow  == \A f \in Files : /\ put[f] \in {"found", "updated"} => row[f] # "none"
                               /\ put[f] = "updated" => row[f] = "clean"
JobHasPut  == \A f \in Files : job[f] \in {"completing", "completed"} => Put(f)
TrayHasPut == \A f \in tray : Put(f)
SentHasPut ==
  \A m \in Messages : \A f \in sent[m].files :
    /\ sent[m].at = "sending" => Put(f)
    /\ sent[m].at \in {"valid", "stored"} => Whole(f)

\* A file is in a job, in the tray or in one message.
Apart ==
  /\ \A f \in Files : job[f] # "over" => f \notin tray /\ \A m \in Messages : f \notin sent[m].files
  /\ \A m \in Messages : tray \cap sent[m].files = {}
  /\ \A m, n \in Messages : m # n => sent[m].files \cap sent[n].files = {}

UInv == UTypeOK /\ PutHasRow /\ JobHasPut /\ TrayHasPut /\ SentHasPut /\ Apart

LEMMA UInitOk == Init => UInv
BY DEF Init, Gone, UInv, UTypeOK, Jobs, PutHasRow, JobHasPut, TrayHasPut, SentHasPut, Apart

LEMMA TypeKept == UInv /\ [Next]_vars => UTypeOK'
<1> SUFFICES ASSUME UInv, [Next]_vars PROVE UTypeOK'
  OBVIOUS
<1> USE DEF UInv, UTypeOK, Jobs
<1>1. ASSUME NEW f \in Files, Choose(f) PROVE UTypeOK'
  BY <1>1 DEF Choose, disk, avars
<1>2. ASSUME NEW f \in Files, CreateSession(f) PROVE UTypeOK'
  BY <1>2 DEF CreateSession, Make
<1>3. ASSUME NEW f \in Files, CreateRefused(f) PROVE UTypeOK'
  BY <1>3 DEF CreateRefused, disk
<1>4. ASSUME NEW f \in Files, Admit(f) PROVE UTypeOK'
  BY <1>4 DEF Admit, PutAnswer, Refuse, disk
<1>5. ASSUME NEW f \in Files, Find(f) PROVE UTypeOK'
  BY <1>5 DEF Find, PutAnswer, Refuse, disk
<1>6. ASSUME NEW f \in Files, UpdateDevUpload(f) PROVE UTypeOK'
  BY <1>6 DEF UpdateDevUpload, page
<1>7. ASSUME NEW f \in Files, Keep(f) PROVE UTypeOK'
  BY <1>7 DEF Keep, PutAnswer, Refuse, disk
<1>8. ASSUME NEW f \in Files, Cancel(f) PROVE UTypeOK'
  BY <1>8 DEF Cancel, Refuse, disk
<1>9. ASSUME NEW f \in Files, CompleteSession(f) PROVE UTypeOK'
  BY <1>9 DEF CompleteSession, Refuse
<1>10. ASSUME NEW f \in Files, Pend(f) PROVE UTypeOK'
  BY <1>10 DEF Pend, disk
<1>11. ASSUME NEW m \in Messages, Submit(m) PROVE UTypeOK'
  BY <1>11 DEF Submit, disk
<1>12. ASSUME NEW m \in Messages, Validate(m) PROVE UTypeOK'
  BY <1>12 DEF Validate, page, disk
<1>13. ASSUME NEW m \in Messages, Associate(m) PROVE UTypeOK'
  BY <1>13 DEF Associate, page, disk
<1>14. CASE SubmitDropped \/ Seal \/ Sealed
  BY <1>14 DEF SubmitDropped, Seal, Sealed, disk
<1>15. CASE Membership \/ \E f \in Files : Expire(f)
  BY <1>15 DEF Membership, Expire, page, disk
<1>16. CASE Restart
  BY <1>16 DEF Restart, disk
<1>17. CASE (ANext /\ UNCHANGED uvars) \/ UNCHANGED vars
  BY <1>17 DEF vars, uvars, page, disk
<1> QED
  BY <1>1, <1>2, <1>3, <1>4, <1>5, <1>6, <1>7, <1>8, <1>9, <1>10, <1>11, <1>12, <1>13,
     <1>14, <1>15, <1>16, <1>17 DEF Next, UNext

Rest == PutHasRow /\ JobHasPut /\ TrayHasPut /\ SentHasPut /\ Apart

LEMMA StepKept == UInv /\ [Next]_vars => Rest'
<1> SUFFICES ASSUME UInv, UTypeOK', [Next]_vars PROVE Rest'
  BY TypeKept
<1> USE DEF UInv, UTypeOK, Jobs, Rest, PutHasRow, JobHasPut, TrayHasPut, SentHasPut, Apart, Put, Whole
<1>1. ASSUME NEW f \in Files, Choose(f) PROVE Rest'
  BY <1>1 DEF Choose, disk, avars
<1>2. ASSUME NEW f \in Files, CreateSession(f) PROVE Rest'
  BY <1>2 DEF CreateSession, Make
<1>3. ASSUME NEW f \in Files, CreateRefused(f) PROVE Rest'
  BY <1>3 DEF CreateRefused, disk
<1>4. ASSUME NEW f \in Files, Admit(f) PROVE Rest'
  BY <1>4 DEF Admit, PutAnswer, Refuse, disk
<1>5. ASSUME NEW f \in Files, Find(f) PROVE Rest'
  BY <1>5 DEF Find, PutAnswer, Refuse, disk
<1>6. ASSUME NEW f \in Files, UpdateDevUpload(f) PROVE Rest'
  BY <1>6 DEF UpdateDevUpload, page
<1>7. ASSUME NEW f \in Files, Keep(f) PROVE Rest'
  BY <1>7 DEF Keep, PutAnswer, Refuse, disk
<1>8. ASSUME NEW f \in Files, Cancel(f) PROVE Rest'
  BY <1>8 DEF Cancel, Refuse, disk
<1>9. ASSUME NEW f \in Files, CompleteSession(f) PROVE Rest'
  BY <1>9 DEF CompleteSession, Refuse
<1>10. ASSUME NEW f \in Files, Pend(f) PROVE Rest'
  BY <1>10 DEF Pend, disk
<1>11. ASSUME NEW m \in Messages, Submit(m) PROVE Rest'
  BY <1>11 DEF Submit, disk
<1>12. ASSUME NEW m \in Messages, Validate(m) PROVE Rest'
  BY <1>12 DEF Validate, ValidRef, page, disk
<1>13. ASSUME NEW m \in Messages, Associate(m) PROVE Rest'
  BY <1>13 DEF Associate, page, disk
<1>14. CASE SubmitDropped \/ Seal \/ Sealed
  BY <1>14 DEF SubmitDropped, Seal, Sealed, disk
<1>15. CASE Membership \/ \E f \in Files : Expire(f)
  BY <1>15 DEF Membership, Expire, page, disk
<1>16. CASE Restart
  BY <1>16 DEF Restart, disk
<1>17. CASE (ANext /\ UNCHANGED uvars) \/ UNCHANGED vars
  BY <1>17 DEF vars, uvars, page, disk
<1> QED
  BY <1>1, <1>2, <1>3, <1>4, <1>5, <1>6, <1>7, <1>8, <1>9, <1>10, <1>11, <1>12, <1>13,
     <1>14, <1>15, <1>16, <1>17 DEF Next, UNext

\* useAttachments.ts:11-16: whatever is cancelled, refused, cut off or restarted,
\* a stored message names only files whose bytes have been put and whose process
\* was up then, and no file goes with two messages.
THEOREM Downloadable == Spec => []Fetchable
<1>1. UInv /\ [Next]_vars => UInv'
  BY TypeKept, StepKept DEF UInv, Rest
<1>2. UInv => Fetchable
  BY DEF UInv, SentHasPut, Apart, Whole, Fetchable
<1> QED
  BY UInitOk, <1>1, <1>2, PTL DEF Spec

\* The accounts beneath the uploads are those of Accounts, ...
LEMMA AccountsBeneath == Spec => ASpec
<1>1. Init => AInit
  BY DEF Init
<1>2. [Next]_vars => [ANext \/ ARestart]_avars
  BY DEF Next, UNext, vars, Choose, CreateSession, CreateRefused, Admit, Find, UpdateDevUpload, Keep,
     Cancel, CompleteSession, Pend, Submit, SubmitDropped, Seal, Sealed, Validate, Associate, Expire,
     Membership, Restart
<1> QED
  BY <1>1, <1>2, PTL DEF Spec, ASpec

\* ... so the limit of auth-rate-limit.ts:9-14 holds beside them too.
THEOREM LimitHoldsBeside == Spec => []Limited
BY AccountsBeneath, LimitHolds, PTL
===============================================================================
