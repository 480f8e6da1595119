--------------------------- MODULE MessagesProofs ---------------------------
(* Proofs about Messages, for every value of its constants. *)
EXTENDS Messages, FiniteSetTheorems, TLAPS

-----------------------------------------------------------------------------
(* Type correctness *)

\* The stage a slot has reached determines what it holds.
LEMMA StageOf ==
  ASSUME TypeOK, NEW s \in Slots
  PROVE  /\ req[s].pc \in {"lookup", "reply", "create", "insert"} => req[s] \in SendStage
         /\ req[s].pc = "publish" => req[s] \in PublishStage
         /\ req[s].pc \in {"receipt", "queue"} => req[s] \in ReceiptStage
         /\ req[s].pc = "write" => req[s] \in WriteStage
         /\ req[s].pc = "sweep" => req[s] \in SweepStage
         /\ req[s].pc = "announce" => req[s] \in AnnounceStage
         /\ req[s].pc \in {"pin", "pinExists", "pinInsert"} => req[s] \in PinStage
  BY DEF TypeOK, Request, BareStage, SendStage, PublishStage, ReceiptStage, WriteStage,
         SweepStage, AnnounceStage, PinStage

\* A tombstone of a row is a row.
LEMMA TombstoneIsRow ==
  ASSUME NEW row \in Row, NEW reason \in {"deleted", "expired", "read_once_consumed"}
  PROVE  Tombstone(row, reason) \in Row
  BY DEF Tombstone, Row, Content, Tomb

\* Putting a request into a slot keeps the type of req.
LEMMA BecomeTyped ==
  ASSUME TypeOK, NEW s \in Slots, NEW r \in Request, Become(s, r)
  PROVE  req' \in [Slots -> Request]
  BY DEF TypeOK, Become

\* The constants of the model.
USE ConstantsAssumption DEF AllOps

-----------------------------------------------------------------------------
(* Frames: what a step must show to preserve the invariant *)

\* The variables a step that only moves a request leaves alone.
StoreVars == <<rows, byClient, receipts, pins, lapsed, pending, announced>>

\* Queueing or announcing requests are introduced by two actions only.
Quiet(r) == r.pc \notin {"queue", "announce"}

LEMMA IdleOk == Idle \in Request /\ RequestOk(Idle) /\ Quiet(Idle)
  BY DEF Idle, Request, BareStage, RequestOk, Quiet, Snapshots

\* Requests stay sound while rows are only added or rewritten under their identity.
LEMMA SoundStable ==
  ASSUME DOMAIN rows \subseteq DOMAIN rows',
         \A i \in DOMAIN rows : SameIdentity(rows'[i], rows[i]),
         NEW r \in Request, RequestOk(r)
  PROVE  RequestOk(r)'
<1>1. ASSUME NEW e, SnapshotOk(e) PROVE SnapshotOk(e)'
  BY <1>1 DEF SnapshotOk, SameIdentity, RowLegal
<1>2. RepliesTo(r.row) => RepliesTo(r.row)'
  BY DEF RepliesTo, Exists, SameIdentity
<1>3. RowLegal(r.row) => RowLegal(r.row)'
  BY DEF RowLegal
<1>4. Snapshots(r)' = Snapshots(r)
  BY DEF Snapshots
<1>5. QED
  BY <1>1, <1>2, <1>3, <1>4 DEF RequestOk

\* A slot that moves to a quiet request only drops out of the receipts' accounts.
LEMMA QuietAccounts ==
  ASSUME TypeOK, ReceiptsAccounted, NEW s \in Slots, NEW r \in Request, Quiet(r),
         Become(s, r), UNCHANGED <<receipts, pending, announced>>
  PROVE  ReceiptsAccounted'
<1>1. \A t \in Slots : Queueing(t)' \subseteq Queueing(t) /\ Announcing(t)' \subseteq Announcing(t)
  BY DEF TypeOK, Become, Queueing, Announcing, Quiet, Receipt
<1>2. QED
  BY <1>1 DEF ReceiptsAccounted, ReceiptOnce

\* A step that only moves slot s to a sound, quiet request preserves the invariant.
LEMMA MoveFrame ==
  ASSUME Inv, NEW s \in Slots, NEW r \in Request, RequestOk(r), Quiet(r), Become(s, r),
         UNCHANGED StoreVars, published' \subseteq Msgs
  PROVE  Inv'
<1>1. TypeOK'
  BY DEF Inv, TypeOK, Become, StoreVars
<1>2. IndexSound' /\ ModeSeparation' /\ ReplyInChannel'
  BY DEF Inv, StoreVars, IndexSound, ModeSeparation, ReplyInChannel, RowLegal, RepliesTo, Exists, Key
<1>3. \A q \in Request : RequestOk(q) => RequestOk(q)'
  BY SoundStable DEF StoreVars, SameIdentity
<1>4. \A t \in Slots : req[t] \in Request /\ (req'[t] = req[t] \/ req'[t] = r)
  BY DEF Inv, TypeOK, Become
<1>5. RequestsOk'
  BY <1>3, <1>4 DEF Inv, RequestsOk, RequestOk
<1>6. ReceiptsAccounted'
  BY QuietAccounts DEF Inv, StoreVars
<1>7. QED
  BY <1>1, <1>2, <1>5, <1>6 DEF Inv

-----------------------------------------------------------------------------
(* Steps that move a request and leave the store alone *)

\* What send does with a message it has found or stored.
LEMMA AnswerStep ==
  ASSUME Inv, NEW s \in Slots, NEW id \in DOMAIN rows, NEW row \in Row, NEW fwd \in OptMsg,
         SameIdentity(row, rows[id]), RowLegal(row),
         UNCHANGED StoreVars, published' \subseteq Msgs
  PROVE  /\ Answer(s, id, row, fwd) => Inv'
         /\ Created(s, id, row, fwd) => Inv'
<1> DEFINE stamp == [pc |-> "write", id |-> id, row |-> [row EXCEPT !.orig = fwd], next |-> "idle"]
           hear  == [pc |-> "publish", id |-> id, row |-> row, fwd |-> fwd]
<1>1. id \in Msgs
  BY DEF Inv, TypeOK
<1>2. ASSUME fwd # None PROVE stamp \in Request /\ RequestOk(stamp) /\ Quiet(stamp)
  <2>1. [row EXCEPT !.orig = fwd] \in Row
    BY <1>2 DEF Row, OptMsg
  <2>2. SnapshotOk(<<id, [row EXCEPT !.orig = fwd]>>)
    BY DEF SnapshotOk, SameIdentity, RowLegal, Row
  <2>3. QED
    BY <1>1, <2>1, <2>2 DEF Request, WriteStage, RequestOk, Snapshots, Quiet
<1>3. hear \in Request /\ RequestOk(hear) /\ Quiet(hear)
  <2>1. SnapshotOk(<<id, row>>)
    BY DEF SnapshotOk
  <2>2. QED
    BY <1>1, <2>1 DEF Request, PublishStage, RequestOk, Snapshots, Quiet
<1>4. Answer(s, id, row, fwd) => Inv'
  BY <1>2, IdleOk, MoveFrame DEF Answer
<1>5. QED
  BY <1>3, <1>4, MoveFrame DEF Created

\* A stored message is a sound answer under its own id.
LEMMA StoredAnswers ==
  ASSUME Inv, NEW k \in Users \X ClientIds, byClient[k] # None
  PROVE  /\ byClient[k] \in DOMAIN rows
         /\ rows[byClient[k]] \in Row
         /\ SameIdentity(rows[byClient[k]], rows[byClient[k]])
         /\ RowLegal(rows[byClient[k]])
  BY DEF Inv, TypeOK, IndexSound, SameIdentity, ModeSeparation

LEMMA LookUpStep ==
  ASSUME Inv, NEW s \in Slots, NEW draft \in Row, NEW fwd \in OptMsg, RowLegal(draft),
         LookUp(s, draft, fwd), UNCHANGED StoreVars, published' = published
  PROVE  Inv'
<1>1. Key(draft) \in Users \X ClientIds
  BY DEF Key, Row
<1>2. published' \subseteq Msgs
  BY DEF Inv, TypeOK
<1>3. CASE byClient[Key(draft)] # None
  BY <1>1, <1>2, <1>3, StoredAnswers, AnswerStep DEF LookUp
<1>4. CASE byClient[Key(draft)] = None
  <2> DEFINE r == [pc |-> IF draft.reply = None THEN "create" ELSE "reply",
                   row |-> draft, fwd |-> fwd]
  <2>1. r \in Request
    BY DEF Request, SendStage
  <2>2. RequestOk(r) /\ Quiet(r)
    BY DEF RequestOk, Snapshots, RepliesTo, Quiet
  <2>3. QED
    BY <1>2, <1>4, <2>1, <2>2, MoveFrame DEF LookUp
<1>5. QED
  BY <1>3, <1>4

\* A draft of legal content is a legal row.
LEMMA DraftLegal ==
  ASSUME NEW u \in Users, NEW ch \in Channels, NEW c \in ClientIds, NEW content \in Content,
         NEW reply \in OptMsg, ModeAccepts(ch, content)
  PROVE  Draft(u, ch, c, content, reply) \in Row /\ RowLegal(Draft(u, ch, c, content, reply))
<1>1. content.type \in {"text", "ciphertext", "tombstone"}
  BY DEF Content, Text, Cipher, Tomb
<1>2. QED
  BY <1>1 DEF Draft, Row, RowLegal, ModeAccepts, OptMsg

LEMMA SendStep ==
  ASSUME Inv, NEW s \in Slots, NEW u \in Users, NEW ch \in Channels, NEW c \in ClientIds,
         NEW content \in Contents, NEW reply \in OptMsg, Send(s, u, ch, c, content, reply)
  PROVE  Inv'
<1>1. content \in Content
  OBVIOUS
<1>2. QED
  BY <1>1, DraftLegal, LookUpStep DEF Send, StoreVars, OptMsg

LEMMA ForwardStep ==
  ASSUME Inv, NEW s \in Slots, NEW u \in Users, NEW id \in Msgs, NEW ch \in Channels,
         NEW c \in ClientIds, Forward(s, u, id, ch, c)
  PROVE  Inv'
<1> DEFINE draft == Draft(u, ch, c, rows[id].content, None)
           root  == IF rows[id].orig = None THEN id ELSE rows[id].orig
           r     == [pc |-> "lookup", row |-> draft, fwd |-> root]
<1>1. rows[id].content \in Content /\ root \in OptMsg
  BY DEF Inv, TypeOK, Forward, Exists, Row, OptMsg
<1>2. draft \in Row /\ RowLegal(draft)
  BY <1>1, DraftLegal DEF Forward, OptMsg
<1>3. r \in Request /\ RequestOk(r) /\ Quiet(r)
  BY <1>1, <1>2 DEF Request, SendStage, RequestOk, Snapshots, Quiet
<1>4. QED
  BY <1>3, MoveFrame DEF Forward, StoreVars, Inv, TypeOK

LEMMA ForwardLookUpStep ==
  ASSUME Inv, NEW s \in Slots, ForwardLookUp(s)
  PROVE  Inv'
<1>1. req[s] \in SendStage
  BY StageOf DEF Inv, ForwardLookUp
<1>2. RowLegal(req[s].row)
  BY DEF Inv, RequestsOk, RequestOk, ForwardLookUp
<1>3. QED
  BY <1>1, <1>2, LookUpStep DEF ForwardLookUp, StoreVars, SendStage

LEMMA CheckReplyStep ==
  ASSUME Inv, NEW s \in Slots, CheckReply(s)
  PROVE  Inv'
<1> DEFINE r == [req[s] EXCEPT !.pc = "create"]
<1>1. req[s] \in SendStage /\ RowLegal(req[s].row)
  BY StageOf DEF Inv, CheckReply, RequestsOk, RequestOk
<1>2. r \in Request /\ r.pc = "create" /\ r.row = req[s].row
  BY <1>1 DEF Request, SendStage
<1>3. ReplyTargetOk(req[s].row) => RequestOk(r) /\ Quiet(r)
  BY <1>1, <1>2 DEF ReplyTargetOk, RequestOk, RepliesTo, Snapshots, Quiet
<1>4. QED
  BY <1>2, <1>3, IdleOk, MoveFrame DEF CheckReply, StoreVars, Inv, TypeOK

LEMMA CreateConflictStep ==
  ASSUME Inv, NEW s \in Slots, CreateConflict(s)
  PROVE  Inv'
<1>1. req[s] \in SendStage
  BY StageOf DEF Inv, CreateConflict
<1>2. Key(req[s].row) \in Users \X ClientIds
  BY <1>1 DEF SendStage, Row, Key
<1>3. QED
  BY <1>1, <1>2, StoredAnswers, AnswerStep DEF CreateConflict, StoreVars, SendStage, Inv, TypeOK

LEMMA CreateCheckStep ==
  ASSUME Inv, NEW s \in Slots, CreateCheck(s)
  PROVE  Inv'
<1> DEFINE r == [req[s] EXCEPT !.pc = "insert"]
<1>1. req[s] \in SendStage /\ RowLegal(req[s].row) /\ RepliesTo(req[s].row)
  BY StageOf DEF Inv, CreateCheck, RequestsOk, RequestOk
<1>2. r \in Request /\ r.pc = "insert" /\ r.row = req[s].row
  BY <1>1 DEF Request, SendStage
<1>3. RequestOk(r) /\ Quiet(r)
  BY <1>1, <1>2 DEF CreateCheck, RequestOk, Snapshots, Quiet
<1>4. QED
  BY <1>2, <1>3, MoveFrame DEF CreateCheck, StoreVars, Inv, TypeOK

LEMMA PublishStep ==
  ASSUME Inv, NEW s \in Slots, Publish(s)
  PROVE  Inv'
<1>1. req[s] \in PublishStage
  BY StageOf DEF Inv, Publish
<1>2. SnapshotOk(<<req[s].id, req[s].row>>)
  BY DEF Inv, Publish, RequestsOk, RequestOk, Snapshots
<1>3. published' \subseteq Msgs
  BY <1>1 DEF Inv, TypeOK, Publish, PublishStage
<1>4. QED
  BY <1>1, <1>2, <1>3, AnswerStep DEF Publish, StoreVars, PublishStage, SnapshotOk

\* A request about to write a legal row over the stored row it was read from.
LEMMA RewriteStep ==
  ASSUME Inv, NEW s \in Slots, NEW id \in DOMAIN rows, NEW row \in Row, NEW next \in {"idle", "flush"},
         SameIdentity(row, rows[id]), RowLegal(row), Rewrite(s, id, row, next),
         UNCHANGED StoreVars, published' = published
  PROVE  Inv'
<1> DEFINE r == [pc |-> "write", id |-> id, row |-> row, next |-> next]
<1>1. r \in Request
  BY DEF Inv, TypeOK, Request, WriteStage
<1>2. SnapshotOk(<<id, row>>)
  BY DEF SnapshotOk
<1>3. RequestOk(r) /\ Quiet(r)
  BY <1>2 DEF RequestOk, Snapshots, Quiet
<1>4. QED
  BY <1>1, <1>3, MoveFrame DEF Rewrite, Inv, TypeOK

\* The rows that updates compute from a stored row are legal rows of the same identity.
LEMMA TombstoneLegal ==
  ASSUME NEW row \in Row, NEW reason \in {"deleted", "expired", "read_once_consumed"}
  PROVE  /\ Tombstone(row, reason) \in Row
         /\ SameIdentity(Tombstone(row, reason), row)
         /\ RowLegal(Tombstone(row, reason))
<1>1. Tombstone(row, reason) \in Row
  BY TombstoneIsRow
<1>2. QED
  BY <1>1 DEF Tombstone, Row, SameIdentity, RowLegal

LEMMA EditStep ==
  ASSUME Inv, NEW s \in Slots, NEW u \in Users, NEW id \in Msgs, NEW text \in Texts,
         Edit(s, u, id, text)
  PROVE  Inv'
<1> DEFINE new == [rows[id] EXCEPT !.content = [type |-> "text", text |-> text]]
<1>1. id \in DOMAIN rows /\ rows[id] \in Row /\ RowLegal(rows[id]) /\ rows[id].content.type = "text"
  BY DEF Inv, TypeOK, Edit, Exists, Editable, ModeSeparation
<1>2. [type |-> "text", text |-> text] \in Content
  BY DEF Content, Text
<1>3. new \in Row /\ SameIdentity(new, rows[id]) /\ RowLegal(new)
  BY <1>1, <1>2 DEF Row, SameIdentity, RowLegal
<1>4. QED
  BY <1>1, <1>3, RewriteStep DEF Edit, StoreVars

LEMMA SoftDeleteStep ==
  ASSUME Inv, NEW s \in Slots, NEW u \in Users, NEW id \in Msgs, SoftDelete(s, u, id)
  PROVE  Inv'
<1>1. id \in DOMAIN rows /\ rows[id] \in Row
  BY DEF Inv, TypeOK, SoftDelete, Exists
<1>2. QED
  BY <1>1, TombstoneLegal, RewriteStep DEF SoftDelete, StoreVars

LEMMA AckedLegal ==
  ASSUME NEW row \in Row, RowLegal(row)
  PROVE  AckedRow(row) \in Row /\ SameIdentity(AckedRow(row), row) /\ RowLegal(AckedRow(row))
<1> DEFINE read == [row EXCEPT !.state = "read"]
<1>1. read \in Row /\ SameIdentity(read, row) /\ RowLegal(read)
  BY DEF Row, SameIdentity, RowLegal
<1>2. QED
  BY <1>1, TombstoneLegal DEF AckedRow

LEMMA AckReadStep ==
  ASSUME Inv, NEW s \in Slots, NEW u \in Users, NEW id \in Msgs, AckRead(s, u, id)
  PROVE  Inv'
<1> DEFINE new == AckedRow(rows[id])
           r   == [pc |-> "receipt", id |-> id, row |-> new, user |-> u]
<1>1. id \in DOMAIN rows /\ rows[id] \in Row /\ RowLegal(rows[id])
  BY DEF Inv, TypeOK, AckRead, Exists, ModeSeparation
<1>2. new \in Row /\ SameIdentity(new, rows[id]) /\ RowLegal(new)
  BY <1>1, AckedLegal
<1>3. r \in Request
  BY <1>2 DEF Request, ReceiptStage
<1>4. SnapshotOk(<<id, new>>)
  BY <1>1, <1>2 DEF SnapshotOk
<1>5. RequestOk(r) /\ Quiet(r)
  BY <1>4 DEF RequestOk, Snapshots, Quiet
<1>6. AfterAck \in {"idle", "flush"}
  BY DEF AfterAck
<1>7. CASE rows[id].sender = u
  BY <1>1, <1>2, <1>6, <1>7, RewriteStep DEF AckRead, StoreVars
<1>8. CASE rows[id].sender # u
  BY <1>3, <1>5, <1>8, MoveFrame DEF AckRead, StoreVars, Inv, TypeOK
<1>9. QED
  BY <1>7, <1>8

LEMMA CleanupStep ==
  ASSUME Inv, NEW s \in Slots, CleanupExpired(s)
  PROVE  Inv'
<1> DEFINE todo == {<<id, Tombstone(rows[id], "expired")>> : id \in Expirable}
           r    == [pc |-> "sweep", todo |-> todo]
<1>1. \A id \in Expirable : id \in DOMAIN rows /\ id \in Msgs /\ rows[id] \in Row
  BY DEF Expirable, Inv, TypeOK
<1>2. \A e \in todo : e \in Msgs \X Row /\ SnapshotOk(e)
  BY <1>1, TombstoneLegal DEF SnapshotOk
<1>3. r \in Request
  BY <1>2 DEF Request, SweepStage
<1>4. RequestOk(r) /\ Quiet(r)
  BY <1>2 DEF RequestOk, Snapshots, Quiet
<1>5. QED
  BY <1>3, <1>4, MoveFrame DEF CleanupExpired, StoreVars, Inv, TypeOK

-----------------------------------------------------------------------------
(* Steps that change the rows *)

\* The invariant survives any step that adds or rewrites legal rows in keeping with
\* the index, and moves one slot to a request that is sound in the new store.
LEMMA StoreFrame ==
  ASSUME Inv, NEW s \in Slots, NEW r \in Request, Become(s, r), RequestOk(r)', Quiet(r),
         DOMAIN rows \subseteq DOMAIN rows',
         \A i \in DOMAIN rows : SameIdentity(rows'[i], rows[i]),
         TypeOK', IndexSound', ModeSeparation', ReplyInChannel',
         UNCHANGED <<receipts, pending, announced>>
  PROVE  Inv'
<1>1. \A t \in Slots : req[t] \in Request /\ (req'[t] = req[t] \/ req'[t] = r)
  BY DEF Inv, TypeOK, Become
<1>2. \A q \in Request : RequestOk(q) => RequestOk(q)'
  BY SoundStable
<1>3. \A t \in Slots : req'[t] = req[t] => RequestOk(req[t])'
  BY <1>1, <1>2 DEF Inv, RequestsOk, RequestOk
<1>4. RequestsOk'
  BY <1>1, <1>3 DEF RequestsOk, RequestOk
<1>5. ReceiptsAccounted'
  BY QuietAccounts DEF Inv
<1>6. QED
  BY <1>4, <1>5 DEF Inv

\* Both backends store a legal row of the identity they replace.
LEMMA StoredLegal ==
  ASSUME NEW old \in Row, NEW new \in Row, SameIdentity(new, old), RowLegal(new)
  PROVE  Stored(old, new) \in Row /\ SameIdentity(Stored(old, new), old) /\ RowLegal(Stored(old, new))
  BY DEF Stored, Row, SameIdentity, RowLegal

\* Overwriting a stored row with a sound snapshot keeps the store sound.
LEMMA OverwriteStore ==
  ASSUME Inv, NEW id, NEW row \in Row, SnapshotOk(<<id, row>>), req' \in [Slots -> Request],
         rows' = [rows EXCEPT ![id] = Stored(@, row)],
         UNCHANGED <<byClient, receipts, pins, lapsed, pending, announced, published>>
  PROVE  /\ DOMAIN rows' = DOMAIN rows
         /\ \A i \in DOMAIN rows : SameIdentity(rows'[i], rows[i])
         /\ TypeOK' /\ IndexSound' /\ ModeSeparation' /\ ReplyInChannel'
<1>1. id \in DOMAIN rows /\ rows[id] \in Row /\ SameIdentity(row, rows[id]) /\ RowLegal(row)
  BY DEF Inv, TypeOK, SnapshotOk
<1>2. \A i \in DOMAIN rows : rows'[i] = IF i = id THEN Stored(rows[id], row) ELSE rows[i]
  BY DEF Inv, TypeOK
<1>3. \A i \in DOMAIN rows : rows'[i] \in Row /\ SameIdentity(rows'[i], rows[i]) /\ RowLegal(rows'[i])
  BY <1>1, <1>2, StoredLegal DEF Inv, TypeOK, ModeSeparation, SameIdentity
<1>4. DOMAIN rows' = DOMAIN rows /\ rows' \in [DOMAIN rows -> Row]
  BY <1>1, <1>3 DEF Inv, TypeOK
<1>5. TypeOK'
  BY <1>4 DEF Inv, TypeOK
<1>6. IndexSound'
  BY <1>3, <1>4 DEF Inv, IndexSound, Key, SameIdentity
<1>7. ModeSeparation'
  BY <1>3, <1>4 DEF ModeSeparation, RowLegal
<1>8. ReplyInChannel'
  BY <1>3, <1>4 DEF Inv, ReplyInChannel, RepliesTo, Exists, SameIdentity
<1>9. QED
  BY <1>3, <1>4, <1>5, <1>6, <1>7, <1>8

LEMMA WriteStep ==
  ASSUME Inv, NEW s \in Slots, Write(s)
  PROVE  Inv'
<1>0. PICK r : r = [pc |-> req[s].next]
  OBVIOUS
<1>1. req[s] \in WriteStage
  BY StageOf DEF Inv, Write
<1>2. SnapshotOk(<<req[s].id, req[s].row>>)
  BY DEF Inv, Write, RequestsOk, RequestOk, Snapshots
<1>3. r \in Request /\ r.pc \in {"idle", "flush"}
  BY <1>0, <1>1 DEF Request, BareStage, WriteStage
<1>4. Quiet(r) /\ RequestOk(r)'
  BY <1>3 DEF Quiet, RequestOk, Snapshots
<1>5. req' \in [Slots -> Request]
  BY <1>0, <1>3, BecomeTyped DEF Write, Inv
<1>6. QED
  BY <1>0, <1>1, <1>2, <1>3, <1>4, <1>5, OverwriteStore, StoreFrame DEF Write, WriteStage

LEMMA SweepStep ==
  ASSUME Inv, NEW s \in Slots, Sweep(s)
  PROVE  Inv'
<1>1. PICK e \in req[s].todo :
        /\ rows' = [rows EXCEPT ![e[1]] = Stored(@, e[2])]
        /\ Become(s, IF req[s].todo = {e} THEN Idle ELSE [req[s] EXCEPT !.todo = @ \ {e}])
  BY DEF Sweep
<1> DEFINE rest == [req[s] EXCEPT !.todo = @ \ {e}]
<1>2. req[s] \in SweepStage
  BY StageOf DEF Inv, Sweep
<1>3. e \in Msgs \X Row /\ e = <<e[1], e[2]>> /\ e[2] \in Row
  BY <1>2 DEF SweepStage
<1>4. \A f \in req[s].todo : SnapshotOk(f)
  BY DEF Inv, Sweep, RequestsOk, RequestOk, Snapshots
<1>5. rest \in Request /\ RequestOk(rest) /\ Quiet(rest)
  <2>1. rest \in SweepStage /\ rest.pc = "sweep" /\ rest.todo \subseteq req[s].todo
    BY <1>2 DEF SweepStage
  <2>2. QED
    BY <1>4, <2>1 DEF Request, RequestOk, Snapshots, Quiet
<1>6. PICK r \in Request : Become(s, r) /\ RequestOk(r) /\ Quiet(r)
  BY <1>1, <1>5, IdleOk
<1>7. req' \in [Slots -> Request]
  BY <1>1, <1>6, BecomeTyped DEF Inv
<1>8. SnapshotOk(<<e[1], e[2]>>)
  BY <1>3, <1>4
<1>9. /\ DOMAIN rows' = DOMAIN rows
      /\ \A i \in DOMAIN rows : SameIdentity(rows'[i], rows[i])
      /\ TypeOK' /\ IndexSound' /\ ModeSeparation' /\ ReplyInChannel'
  BY <1>1, <1>3, <1>7, <1>8, OverwriteStore DEF Sweep
<1>10. RequestOk(r)'
  BY <1>6, <1>9, SoundStable
<1>11. QED
  BY <1>1, <1>6, <1>9, <1>10, StoreFrame DEF Sweep

\* Storing a checked draft under a fresh id and a free key.
LEMMA InsertStep ==
  ASSUME Inv, NEW s \in Slots, NEW m \in Msgs, req[s].pc \in {"create", "insert"},
         Backend = "drizzle" => KeyFree(s), Insert(s, m)
  PROVE  Inv'
<1>0. PICK row, fwd : row = req[s].row /\ fwd = req[s].fwd
  OBVIOUS
<1> DEFINE hear == [pc |-> "publish", id |-> m, row |-> row, fwd |-> fwd]
           new  == [row EXCEPT !.orig = fwd]
           stamp == [pc |-> "write", id |-> m, row |-> new, next |-> "idle"]
<1>1. req[s] \in SendStage /\ row \in Row /\ fwd \in OptMsg
  BY <1>0, StageOf DEF Inv, SendStage
<1>2. RowLegal(row) /\ RepliesTo(row)
  BY <1>0 DEF Inv, RequestsOk, RequestOk
<1>3. Key(row) \in Users \X ClientIds
  BY <1>1 DEF Key, Row
<1>4. /\ DOMAIN rows' = DOMAIN rows \cup {m} /\ m \notin DOMAIN rows
      /\ rows'[m] = row
      /\ \A i \in DOMAIN rows : rows'[i] = rows[i]
  BY <1>0 DEF Insert
<1>5. byClient' = [byClient EXCEPT ![Key(row)] = m]
  BY <1>0 DEF Insert
<1>6. \A i \in DOMAIN rows : SameIdentity(rows'[i], rows[i])
  BY <1>4 DEF SameIdentity
<1>7. IndexSound'
  <2>1. ASSUME NEW k \in Users \X ClientIds, byClient'[k] # None
        PROVE  byClient'[k] \in DOMAIN rows' /\ Key(rows'[byClient'[k]]) = k
    BY <1>3, <1>4, <1>5, <2>1 DEF Inv, TypeOK, IndexSound, Key
  <2>2. ASSUME Backend = "drizzle", NEW i \in DOMAIN rows'
        PROVE  byClient'[Key(rows'[i])] = i
    <3>1. CASE i = m
      BY <1>3, <1>4, <1>5, <3>1 DEF Inv, TypeOK
    <3>2. CASE i # m
      <4>1. i \in DOMAIN rows /\ byClient[Key(rows[i])] = i
        BY <1>4, <2>2, <3>2 DEF Inv, IndexSound
      <4>2. i # None
        BY <4>1 DEF Inv, TypeOK
      <4>3. Key(rows[i]) # Key(row)
        BY <1>0, <2>2, <4>1, <4>2 DEF KeyFree
      <4>4. Key(rows[i]) \in Users \X ClientIds
        BY <4>1 DEF Inv, TypeOK, Row, Key
      <4>5. byClient'[Key(rows[i])] = i
        BY <1>5, <4>1, <4>3, <4>4 DEF Inv, TypeOK
      <4>6. QED
        BY <1>4, <4>1, <4>5
    <3>3. QED
      BY <3>1, <3>2
  <2>3. QED
    BY <2>1, <2>2 DEF IndexSound, Key
<1>8. ModeSeparation'
  BY <1>2, <1>4 DEF Inv, ModeSeparation, RowLegal
<1>9. ReplyInChannel'
  BY <1>2, <1>4 DEF Inv, ReplyInChannel, RepliesTo, Exists
<1>10. hear \in Request /\ Quiet(hear)
  BY <1>1 DEF Request, PublishStage, Quiet
<1>11. RequestOk(hear)'
  BY <1>2, <1>4 DEF RequestOk, Snapshots, SnapshotOk, SameIdentity, RowLegal
<1>12. ASSUME fwd # None PROVE stamp \in Request /\ Quiet(stamp) /\ RequestOk(stamp)'
  <2>1. new \in Row /\ SameIdentity(new, row) /\ RowLegal(new)
    BY <1>1, <1>2, <1>12 DEF Row, OptMsg, SameIdentity, RowLegal
  <2>2. stamp \in Request /\ Quiet(stamp)
    BY <2>1 DEF Request, WriteStage, Quiet
  <2>3. SnapshotOk(<<m, new>>)'
    <3> HIDE DEF new
    <3> QED
      BY <1>4, <2>1 DEF SnapshotOk, SameIdentity, RowLegal
  <2>4. QED
    BY <2>2, <2>3 DEF RequestOk, Snapshots
<1>13. RequestOk(Idle)'
  BY DEF Idle, RequestOk, Snapshots
<1>14. PICK r \in Request : Become(s, r) /\ Quiet(r) /\ RequestOk(r)'
  BY <1>0, <1>10, <1>11, <1>12, <1>13, IdleOk DEF Insert, Created, Answer
<1>15. TypeOK'
  <2>1. rows' \in [DOMAIN rows' -> Row] /\ DOMAIN rows' \subseteq Msgs
    BY <1>1, <1>4 DEF Inv, TypeOK, Insert
  <2>2. byClient' \in [Users \X ClientIds -> OptMsg]
    BY <1>5 DEF Inv, TypeOK, OptMsg
  <2>3. req' \in [Slots -> Request]
    BY <1>14, BecomeTyped DEF Inv
  <2>4. QED
    BY <2>1, <2>2, <2>3 DEF Inv, TypeOK, Insert
<1>16. DOMAIN rows \subseteq DOMAIN rows'
  BY <1>4
<1>17. QED
  BY <1>6, <1>7, <1>8, <1>9, <1>14, <1>15, <1>16, StoreFrame DEF Insert

-----------------------------------------------------------------------------
(* Steps that move receipts *)

\* A step that leaves the rows alone and keeps every request sound.
LEMMA RowsFrame ==
  ASSUME Inv, NEW s \in Slots, NEW r \in Request, Become(s, r), RequestOk(r),
         UNCHANGED <<rows, byClient>>, TypeOK', ReceiptsAccounted'
  PROVE  Inv'
<1>1. IndexSound' /\ ModeSeparation' /\ ReplyInChannel'
  BY DEF Inv, IndexSound, ModeSeparation, ReplyInChannel, RowLegal, RepliesTo, Exists, Key
<1>2. \A q \in Request : RequestOk(q) => RequestOk(q)'
  BY SoundStable DEF SameIdentity
<1>3. \A t \in Slots : req[t] \in Request /\ (req'[t] = req[t] \/ req'[t] = r)
  BY DEF Inv, TypeOK, Become
<1>4. RequestsOk'
  BY <1>2, <1>3 DEF Inv, RequestsOk, RequestOk
<1>5. QED
  BY <1>1, <1>4 DEF Inv

\* The slots other than s keep what they hold for the receipts' accounts.
LEMMA OthersKeep ==
  ASSUME TypeOK, NEW s \in Slots, NEW r, Become(s, r)
  PROVE  /\ req'[s] = r
         /\ \A t \in Slots \ {s} : Queueing(t)' = Queueing(t) /\ Announcing(t)' = Announcing(t)
  BY DEF TypeOK, Become, Queueing, Announcing, Receipt

\* A request that came from the receipt stage writes its row next.
LEMMA AckWrites ==
  ASSUME Inv, NEW s \in Slots, req[s].pc \in {"receipt", "queue"}
  PROVE  LET r == [pc |-> "write", id |-> req[s].id, row |-> req[s].row, next |-> AfterAck]
         IN  r \in Request /\ RequestOk(r) /\ Quiet(r)
<1> DEFINE r == [pc |-> "write", id |-> req[s].id, row |-> req[s].row, next |-> AfterAck]
<1>1. req[s] \in ReceiptStage
  BY StageOf DEF Inv
<1>2. SnapshotOk(<<req[s].id, req[s].row>>)
  BY DEF Inv, RequestsOk, RequestOk, Snapshots
<1>3. r \in Request
  BY <1>1 DEF ReceiptStage, Request, WriteStage, AfterAck
<1>4. RequestOk(r) /\ Quiet(r)
  BY <1>2 DEF RequestOk, Snapshots, Quiet
<1>5. QED
  BY <1>3, <1>4

LEMMA RecordReceiptStep ==
  ASSUME Inv, NEW s \in Slots, RecordReceipt(s)
  PROVE  Inv'
<1>1. req[s] \in ReceiptStage /\ req[s].pc = "receipt"
  BY StageOf DEF Inv, RecordReceipt
<1>2. Receipt(s) \in Pair
  BY <1>1 DEF Receipt, Pair, ReceiptStage
<1>3. CASE ~ FirstReceipt(s)
  <2>1. UNCHANGED <<receipts, pending, announced>>
    BY <1>3 DEF RecordReceipt, FirstReceipt
  <2> DEFINE r == [pc |-> "write", id |-> req[s].id, row |-> req[s].row, next |-> AfterAck]
  <2>2. r \in Request /\ RequestOk(r) /\ Quiet(r)
    BY <1>1, AckWrites
  <2>3. QED
    BY <1>3, <2>1, <2>2, MoveFrame DEF RecordReceipt, Rewrite, StoreVars, Inv, TypeOK
<1>4. CASE FirstReceipt(s)
  <2> DEFINE r == [req[s] EXCEPT !.pc = "queue"]
  <2>1. r \in Request /\ r.pc = "queue" /\ r.id = req[s].id /\ r.row = req[s].row /\ r.user = req[s].user
    BY <1>1 DEF Request, ReceiptStage
  <2>2. RequestOk(r)
    BY <1>1, <2>1 DEF Inv, RequestsOk, RequestOk, Snapshots
  <2>3. Become(s, r)
    BY <1>4 DEF RecordReceipt
  <2>4. TypeOK'
    BY <1>2, <2>1, <2>3, BecomeTyped DEF Inv, TypeOK, RecordReceipt
  <2>5. Queueing(s)' = {Receipt(s)} /\ Announcing(s)' = {}
    BY <2>1, <2>3 DEF Inv, TypeOK, Become, Queueing, Announcing, Receipt
  <2>6. \A t \in Slots \ {s} : Queueing(t)' = Queueing(t) /\ Announcing(t)' = Announcing(t)
    BY <2>3, OthersKeep DEF Inv
  <2>7. Receipt(s) \notin receipts
    BY <1>4 DEF FirstReceipt
  <2>8. ReceiptsAccounted'
    BY <2>5, <2>6, <2>7 DEF Inv, ReceiptsAccounted, ReceiptOnce, RecordReceipt
  <2>9. QED
    BY <2>1, <2>2, <2>3, <2>4, <2>8, RowsFrame DEF RecordReceipt
<1>5. QED
  BY <1>3, <1>4

LEMMA QueueReceiptStep ==
  ASSUME Inv, NEW s \in Slots, QueueReceipt(s)
  PROVE  Inv'
<1> DEFINE r == [pc |-> "write", id |-> req[s].id, row |-> req[s].row, next |-> AfterAck]
<1>1. r \in Request /\ RequestOk(r)
  BY AckWrites DEF QueueReceipt
<1>2. Become(s, r)
  BY DEF QueueReceipt, Rewrite
<1>3. Queueing(s) = {Receipt(s)} /\ Receipt(s) \in Pair
  <2>1. req[s] \in ReceiptStage
    BY StageOf DEF Inv, QueueReceipt
  <2>2. QED
    BY <2>1 DEF QueueReceipt, Queueing, Receipt, Pair, ReceiptStage
<1>4. TypeOK'
  BY <1>1, <1>2, <1>3, BecomeTyped DEF Inv, TypeOK, QueueReceipt
<1>5. Queueing(s)' = {} /\ Announcing(s)' = {}
  BY <1>2 DEF Inv, TypeOK, Become, Queueing, Announcing
<1>6. \A t \in Slots \ {s} : Queueing(t)' = Queueing(t) /\ Announcing(t)' = Announcing(t)
  BY <1>2, OthersKeep DEF Inv
<1>7. ReceiptsAccounted'
  BY <1>3, <1>5, <1>6 DEF Inv, ReceiptsAccounted, ReceiptOnce, QueueReceipt
<1>8. QED
  BY <1>1, <1>2, <1>4, <1>7, RowsFrame DEF QueueReceipt

LEMMA FlushStep ==
  ASSUME Inv, NEW s \in Slots, Flush(s)
  PROVE  Inv'
<1> DEFINE r == [pc |-> "announce", batch |-> pending]
<1>1. r \in Request /\ RequestOk(r)
  BY DEF Inv, TypeOK, Request, AnnounceStage, RequestOk, Snapshots
<1>2. Become(s, r)
  BY DEF Flush
<1>3. TypeOK'
  BY <1>1, <1>2, BecomeTyped DEF Inv, TypeOK, Flush
<1>4. Queueing(s)' = {} /\ Announcing(s)' = pending
  BY <1>2 DEF Inv, TypeOK, Become, Queueing, Announcing
<1>5. \A t \in Slots \ {s} : Queueing(t)' = Queueing(t) /\ Announcing(t)' = Announcing(t)
  BY <1>2, OthersKeep DEF Inv
<1>6. ReceiptsAccounted'
  BY <1>4, <1>5 DEF Inv, ReceiptsAccounted, ReceiptOnce, Flush
<1>7. QED
  BY <1>1, <1>2, <1>3, <1>6, RowsFrame DEF Flush

LEMMA AnnounceStep ==
  ASSUME Inv, NEW s \in Slots, Announce(s)
  PROVE  Inv'
<1>1. Become(s, Idle)
  BY DEF Announce
<1>2. Announcing(s) = req[s].batch /\ req[s].batch \subseteq Pair
  <2>1. req[s] \in AnnounceStage
    BY StageOf DEF Inv, Announce
  <2>2. QED
    BY <2>1 DEF Announce, Announcing, AnnounceStage
<1>3. TypeOK'
  BY <1>1, <1>2, IdleOk, BecomeTyped DEF Inv, TypeOK, Announce
<1>4. Queueing(s)' = {} /\ Announcing(s)' = {}
  BY <1>1 DEF Inv, TypeOK, Become, Idle, Queueing, Announcing
<1>5. \A t \in Slots \ {s} : Queueing(t)' = Queueing(t) /\ Announcing(t)' = Announcing(t)
  BY <1>1, OthersKeep DEF Inv
<1>6. ReceiptsAccounted'
  BY <1>2, <1>4, <1>5 DEF Inv, ReceiptsAccounted, ReceiptOnce, Announce
<1>7. QED
  BY <1>1, <1>3, <1>6, IdleOk, RowsFrame DEF Announce

-----------------------------------------------------------------------------
(* Pins, time and restarts *)

\* The pin stages hold no row and no receipt.
LEMMA PinFrame ==
  ASSUME Inv, NEW s \in Slots, NEW r \in Request, r.pc \in {"idle", "pin", "pinExists", "pinInsert"},
         Become(s, r), pins' \in [Channels -> SUBSET Msgs],
         UNCHANGED <<rows, byClient, receipts, lapsed, pending, announced, published>>
  PROVE  Inv'
<1>1. RequestOk(r) /\ Quiet(r)
  BY DEF RequestOk, Snapshots, Quiet
<1>2. TypeOK'
  BY BecomeTyped DEF Inv, TypeOK
<1>3. ReceiptsAccounted'
  BY <1>1, QuietAccounts DEF Inv
<1>4. QED
  BY <1>1, <1>2, <1>3, RowsFrame

LEMMA PinSteps ==
  ASSUME Inv, NEW s \in Slots,
         \/ \E u \in Users, ch \in Channels, id \in Msgs : PinMessage(s, u, ch, id)
         \/ PinInMemory(s) \/ PinCount(s) \/ PinExists(s) \/ PinInsert(s)
  PROVE  Inv'
<1>1. \A id \in Msgs, ch \in Channels : [pc |-> "pin", id |-> id, ch |-> ch] \in Request
  BY DEF Request, PinStage
<1>2. CASE \E u \in Users, ch \in Channels, id \in Msgs : PinMessage(s, u, ch, id)
  BY <1>1, <1>2, PinFrame DEF PinMessage, Inv, TypeOK
<1>3. req[s].pc \in {"pin", "pinExists", "pinInsert"} => req[s] \in PinStage
  BY StageOf DEF Inv
<1>4. ASSUME req[s] \in PinStage, NEW pc \in {"pinExists", "pinInsert"}
      PROVE  [req[s] EXCEPT !.pc = pc] \in Request /\ [req[s] EXCEPT !.pc = pc].pc = pc
  BY <1>4 DEF Request, PinStage
<1>5. ASSUME req[s] \in PinStage, AddPin(s)
      PROVE  pins' \in [Channels -> SUBSET Msgs] /\ Become(s, Idle)
  BY <1>5 DEF AddPin, PinStage, Inv, TypeOK
<1>6. Idle \in Request /\ Idle.pc = "idle"
  BY IdleOk DEF Idle
<1>7. CASE PinInMemory(s)
  BY <1>3, <1>5, <1>6, <1>7, PinFrame DEF PinInMemory, Inv, TypeOK
<1>8. CASE PinCount(s)
  BY <1>3, <1>4, <1>8, PinFrame DEF PinCount, Inv, TypeOK
<1>9. CASE PinExists(s)
  BY <1>3, <1>4, <1>6, <1>9, PinFrame DEF PinExists, Inv, TypeOK
<1>10. CASE PinInsert(s)
  BY <1>3, <1>5, <1>6, <1>10, PinFrame DEF PinInsert
<1>11. QED
  BY <1>2, <1>7, <1>8, <1>9, <1>10

\* Steps that move no request: unpinning, the passing of time, nothing at all.
LEMMA QuietSteps ==
  ASSUME Inv, UNCHANGED <<rows, byClient, receipts, pending, req, announced, published>>,
         pins' \in [Channels -> SUBSET Msgs], lapsed' \in BOOLEAN
  PROVE  Inv'
<1>1. TypeOK'
  BY DEF Inv, TypeOK
<1>2. IndexSound' /\ ModeSeparation' /\ ReplyInChannel'
  BY DEF Inv, IndexSound, ModeSeparation, ReplyInChannel, RowLegal, RepliesTo, Exists, Key
<1>3. \A q \in Request : RequestOk(q) => RequestOk(q)'
  BY SoundStable DEF SameIdentity
<1>4. RequestsOk'
  BY <1>3 DEF Inv, TypeOK, RequestsOk, RequestOk
<1>5. ReceiptsAccounted'
  BY DEF Inv, ReceiptsAccounted, ReceiptOnce, Queueing, Announcing, Receipt
<1>6. QED
  BY <1>1, <1>2, <1>4, <1>5 DEF Inv

LEMMA RestartStep ==
  ASSUME Inv, Restart
  PROVE  Inv'
<1>1. TypeOK'
  BY IdleOk DEF Inv, TypeOK, Restart
<1>2. IndexSound' /\ ModeSeparation' /\ ReplyInChannel'
  BY DEF Inv, Restart, IndexSound, ModeSeparation, ReplyInChannel, RowLegal, RepliesTo, Exists, Key
<1>3. \A t \in Slots : req'[t] = Idle
  BY DEF Restart
<1>4. RequestsOk'
  BY <1>3 DEF RequestsOk, RequestOk, Idle, Snapshots
<1>5. ReceiptsAccounted'
  BY <1>3 DEF Inv, Restart, ReceiptsAccounted, ReceiptOnce, Idle, Queueing, Announcing
<1>6. QED
  BY <1>1, <1>2, <1>4, <1>5 DEF Inv

-----------------------------------------------------------------------------
(* The theorems *)

LEMMA InitInv == Init => Inv
<1> SUFFICES ASSUME Init PROVE Inv
  OBVIOUS
<1>1. TypeOK
  BY IdleOk DEF Init, TypeOK, OptMsg
<1>2. IndexSound /\ ModeSeparation /\ ReplyInChannel
  BY DEF Init, IndexSound, ModeSeparation, ReplyInChannel
<1>3. RequestsOk
  BY IdleOk DEF Init, RequestsOk
<1>4. ReceiptsAccounted
  BY DEF Init, Idle, ReceiptsAccounted, ReceiptOnce, Queueing, Announcing
<1>5. QED
  BY <1>1, <1>2, <1>3, <1>4 DEF Inv

LEMMA ArriveStep ==
  ASSUME Inv, NEW s \in Slots, Arrive(s)
  PROVE  Inv'
<1>1. Targets \subseteq OptMsg
  BY DEF Targets, OptMsg
<1>2. QED
  BY <1>1, SendStep, ForwardStep, EditStep, SoftDeleteStep, AckReadStep, CleanupStep, PinSteps
     DEF Arrive

LEMMA ProceedStep ==
  ASSUME Inv, NEW s \in Slots, Proceed(s)
  PROVE  Inv'
<1>1. ASSUME NEW m \in Msgs, CreateRow(s, m) \/ CreateStore(s, m) PROVE Inv'
  <2>1. CASE CreateRow(s, m)
    BY <2>1, InsertStep DEF CreateRow
  <2>2. CASE CreateStore(s, m)
    <3>1. Backend = "memory"
      BY <2>2 DEF CreateStore, Inv, RequestsOk, RequestOk
    <3>2. QED
      BY <2>2, <3>1, InsertStep DEF CreateStore
  <2>3. QED
    BY <1>1, <2>1, <2>2
<1>2. QED
  BY <1>1, ForwardLookUpStep, CheckReplyStep, CreateConflictStep, CreateCheckStep, PublishStep,
     RecordReceiptStep, QueueReceiptStep, WriteStep, FlushStep, AnnounceStep, SweepStep, PinSteps
     DEF Proceed

LEMMA NextInv == Inv /\ [Next]_vars => Inv'
<1> SUFFICES ASSUME Inv, [Next]_vars PROVE Inv'
  OBVIOUS
<1>1. ASSUME NEW s \in Slots, Arrive(s) \/ Proceed(s) PROVE Inv'
  BY <1>1, ArriveStep, ProceedStep
<1>2. ASSUME NEW u \in Users, NEW ch \in Channels, NEW id \in Msgs, Unpin(u, ch, id) PROVE Inv'
  BY <1>2, QuietSteps DEF Unpin, Inv, TypeOK
<1>3. CASE Lapse
  BY <1>3, QuietSteps DEF Lapse, Inv, TypeOK
<1>4. CASE UNCHANGED vars
  BY <1>4, QuietSteps DEF vars, Inv, TypeOK
<1>5. QED
  BY <1>1, <1>2, <1>3, <1>4, RestartStep DEF Next

\* In every reachable state of either backend, with any number of concurrent requests:
\* types, index, channel-mode separation, replies, snapshots and receipt accounts hold.
THEOREM Invariance == Spec => []Inv
  BY InitInv, NextInv, PTL DEF Spec

\* Over PostgreSQL a sender's clientMsgId names at most one message, however sends,
\* retries, forwards and restarts interleave.
THEOREM Idempotency == ASSUME Backend = "drizzle" PROVE Spec => []OneRowPerClientId
<1>1. Inv => OneRowPerClientId
  BY DEF Inv, IndexSound, OneRowPerClientId
<1>2. QED
  BY <1>1, Invariance, PTL

\* Three parts of the invariant on their own: no plaintext is stored in an end-to-end
\* encrypted channel and no ciphertext in another, whatever the mode was when asked; ...
THEOREM Separation == Spec => []ModeSeparation
<1>1. Inv => ModeSeparation
  BY DEF Inv
<1>2. QED
  BY <1>1, Invariance, PTL

\* ... a reply and its root are in one channel, though the root is read earlier; ...
THEOREM RepliesStay == Spec => []ReplyInChannel
<1>1. Inv => ReplyInChannel
  BY DEF Inv
<1>2. QED
  BY <1>1, Invariance, PTL

\* ... and a reader of a message is counted in one message.read event at most.
THEOREM CountedOnce == Spec => []ReceiptOnce
<1>1. Inv => ReceiptOnce
  BY DEF Inv, ReceiptsAccounted
<1>2. QED
  BY <1>1, Invariance, PTL

-----------------------------------------------------------------------------
(* Over PostgreSQL the store implements the abstract message log *)

EntryOf(i) == [id |-> i, ch |-> rows[i].ch, sender |-> rows[i].sender, cid |-> rows[i].cid]

\* A step that keeps the identity of every row, and adds none, is a stutter of the log.
LEMMA LogStutters ==
  ASSUME DOMAIN rows' = DOMAIN rows, \A i \in DOMAIN rows : SameIdentity(rows'[i], rows[i])
  PROVE  Log' = Log
<1>1. \A i \in DOMAIN rows : EntryOf(i)' = EntryOf(i)
  BY DEF EntryOf, SameIdentity
<1>2. Log = {EntryOf(i) : i \in DOMAIN rows}
  BY DEF Log, EntryOf
<1>3. Log' = {EntryOf(i)' : i \in DOMAIN rows'}
  BY DEF Log, EntryOf
<1>4. QED
  BY <1>1, <1>2, <1>3

\* Storing a row under a free key appends one entry.
LEMMA InsertAppends ==
  ASSUME Inv, NEW s \in Slots, NEW m \in Msgs, Backend = "drizzle", CreateRow(s, m)
  PROVE  Abstract!Next
<1>0. PICK row : row = req[s].row
  OBVIOUS
<1> DEFINE e == [id |-> m, ch |-> row.ch, sender |-> row.sender, cid |-> row.cid]
<1>1. row \in Row
  BY <1>0, StageOf DEF Inv, CreateRow, SendStage
<1>2. e \in Abstract!Entry
  BY <1>1 DEF Abstract!Entry, Row
<1>3. /\ DOMAIN rows' = DOMAIN rows \cup {m} /\ m \notin DOMAIN rows
      /\ rows'[m] = row
      /\ \A i \in DOMAIN rows : rows'[i] = rows[i]
  BY <1>0 DEF CreateRow, Insert
<1>4. Log' = Log \cup {e}
  <2>1. Log' = {[id |-> i, ch |-> rows'[i].ch, sender |-> rows'[i].sender, cid |-> rows'[i].cid] : i \in DOMAIN rows'}
    BY DEF Log
  <2>2. QED
    BY <1>3, <2>1 DEF Log
<1>5. ASSUME NEW i \in DOMAIN rows PROVE i # m /\ Key(rows[i]) # Key(row)
  <2>1. byClient[Key(rows[i])] = i /\ i # None
    BY DEF Inv, IndexSound, TypeOK
  <2>2. byClient[Key(row)] = None
    BY <1>0 DEF CreateRow, KeyFree
  <2>3. QED
    BY <1>3, <2>1, <2>2
<1>6. \A f \in Log : f.id # e.id /\ ~ (f.sender = e.sender /\ f.cid = e.cid)
  BY <1>5 DEF Log, Key
<1>7. Abstract!Append(e)
  BY <1>4, <1>6 DEF Abstract!Append
<1>8. QED
  BY <1>2, <1>7 DEF Abstract!Next

LEMMA RefineStep ==
  ASSUME Backend = "drizzle"
  PROVE  Inv /\ [Next]_vars => [Abstract!Next]_Log
<1> SUFFICES ASSUME Inv, [Next]_vars PROVE Abstract!Next \/ Log' = Log
  OBVIOUS
<1>1. rows' = rows => Log' = Log
  BY DEF Log
<1>2. ASSUME NEW s \in Slots, Arrive(s) PROVE rows' = rows
  BY <1>2 DEF Arrive, Send, Forward, Edit, SoftDelete, AckRead, CleanupExpired, PinMessage
<1>3. ASSUME NEW s \in Slots, Proceed(s) PROVE Abstract!Next \/ Log' = Log
  <2>1. ASSUME NEW m \in Msgs, CreateRow(s, m) PROVE Abstract!Next
    BY <2>1, InsertAppends
  <2>2. ~ \E m \in Msgs : CreateStore(s, m)
    BY DEF CreateStore, Inv, RequestsOk, RequestOk
  <2>3. CASE Write(s)
    <3>1. req[s] \in WriteStage /\ SnapshotOk(<<req[s].id, req[s].row>>)
      BY <2>3, StageOf DEF Inv, Write, RequestsOk, RequestOk, Snapshots
    <3>2. req' \in [Slots -> Request]
      BY <2>3, WriteStep DEF Inv, TypeOK
    <3>3. QED
      BY <2>3, <3>1, <3>2, OverwriteStore, LogStutters DEF Write, WriteStage
  <2>4. CASE Sweep(s)
    <3>1. PICK e \in req[s].todo : rows' = [rows EXCEPT ![e[1]] = Stored(@, e[2])]
      BY <2>4 DEF Sweep
    <3>2. req[s] \in SweepStage
      BY <2>4, StageOf DEF Inv, Sweep
    <3>3. e = <<e[1], e[2]>> /\ e[2] \in Row
      BY <3>2 DEF SweepStage
    <3>4. SnapshotOk(e)
      BY <2>4 DEF Inv, Sweep, RequestsOk, RequestOk, Snapshots
    <3>5. SnapshotOk(<<e[1], e[2]>>)
      BY <3>3, <3>4
    <3>6. UNCHANGED <<byClient, receipts, pins, lapsed, pending, announced, published>>
      BY <2>4 DEF Sweep
    <3>7. req' \in [Slots -> Request]
      BY <2>4, SweepStep DEF Inv, TypeOK
    <3>8. DOMAIN rows' = DOMAIN rows /\ \A i \in DOMAIN rows : SameIdentity(rows'[i], rows[i])
      BY <3>1, <3>3, <3>5, <3>6, <3>7, OverwriteStore
    <3>9. QED
      BY <3>8, LogStutters
  <2>5. CASE ForwardLookUp(s) \/ CheckReply(s) \/ CreateConflict(s) \/ CreateCheck(s)
    BY <1>1, <2>5 DEF ForwardLookUp, CheckReply, CreateConflict, CreateCheck
  <2>6. CASE Publish(s) \/ RecordReceipt(s) \/ QueueReceipt(s) \/ Flush(s) \/ Announce(s)
    BY <1>1, <2>6 DEF Publish, RecordReceipt, QueueReceipt, Flush, Announce
  <2>7. CASE PinInMemory(s) \/ PinCount(s) \/ PinExists(s) \/ PinInsert(s)
    BY <1>1, <2>7 DEF PinInMemory, PinCount, PinExists, PinInsert
  <2>8. QED
    BY <1>3, <2>1, <2>2, <2>3, <2>4, <2>5, <2>6, <2>7 DEF Proceed
<1>4. CASE \E u \in Users, ch \in Channels, id \in Msgs : Unpin(u, ch, id)
  BY <1>1, <1>4 DEF Unpin
<1>5. CASE Lapse \/ Restart \/ UNCHANGED vars
  BY <1>1, <1>5 DEF Lapse, Restart, vars
<1>6. QED
  BY <1>1, <1>2, <1>3, <1>4, <1>5 DEF Next

\* The store over PostgreSQL is an append-only log with unique keys: no edit, delete,
\* acknowledgement, forward, clean-up or restart changes who wrote what, or where.
THEOREM StoreImplementsLog == ASSUME Backend = "drizzle" PROVE Spec => ImplementsLog
<1>1. Init => Abstract!Init
  BY DEF Init, Abstract!Init, Log
<1>2. QED
  BY <1>1, RefineStep, Invariance, PTL DEF Spec, ImplementsLog, Abstract!Spec

-----------------------------------------------------------------------------
(* The pin cap, where no other request runs between the count and the insert *)

Serial == \A s, t \in Slots : s = t

\* A request that has counted and found room, or its own pin, still does.
PinsOk ==
  /\ \A ch \in Channels : IsFiniteSet(pins[ch]) /\ Cardinality(pins[ch]) <= MaxPins
  /\ \A s \in Slots :
       /\ req[s].pc \in {"pinExists", "pinInsert"} => Backend = "drizzle"
       /\ req[s].pc = "pinInsert" =>
            Cardinality(pins[req[s].ch]) < MaxPins \/ req[s].id \in pins[req[s].ch]

\* Steps that touch no pin and leave a slot in no later stage of a pin.
LEMMA PinKeep ==
  ASSUME Inv, PinsOk, NEW s \in Slots, NEW r, Become(s, r),
         r.pc \notin {"pinExists", "pinInsert"}, pins' = pins
  PROVE  PinsOk'
<1>1. req'[s] = r /\ \A t \in Slots : t # s => req'[t] = req[t]
  BY DEF Inv, TypeOK, Become
<1>2. QED
  BY <1>1 DEF PinsOk

LEMMA RewritePins ==
  ASSUME Inv, PinsOk, NEW s \in Slots, NEW id, NEW row, NEW next, Rewrite(s, id, row, next), pins' = pins
  PROVE  PinsOk'
<1> DEFINE r == [pc |-> "write", id |-> id, row |-> row, next |-> next]
<1>1. Become(s, r) /\ r.pc = "write"
  BY DEF Rewrite
<1> HIDE DEF r
<1>2. QED
  BY <1>1, PinKeep

\* One pin more, where there is room for it or it is there already.
LEMMA PinAdded ==
  ASSUME Inv, PinsOk, NEW s \in Slots, req[s] \in PinStage, AddPin(s),
         Backend = "memory" \/ Serial,
         Cardinality(pins[req[s].ch]) < MaxPins \/ req[s].id \in pins[req[s].ch]
  PROVE  PinsOk'
<1> DEFINE ch == req[s].ch
           new == pins[ch] \cup {req[s].id}
<1>1. ch \in Channels /\ IsFiniteSet(pins[ch]) /\ Cardinality(pins[ch]) <= MaxPins
  BY DEF PinStage, PinsOk
<1>2. /\ pins' = [pins EXCEPT ![ch] = new] /\ req'[s] = Idle /\ \A t \in Slots : t # s => req'[t] = req[t]
  BY DEF AddPin, Become, Inv, TypeOK
<1>3. IsFiniteSet(new) /\ Cardinality(new) <= MaxPins
  <2>1. Cardinality(pins[ch]) \in Nat /\ IsFiniteSet(new)
        /\ Cardinality(new) = (IF req[s].id \in pins[ch] THEN Cardinality(pins[ch]) ELSE Cardinality(pins[ch]) + 1)
    BY <1>1, FS_AddElement, FS_CardinalityType
  <2>2. CASE req[s].id \in pins[ch]
    BY <1>1, <2>1, <2>2
  <2>3. CASE req[s].id \notin pins[ch]
    BY <1>1, <2>1, <2>3
  <2>4. QED
    BY <2>2, <2>3
<1> HIDE DEF new
<1>4. pins'[ch] = new /\ \A c \in Channels : c # ch => pins'[c] = pins[c]
  BY <1>1, <1>2 DEF Inv, TypeOK
<1>5. \A t \in Slots : req'[t].pc \notin {"pinExists", "pinInsert"}
  BY <1>2 DEF PinsOk, Serial, Idle
<1>6. QED
  BY <1>3, <1>4, <1>5 DEF PinsOk

LEMMA PinsKept ==
  ASSUME Backend = "memory" \/ Serial
  PROVE  Inv /\ PinsOk /\ [Next]_vars => PinsOk'
<1> SUFFICES ASSUME Inv, PinsOk, [Next]_vars PROVE PinsOk'
  OBVIOUS
<1>1. ASSUME NEW s \in Slots, Arrive(s) PROVE PinsOk'
  <2>1. pins' = pins
    BY <1>1 DEF Arrive, Send, Forward, Edit, SoftDelete, AckRead, CleanupExpired, PinMessage
  <2>2. CASE \E u \in Users, ch \in Channels, c \in ClientIds, content \in Contents, reply \in Targets :
               Send(s, u, ch, c, content, reply)
    <3>1. \E r : Become(s, r) /\ r.pc \notin {"pinExists", "pinInsert"}
      BY <2>2 DEF Send, LookUp, Answer, Idle
    <3>2. QED
      BY <2>1, <3>1, PinKeep
  <2>3. CASE \E u \in Users, id \in Msgs, ch \in Channels, c \in ClientIds : Forward(s, u, id, ch, c)
    <3>1. \E r : Become(s, r) /\ r.pc \notin {"pinExists", "pinInsert"}
      BY <2>3 DEF Forward
    <3>2. QED
      BY <2>1, <3>1, PinKeep
  <2>4. ASSUME NEW u \in Users, NEW id \in Msgs, NEW text \in Texts, Edit(s, u, id, text) PROVE PinsOk'
    BY <2>1, <2>4, RewritePins DEF Edit
  <2>5. ASSUME NEW u \in Users, NEW id \in Msgs, SoftDelete(s, u, id) PROVE PinsOk'
    BY <2>1, <2>5, RewritePins DEF SoftDelete
  <2>6. ASSUME NEW u \in Users, NEW id \in Msgs, AckRead(s, u, id) PROVE PinsOk'
    <3>1. CASE rows[id].sender = u
      BY <2>1, <2>6, <3>1, RewritePins DEF AckRead
    <3>2. CASE rows[id].sender # u
      BY <2>1, <2>6, <3>2, PinKeep DEF AckRead
    <3>3. QED
      BY <3>1, <3>2
  <2>7. CASE CleanupExpired(s)
    BY <2>1, <2>7, PinKeep DEF CleanupExpired
  <2>8. ASSUME NEW u \in Users, NEW ch \in Channels, NEW id \in Msgs, PinMessage(s, u, ch, id) PROVE PinsOk'
    BY <2>1, <2>8, PinKeep DEF PinMessage
  <2>9. QED
    BY <1>1, <2>2, <2>3, <2>4, <2>5, <2>6, <2>7, <2>8 DEF Arrive
<1>2. ASSUME NEW s \in Slots, Proceed(s) PROVE PinsOk'
  <2>0. req[s].pc \in {"pin", "pinExists", "pinInsert"} => req[s] \in PinStage
    BY StageOf DEF Inv
  <2>1. CASE ForwardLookUp(s) \/ CheckReply(s) \/ CreateConflict(s) \/ CreateCheck(s)
    <3>0. pins' = pins
      BY <2>1 DEF ForwardLookUp, CheckReply, CreateConflict, CreateCheck
    <3>1. CASE ForwardLookUp(s)
      <4>1. \E r : Become(s, r) /\ r.pc \notin {"pinExists", "pinInsert"}
        BY <3>1 DEF ForwardLookUp, LookUp, Answer, Idle
      <4>2. QED
        BY <3>0, <4>1, PinKeep
    <3>2. CASE CheckReply(s)
      <4>1. [req[s] EXCEPT !.pc = "create"].pc = "create" /\ Idle.pc = "idle"
        BY <3>2, StageOf DEF Inv, CheckReply, SendStage, Idle
      <4>2. Become(s, [req[s] EXCEPT !.pc = "create"]) \/ Become(s, Idle)
        BY <3>2 DEF CheckReply
      <4>3. QED
        BY <3>0, <4>1, <4>2, PinKeep
    <3>3. CASE CreateConflict(s)
      <4>1. \E r : Become(s, r) /\ r.pc \notin {"pinExists", "pinInsert"}
        BY <3>3 DEF CreateConflict, Created, Answer, Idle
      <4>2. QED
        BY <3>0, <4>1, PinKeep
    <3>4. CASE CreateCheck(s)
      <4>1. [req[s] EXCEPT !.pc = "insert"].pc = "insert"
        BY <3>4, StageOf DEF Inv, CreateCheck, SendStage
      <4>2. QED
        BY <3>0, <3>4, <4>1, PinKeep DEF CreateCheck
    <3>5. QED
      BY <2>1, <3>1, <3>2, <3>3, <3>4
  <2>2. CASE \E m \in Msgs : CreateRow(s, m) \/ CreateStore(s, m)
    <3>1. PICK m \in Msgs : Insert(s, m)
      BY <2>2 DEF CreateRow, CreateStore
    <3>2. pins' = pins /\ \E r : Become(s, r) /\ r.pc \notin {"pinExists", "pinInsert"}
      BY <3>1 DEF Insert, Created, Answer, Idle
    <3>3. QED
      BY <3>2, PinKeep
  <2>3. CASE Publish(s) \/ Write(s) \/ Flush(s) \/ Announce(s)
    <3>1. pins' = pins
      BY <2>3 DEF Publish, Write, Flush, Announce
    <3>2. \E r : Become(s, r) /\ r.pc \notin {"pinExists", "pinInsert"}
      <4>1. CASE Write(s)
        <5>1. req[s].next \in {"idle", "flush"}
          BY <4>1, StageOf DEF Inv, Write, WriteStage
        <5>2. QED
          BY <4>1, <5>1 DEF Write
      <4>2. CASE Publish(s) \/ Flush(s) \/ Announce(s)
        BY <4>2 DEF Publish, Answer, Flush, Announce, Idle
      <4>3. QED
        BY <2>3, <4>1, <4>2
    <3>3. QED
      BY <3>1, <3>2, PinKeep
  <2>4. CASE RecordReceipt(s) \/ QueueReceipt(s)
    <3>1. pins' = pins
      BY <2>4 DEF RecordReceipt, QueueReceipt
    <3>2. RecordReceipt(s) => [req[s] EXCEPT !.pc = "queue"].pc = "queue"
      BY StageOf DEF Inv, RecordReceipt, ReceiptStage
    <3>3. QED
      BY <2>4, <3>1, <3>2, PinKeep, RewritePins DEF RecordReceipt, QueueReceipt
  <2>5. CASE Sweep(s)
    <3>1. PICK e \in req[s].todo : Become(s, IF req[s].todo = {e} THEN Idle ELSE [req[s] EXCEPT !.todo = req[s].todo \ {e}])
      BY <2>5 DEF Sweep
    <3>2. [req[s] EXCEPT !.todo = req[s].todo \ {e}].pc = "sweep" /\ Idle.pc = "idle"
      BY <2>5, StageOf DEF Inv, Sweep, SweepStage, Idle
    <3>3. pins' = pins
      BY <2>5 DEF Sweep
    <3>4. Become(s, Idle) \/ Become(s, [req[s] EXCEPT !.todo = req[s].todo \ {e}])
      BY <3>1
    <3>5. QED
      BY <3>2, <3>3, <3>4, PinKeep
  <2>6. CASE PinInMemory(s)
    <3>1. CASE AtCap(req[s].ch) /\ req[s].id \notin pins[req[s].ch]
      BY <2>6, <3>1, PinKeep DEF PinInMemory, Idle
    <3>2. CASE ~ (AtCap(req[s].ch) /\ req[s].id \notin pins[req[s].ch])
      <4>1. req[s] \in PinStage /\ AddPin(s)
        BY <2>0, <2>6, <3>2 DEF PinInMemory
      <4>2. Cardinality(pins[req[s].ch]) \in Nat
        BY <4>1, FS_CardinalityType DEF PinsOk, PinStage
      <4>3. Cardinality(pins[req[s].ch]) < MaxPins \/ req[s].id \in pins[req[s].ch]
        BY <3>2, <4>2 DEF AtCap
      <4>4. QED
        BY <4>1, <4>3, PinAdded
    <3>3. QED
      BY <3>1, <3>2
  <2>7. CASE PinCount(s)
    <3>1. /\ req[s] \in PinStage /\ pins' = pins /\ Backend = "drizzle"
          /\ req'[s] = [req[s] EXCEPT !.pc = IF AtCap(req[s].ch) THEN "pinExists" ELSE "pinInsert"]
          /\ \A t \in Slots : t # s => req'[t] = req[t]
      BY <2>0, <2>7 DEF PinCount, Become, Inv, TypeOK
    <3>2. req'[s].id = req[s].id /\ req'[s].ch = req[s].ch /\ req[s].ch \in Channels
          /\ req'[s].pc = (IF AtCap(req[s].ch) THEN "pinExists" ELSE "pinInsert")
      BY <3>1 DEF PinStage
    <3>3. Cardinality(pins[req[s].ch]) \in Nat
      BY <3>2, FS_CardinalityType DEF PinsOk
    <3>4. req'[s].pc = "pinInsert" => Cardinality(pins[req[s].ch]) < MaxPins
      BY <3>2, <3>3 DEF AtCap
    <3>5. QED
      BY <3>1, <3>2, <3>4 DEF PinsOk
  <2>8. CASE PinExists(s)
    <3>1. CASE req[s].id \in pins[req[s].ch]
      <4>1. /\ req[s] \in PinStage /\ pins' = pins /\ Backend = "drizzle"
            /\ req'[s] = [req[s] EXCEPT !.pc = "pinInsert"]
            /\ \A t \in Slots : t # s => req'[t] = req[t]
        BY <2>0, <2>8, <3>1 DEF PinExists, Become, Inv, TypeOK, PinsOk
      <4>2. req'[s].id = req[s].id /\ req'[s].ch = req[s].ch
        BY <4>1 DEF PinStage
      <4>3. QED
        BY <3>1, <4>1, <4>2 DEF PinsOk
    <3>2. CASE req[s].id \notin pins[req[s].ch]
      BY <2>8, <3>2, PinKeep DEF PinExists, Idle
    <3>3. QED
      BY <3>1, <3>2
  <2>9. CASE PinInsert(s)
    BY <2>0, <2>9, PinAdded DEF PinInsert, PinsOk
  <2>10. QED
    BY <1>2, <2>1, <2>2, <2>3, <2>4, <2>5, <2>6, <2>7, <2>8, <2>9 DEF Proceed
<1>3. ASSUME NEW u \in Users, NEW ch \in Channels, NEW id \in Msgs, Unpin(u, ch, id) PROVE PinsOk'
  <2>1. /\ pins'[ch] = pins[ch] \ {id} /\ \A c \in Channels : c # ch => pins'[c] = pins[c]
        /\ req' = req /\ id \in pins[ch]
    BY <1>3 DEF Unpin, Inv, TypeOK
  <2>2. /\ IsFiniteSet(pins'[ch]) /\ Cardinality(pins[ch]) \in Nat
        /\ Cardinality(pins'[ch]) = Cardinality(pins[ch]) - 1
    BY <2>1, FS_RemoveElement, FS_CardinalityType DEF PinsOk
  <2>3. Cardinality(pins'[ch]) < MaxPins /\ Cardinality(pins[ch]) <= MaxPins
    BY <2>2 DEF PinsOk
  <2>4. ASSUME NEW t \in Slots, req[t].pc = "pinInsert"
        PROVE  Cardinality(pins'[req[t].ch]) < MaxPins \/ req[t].id \in pins'[req[t].ch]
    <3>1. req[t].ch \in Channels
      BY <2>4, StageOf DEF Inv, PinStage
    <3>2. CASE req[t].ch = ch
      BY <2>3, <3>2
    <3>3. CASE req[t].ch # ch
      BY <2>1, <2>4, <3>1, <3>3 DEF PinsOk
    <3>4. QED
      BY <3>2, <3>3
  <2>5. ASSUME NEW c \in Channels PROVE IsFiniteSet(pins'[c]) /\ Cardinality(pins'[c]) <= MaxPins
    <3>1. CASE c = ch
      <4>1. Cardinality(pins'[ch]) \in Int /\ MaxPins \in Int
        BY <2>2, ConstantsAssumption
      <4>2. QED
        BY <2>2, <2>3, <3>1, <4>1
    <3>2. CASE c # ch
      BY <2>1, <3>2 DEF PinsOk
    <3>3. QED
      BY <3>1, <3>2
  <2>6. QED
    BY <2>1, <2>4, <2>5 DEF PinsOk
<1>4. CASE Restart
  BY <1>4 DEF Restart, PinsOk, Idle
<1>5. CASE Lapse \/ UNCHANGED vars
  BY <1>5 DEF Lapse, vars, PinsOk
<1>6. QED
  BY <1>1, <1>2, <1>3, <1>4, <1>5 DEF Next

\* service.ts and persistence.ts, pinMessage: over the in-memory store for any
\* number of requests, and over PostgreSQL for requests that run one at a time,
\* a channel never holds more pins than the cap.
THEOREM PinsCapped ==
  ASSUME Backend = "memory" \/ Serial
  PROVE  Spec => []PinCap
<1>1. Init => PinsOk
  BY FS_EmptySet DEF Init, PinsOk, Idle
<1>2. PinsOk => PinCap
  BY DEF PinsOk, PinCap
<1>3. Inv /\ PinsOk /\ [Next]_vars => PinsOk'
  BY PinsKept
<1>4. QED
  BY <1>1, <1>2, <1>3, Invariance, PTL DEF Spec
-----------------------------------------------------------------------------
(* Hidden content *)

\* A deleted row has lost its content.
Buried(row) == row.state = "deleted" => row.content.type = "tombstone"

\* What a row may come to hold: nothing, what it holds, or anything in place of text.
Continues(new, old) == new.type = "tombstone" \/ new = old \/ old.type = "text"

\* A copy of a row that may be written over what the store holds under its id.
Keeps(e, store) == Buried(e[2]) /\ Continues(e[2].content, store[e[1]].content)

\* A request that will bring back nothing a listing has stopped serving.
Faithful(r, store) ==
  /\ \A e \in Snapshots(r) : Keeps(e, store)
  /\ r.pc \in {"lookup", "reply", "create", "insert"} => Buried(r.row)
  /\ r.pc = "sweep" => \A e \in r.todo : e[2].content.type = "tombstone"

HiddenInv ==
  /\ \A i \in DOMAIN rows : Buried(rows[i])
  /\ \A s \in Slots : Faithful(req[s], rows)

\* What a step does to the rows stored before it, and to time.
Advances ==
  /\ \A i \in DOMAIN rows : i \in DOMAIN rows' /\ Continues(rows'[i].content, rows[i].content)
  /\ lapsed => lapsed'

\* Stages that hold no copy of a row are faithful.
LEMMA BareFaithful ==
  ASSUME NEW r, NEW store, r.pc \in {"idle", "flush", "announce", "pin", "pinExists", "pinInsert"}
  PROVE  Faithful(r, store)
  BY DEF Faithful, Snapshots

\* A step that leaves the store alone and moves one slot to a faithful request.
LEMMA HiddenFrame ==
  ASSUME HiddenInv, NEW s \in Slots, rows' = rows, lapsed' = lapsed,
         Faithful(req'[s], rows), \A t \in Slots : t # s => req'[t] = req[t]
  PROVE  HiddenInv' /\ Advances
<1>1. \A t \in Slots : Faithful(req'[t], rows)
  BY DEF HiddenInv
<1>2. HiddenInv'
  BY <1>1 DEF HiddenInv, Faithful, Keeps
<1>3. QED
  BY <1>2 DEF Advances, Continues

LEMMA BecomeFaithful ==
  ASSUME TypeOK, HiddenInv, NEW s \in Slots, NEW r, rows' = rows, lapsed' = lapsed,
         Become(s, r), Faithful(r, rows)
  PROVE  HiddenInv' /\ Advances
<1>1. req'[s] = r /\ \A t \in Slots : t # s => req'[t] = req[t]
  BY DEF TypeOK, Become
<1>2. QED
  BY <1>1, HiddenFrame

\* What send does with a message it has found or stored.
LEMMA AnswersFaithfully ==
  ASSUME TypeOK, NEW s \in Slots, NEW store, NEW id, NEW row \in Row, NEW fwd \in OptMsg,
         Keeps(<<id, row>>, store), Answer(s, id, row, fwd) \/ Created(s, id, row, fwd)
  PROVE  Faithful(req'[s], store) /\ \A t \in Slots : t # s => req'[t] = req[t]
<1> DEFINE copy  == [row EXCEPT !.orig = fwd]
           stamp == [pc |-> "write", id |-> id, row |-> copy, next |-> "idle"]
           hear  == [pc |-> "publish", id |-> id, row |-> row, fwd |-> fwd]
<1>1. /\ req'[s] \in {stamp, hear, Idle}
      /\ \A t \in Slots : t # s => req'[t] = req[t]
  BY DEF Answer, Created, Become, TypeOK
<1>2. copy.state = row.state /\ copy.content = row.content
  BY DEF Row
<1>3. Keeps(<<id, copy>>, store)
  BY <1>2 DEF Keeps, Buried
<1>4. Snapshots(stamp) = {<<id, copy>>} /\ stamp.pc = "write"
  BY DEF Snapshots
<1>5. Snapshots(hear) = {<<id, row>>} /\ hear.pc = "publish"
  BY DEF Snapshots
<1>6. Faithful(stamp, store)
  <2> HIDE DEF stamp, copy
  <2> QED
    BY <1>3, <1>4 DEF Faithful
<1>7. Faithful(hear, store)
  <2> HIDE DEF hear
  <2> QED
    BY <1>5 DEF Faithful
<1>8. Faithful(Idle, store)
  BY BareFaithful DEF Idle
<1>9. QED
  BY <1>1, <1>6, <1>7, <1>8

\* A stored row is a copy of itself.
LEMMA StoredKeeps ==
  ASSUME HiddenInv, NEW id \in DOMAIN rows
  PROVE  Keeps(<<id, rows[id]>>, rows)
  BY DEF HiddenInv, Keeps, Continues

LEMMA LookUpFaithful ==
  ASSUME Inv, HiddenInv, NEW s \in Slots, NEW draft \in Row, NEW fwd \in OptMsg, Buried(draft),
         LookUp(s, draft, fwd), rows' = rows, lapsed' = lapsed
  PROVE  HiddenInv' /\ Advances
<1>1. Key(draft) \in Users \X ClientIds
  BY DEF Key, Row
<1>2. CASE byClient[Key(draft)] # None
  <2>1. byClient[Key(draft)] \in DOMAIN rows /\ rows[byClient[Key(draft)]] \in Row
    BY <1>1, <1>2, StoredAnswers
  <2>2. Answer(s, byClient[Key(draft)], rows[byClient[Key(draft)]], fwd)
    BY <1>2 DEF LookUp
  <2>3. QED
    BY <2>1, <2>2, StoredKeeps, AnswersFaithfully, HiddenFrame DEF Inv
<1>3. CASE byClient[Key(draft)] = None
  <2> DEFINE r == [pc |-> IF draft.reply = None THEN "create" ELSE "reply",
                   row |-> draft, fwd |-> fwd]
  <2>1. r.pc \in {"create", "reply"} /\ r.row = draft
    OBVIOUS
  <2>2. Faithful(r, rows)
    <3> HIDE DEF r
    <3> QED
      BY <2>1 DEF Faithful, Snapshots
  <2>3. QED
    BY <1>3, <2>2, BecomeFaithful DEF LookUp, Inv
<1>4. QED
  BY <1>2, <1>3

\* A request that is about to write a faithful copy.
LEMMA RewriteFaithful ==
  ASSUME TypeOK, HiddenInv, NEW s \in Slots, NEW id, NEW row, NEW next, Rewrite(s, id, row, next),
         Keeps(<<id, row>>, rows), rows' = rows, lapsed' = lapsed
  PROVE  HiddenInv' /\ Advances
<1> DEFINE r == [pc |-> "write", id |-> id, row |-> row, next |-> next]
<1>1. Snapshots(r) = {<<id, row>>} /\ r.pc = "write"
  BY DEF Snapshots
<1>2. Faithful(r, rows)
  <2> HIDE DEF r
  <2> QED
    BY <1>1 DEF Faithful
<1>3. QED
  BY <1>2, BecomeFaithful DEF Rewrite

\* The rows that updates compute from a stored row may be written over it.
LEMMA UpdatesKeep ==
  ASSUME Inv, HiddenInv, NEW id \in DOMAIN rows
  PROVE  /\ \A reason \in {"deleted", "expired", "read_once_consumed"} :
              /\ Keeps(<<id, Tombstone(rows[id], reason)>>, rows)
              /\ Tombstone(rows[id], reason).content.type = "tombstone"
         /\ Keeps(<<id, AckedRow(rows[id])>>, rows)
         /\ \A text \in Texts : Editable(rows[id]) =>
              Keeps(<<id, [rows[id] EXCEPT !.content = [type |-> "text", text |-> text]]>>, rows)
<1>1. rows[id] \in Row /\ Buried(rows[id])
  BY DEF Inv, TypeOK, HiddenInv
<1>2. \A reason \in {"deleted", "expired", "read_once_consumed"} :
        Tombstone(rows[id], reason).content = [type |-> "tombstone", reason |-> reason]
  BY <1>1 DEF Tombstone, Row
<1>3. \A reason \in {"deleted", "expired", "read_once_consumed"} :
        /\ Tombstone(rows[id], reason).content.type = "tombstone"
        /\ Keeps(<<id, Tombstone(rows[id], reason)>>, rows)
  BY <1>2 DEF Keeps, Buried, Continues
<1>4. Keeps(<<id, AckedRow(rows[id])>>, rows)
  <2>1. CASE rows[id].content.type = "ciphertext" /\ rows[id].content.readOnce
    BY <1>3, <2>1 DEF AckedRow
  <2>2. CASE ~ (rows[id].content.type = "ciphertext" /\ rows[id].content.readOnce)
    <3>1. AckedRow(rows[id]).content = rows[id].content /\ AckedRow(rows[id]).state = "read"
      BY <1>1, <2>2 DEF AckedRow, Row
    <3>2. QED
      BY <3>1 DEF Keeps, Buried, Continues
  <2>3. QED
    BY <2>1, <2>2
<1>5. ASSUME NEW text \in Texts, Editable(rows[id])
      PROVE  Keeps(<<id, [rows[id] EXCEPT !.content = [type |-> "text", text |-> text]]>>, rows)
  <2> DEFINE new == [rows[id] EXCEPT !.content = [type |-> "text", text |-> text]]
  <2>1. new.state = rows[id].state /\ rows[id].content.type = "text"
    BY <1>1, <1>5 DEF Row, Editable
  <2>2. new.state # "deleted"
    BY <1>1, <2>1 DEF Buried
  <2>3. QED
    BY <2>1, <2>2 DEF Keeps, Buried, Continues
<1>6. QED
  BY <1>3, <1>4, <1>5
\* A request that arrives takes with it faithful copies only.
LEMMA ArriveFaithful ==
  ASSUME Inv, HiddenInv, NEW s \in Slots, Arrive(s)
  PROVE  HiddenInv' /\ Advances
<1>0. TypeOK
  BY DEF Inv
<1>1. ASSUME NEW u \in Users, NEW ch \in Channels, NEW c \in ClientIds, NEW content \in Contents,
             NEW reply \in Targets, Send(s, u, ch, c, content, reply)
      PROVE  HiddenInv' /\ Advances
  <2> DEFINE draft == Draft(u, ch, c, content, reply)
  <2>1. draft \in Row /\ Buried(draft)
    <3>1. reply \in OptMsg /\ content \in Content
      BY DEF Targets, OptMsg
    <3>2. draft \in Row
      BY <1>1, <3>1, DraftLegal DEF Send
    <3>3. draft.state = "sent"
      BY DEF Draft
    <3>4. QED
      BY <3>2, <3>3 DEF Buried
  <2>2. LookUp(s, draft, None) /\ rows' = rows /\ lapsed' = lapsed
    BY <1>1 DEF Send
  <2>3. None \in OptMsg
    BY DEF OptMsg
  <2>4. QED
    BY <2>1, <2>2, <2>3, LookUpFaithful
<1>2. ASSUME NEW u \in Users, NEW id \in Msgs, NEW ch \in Channels, NEW c \in ClientIds,
             Forward(s, u, id, ch, c)
      PROVE  HiddenInv' /\ Advances
  <2> DEFINE draft == Draft(u, ch, c, rows[id].content, None)
             r     == [pc |-> "lookup", row |-> draft, fwd |-> IF rows[id].orig = None THEN id ELSE rows[id].orig]
  <2>1. draft.state = "sent"
    BY DEF Draft
  <2>2. r.pc = "lookup" /\ r.row = draft
    OBVIOUS
  <2>3. Faithful(r, rows)
    <3> HIDE DEF r, draft
    <3> QED
      BY <2>1, <2>2 DEF Faithful, Snapshots, Buried
  <2>4. Become(s, r) /\ rows' = rows /\ lapsed' = lapsed
    BY <1>2 DEF Forward
  <2>5. QED
    BY <1>0, <2>3, <2>4, BecomeFaithful
<1>3. ASSUME NEW u \in Users, NEW id \in Msgs, NEW text \in Texts, Edit(s, u, id, text)
      PROVE  HiddenInv' /\ Advances
  <2>1. id \in DOMAIN rows /\ Editable(rows[id]) /\ rows' = rows /\ lapsed' = lapsed
        /\ Rewrite(s, id, [rows[id] EXCEPT !.content = [type |-> "text", text |-> text]], "idle")
    BY <1>3 DEF Edit, Exists
  <2>2. QED
    BY <1>0, <2>1, UpdatesKeep, RewriteFaithful
<1>4. ASSUME NEW u \in Users, NEW id \in Msgs, SoftDelete(s, u, id)
      PROVE  HiddenInv' /\ Advances
  <2>1. id \in DOMAIN rows /\ rows' = rows /\ lapsed' = lapsed
        /\ Rewrite(s, id, Tombstone(rows[id], "deleted"), "idle")
    BY <1>4 DEF SoftDelete, Exists
  <2>2. QED
    BY <1>0, <2>1, UpdatesKeep, RewriteFaithful
<1>5. ASSUME NEW u \in Users, NEW id \in Msgs, AckRead(s, u, id)
      PROVE  HiddenInv' /\ Advances
  <2> DEFINE new == AckedRow(rows[id])
             r   == [pc |-> "receipt", id |-> id, row |-> new, user |-> u]
  <2>1. id \in DOMAIN rows /\ rows' = rows /\ lapsed' = lapsed
        /\ (Rewrite(s, id, new, AfterAck) \/ Become(s, r))
    BY <1>5 DEF AckRead, Exists
  <2>2. Keeps(<<id, new>>, rows)
    BY <2>1, UpdatesKeep
  <2>3. Snapshots(r) = {<<id, new>>} /\ r.pc = "receipt"
    BY DEF Snapshots
  <2>4. Faithful(r, rows)
    <3> HIDE DEF r, new
    <3> QED
      BY <2>2, <2>3 DEF Faithful
  <2>5. QED
    BY <1>0, <2>1, <2>2, <2>4, RewriteFaithful, BecomeFaithful
<1>6. CASE CleanupExpired(s)
  <2> DEFINE todo == {<<id, Tombstone(rows[id], "expired")>> : id \in Expirable}
             r    == [pc |-> "sweep", todo |-> todo]
  <2>1. \A e \in todo : Keeps(e, rows) /\ e[2].content.type = "tombstone"
    <3>1. ASSUME NEW id \in Expirable
          PROVE  /\ Keeps(<<id, Tombstone(rows[id], "expired")>>, rows)
                 /\ Tombstone(rows[id], "expired").content.type = "tombstone"
      BY UpdatesKeep DEF Expirable
    <3>2. QED
      BY <3>1
  <2>2. Snapshots(r) = todo /\ r.pc = "sweep" /\ r.todo = todo
    BY DEF Snapshots
  <2>3. Faithful(r, rows)
    <3> HIDE DEF r, todo
    <3> QED
      BY <2>1, <2>2 DEF Faithful
  <2>4. Become(s, r) /\ rows' = rows /\ lapsed' = lapsed
    BY <1>6 DEF CleanupExpired
  <2>5. QED
    BY <1>0, <2>3, <2>4, BecomeFaithful
<1>7. ASSUME NEW u \in Users, NEW ch \in Channels, NEW id \in Msgs, PinMessage(s, u, ch, id)
      PROVE  HiddenInv' /\ Advances
  <2>1. Become(s, [pc |-> "pin", id |-> id, ch |-> ch]) /\ rows' = rows /\ lapsed' = lapsed
    BY <1>7 DEF PinMessage
  <2>2. QED
    BY <1>0, <2>1, BareFaithful, BecomeFaithful
<1>8. QED
  BY <1>1, <1>2, <1>3, <1>4, <1>5, <1>6, <1>7 DEF Arrive

\* One request at a time: a write lands on the rows its copy was read from.
LEMMA StoreFaithful ==
  ASSUME Serial, Inv, HiddenInv, NEW s \in Slots, lapsed' = lapsed,
         NEW id \in DOMAIN rows, NEW row \in Row, Keeps(<<id, row>>, rows),
         rows' = [rows EXCEPT ![id] = Stored(@, row)], Faithful(req'[s], rows')
  PROVE  HiddenInv' /\ Advances
<1>1. rows[id] \in Row
  BY DEF Inv, TypeOK
<1>2. Stored(rows[id], row).content = row.content /\ Stored(rows[id], row).state = row.state
  BY <1>1 DEF Stored, Row
<1>3. \A i \in DOMAIN rows : rows'[i] = IF i = id THEN Stored(rows[id], row) ELSE rows[i]
  BY DEF Inv, TypeOK
<1>4. DOMAIN rows' = DOMAIN rows
  BY DEF Inv, TypeOK
<1>5. \A i \in DOMAIN rows : Buried(rows'[i]) /\ Continues(rows'[i].content, rows[i].content)
  BY <1>2, <1>3 DEF HiddenInv, Keeps, Buried, Continues
<1>6. \A t \in Slots : Faithful(req'[t], rows')
  BY DEF Serial
<1>7. QED
  BY <1>4, <1>5, <1>6 DEF HiddenInv, Advances

LEMMA InsertFaithful ==
  ASSUME Serial, Inv, HiddenInv, NEW s \in Slots, NEW m \in Msgs, req[s].pc \in {"create", "insert"}, Insert(s, m)
  PROVE  HiddenInv' /\ Advances
<1>1. req[s] \in SendStage /\ Buried(req[s].row)
  BY StageOf DEF Inv, HiddenInv, Faithful
<1>2. /\ DOMAIN rows' = DOMAIN rows \cup {m} /\ rows'[m] = req[s].row
      /\ \A i \in DOMAIN rows : rows'[i] = rows[i]
  BY DEF Insert
<1>3. Keeps(<<m, req[s].row>>, rows')
  BY <1>1, <1>2 DEF Keeps, Continues
<1>4. Created(s, m, req[s].row, req[s].fwd) /\ lapsed' = lapsed
  BY DEF Insert
<1>5. Faithful(req'[s], rows')
  BY <1>1, <1>3, <1>4, AnswersFaithfully DEF SendStage, Inv
<1>6. \A t \in Slots : Faithful(req'[t], rows')
  BY <1>5 DEF Serial
<1>7. QED
  BY <1>1, <1>2, <1>4, <1>6 DEF HiddenInv, Advances, Continues

\* A request's next step, when it is the only one, brings nothing hidden back.
LEMMA ProceedFaithful ==
  ASSUME Serial, Inv, HiddenInv, NEW s \in Slots, Proceed(s)
  PROVE  HiddenInv' /\ Advances
<1>0. TypeOK /\ Faithful(req[s], rows)
  BY DEF Inv, HiddenInv
<1>1. CASE ForwardLookUp(s)
  <2>1. req[s] \in SendStage /\ Buried(req[s].row)
    BY <1>0, <1>1, StageOf DEF ForwardLookUp, Faithful
  <2>2. QED
    BY <1>1, <2>1, LookUpFaithful DEF ForwardLookUp, SendStage
<1>2. CASE CheckReply(s) \/ CreateCheck(s)
  <2>1. req[s] \in SendStage /\ Buried(req[s].row) /\ rows' = rows /\ lapsed' = lapsed
    BY <1>0, <1>2, StageOf DEF CheckReply, CreateCheck, Faithful
  <2>2. PICK p \in {"create", "insert"} : Become(s, Idle) \/ Become(s, [req[s] EXCEPT !.pc = p])
    BY <1>2 DEF CheckReply, CreateCheck
  <2> DEFINE r == [req[s] EXCEPT !.pc = p]
  <2>3. r.pc = p /\ r.row = req[s].row
    BY <2>1 DEF SendStage
  <2>4. Faithful(r, rows)
    <3> HIDE DEF r
    <3> QED
      BY <2>1, <2>3 DEF Faithful, Snapshots
  <2>5. Faithful(Idle, rows)
    BY BareFaithful DEF Idle
  <2>6. QED
    BY <1>0, <2>1, <2>2, <2>4, <2>5, BecomeFaithful
<1>3. CASE CreateConflict(s)
  <2> DEFINE id == byClient[Key(req[s].row)]
  <2>1. req[s] \in SendStage /\ id # None /\ Created(s, id, rows[id], req[s].fwd)
        /\ rows' = rows /\ lapsed' = lapsed
    BY <1>0, <1>3, StageOf DEF CreateConflict
  <2>2. Key(req[s].row) \in Users \X ClientIds
    BY <2>1 DEF SendStage, Row, Key
  <2>3. id \in DOMAIN rows /\ rows[id] \in Row
    BY <2>1, <2>2, StoredAnswers
  <2>4. req[s].fwd \in OptMsg
    BY <2>1 DEF SendStage
  <2> HIDE DEF id
  <2>5. QED
    BY <1>0, <2>1, <2>3, <2>4, StoredKeeps, AnswersFaithfully, HiddenFrame
<1>4. CASE \E m \in Msgs : CreateRow(s, m) \/ CreateStore(s, m)
  BY <1>4, InsertFaithful DEF CreateRow, CreateStore
<1>5. CASE Publish(s)
  <2>1. req[s] \in PublishStage /\ Answer(s, req[s].id, req[s].row, req[s].fwd)
        /\ rows' = rows /\ lapsed' = lapsed
    BY <1>0, <1>5, StageOf DEF Publish
  <2>2. Keeps(<<req[s].id, req[s].row>>, rows)
    BY <1>0, <1>5 DEF Publish, Faithful, Snapshots
  <2>3. QED
    BY <1>0, <2>1, <2>2, AnswersFaithfully, HiddenFrame DEF PublishStage
<1>6. CASE RecordReceipt(s) \/ QueueReceipt(s)
  <2> DEFINE r == [req[s] EXCEPT !.pc = "queue"]
  <2>1. req[s] \in ReceiptStage /\ Keeps(<<req[s].id, req[s].row>>, rows)
        /\ rows' = rows /\ lapsed' = lapsed
    BY <1>0, <1>6, StageOf DEF RecordReceipt, QueueReceipt, Faithful, Snapshots
  <2>2. Become(s, r) \/ Rewrite(s, req[s].id, req[s].row, AfterAck)
    BY <1>6 DEF RecordReceipt, QueueReceipt
  <2>3. r.pc = "queue" /\ r.id = req[s].id /\ r.row = req[s].row
    BY <2>1 DEF ReceiptStage
  <2>4. Faithful(r, rows)
    <3> HIDE DEF r
    <3>1. Snapshots(r) = {<<req[s].id, req[s].row>>}
      BY <2>3 DEF Snapshots
    <3>2. QED
      BY <2>1, <2>3, <3>1 DEF Faithful
  <2>5. QED
    BY <1>0, <2>1, <2>2, <2>4, BecomeFaithful, RewriteFaithful
<1>7. CASE Write(s)
  <2>1. req[s] \in WriteStage
    BY <1>0, <1>7, StageOf DEF Write
  <2>2. Keeps(<<req[s].id, req[s].row>>, rows) /\ req[s].id \in DOMAIN rows
    BY <1>0, <1>7 DEF Write, Faithful, Snapshots, Inv, RequestsOk, RequestOk, SnapshotOk
  <2>3. req'[s] = [pc |-> req[s].next]
    BY <1>0, <1>7 DEF Write, Become, TypeOK
  <2>4. req'[s].pc \in {"idle", "flush"}
    BY <2>1, <2>3 DEF WriteStage
  <2>5. Faithful(req'[s], rows')
    BY <2>4, BareFaithful
  <2>6. rows' = [rows EXCEPT ![req[s].id] = Stored(@, req[s].row)] /\ lapsed' = lapsed
    BY <1>7 DEF Write
  <2>7. QED
    BY <2>1, <2>2, <2>5, <2>6, StoreFaithful DEF WriteStage
<1>8. CASE Flush(s) \/ Announce(s)
  <2>1. rows' = rows /\ lapsed' = lapsed /\ (Become(s, Idle) \/ Become(s, [pc |-> "announce", batch |-> pending]))
    BY <1>8 DEF Flush, Announce
  <2>2. QED
    BY <1>0, <2>1, BareFaithful, BecomeFaithful DEF Idle
<1>9. CASE Sweep(s)
  <2>1. req[s] \in SweepStage /\ \A e \in req[s].todo : e[2].content.type = "tombstone"
    BY <1>0, <1>9, StageOf DEF Sweep, Faithful
  <2>2. PICK e \in req[s].todo :
          /\ rows' = [rows EXCEPT ![e[1]] = Stored(@, e[2])]
          /\ Become(s, IF req[s].todo = {e} THEN Idle ELSE [req[s] EXCEPT !.todo = req[s].todo \ {e}])
    BY <1>9 DEF Sweep
  <2>3. e = <<e[1], e[2]>> /\ e[2] \in Row
    BY <2>1, <2>2 DEF SweepStage
  <2>4. Keeps(e, rows) /\ e[1] \in DOMAIN rows
    BY <1>0, <1>9, <2>2 DEF Sweep, Faithful, Snapshots, Inv, RequestsOk, RequestOk, SnapshotOk
  <2> DEFINE r == [req[s] EXCEPT !.todo = req[s].todo \ {e}]
  <2>5. r.pc = "sweep" /\ r.todo = req[s].todo \ {e}
    BY <2>1 DEF SweepStage
  <2>6. \A d \in r.todo : d[2].content.type = "tombstone" /\ Keeps(d, rows')
    <3>1. \A d \in req[s].todo : Buried(d[2])
      BY <1>0, <1>9 DEF Sweep, Faithful, Snapshots, Keeps
    <3>2. QED
      BY <2>1, <2>5, <3>1 DEF Keeps, Continues
  <2>7. Faithful(r, rows')
    <3> HIDE DEF r
    <3> QED
      BY <2>5, <2>6 DEF Faithful, Snapshots
  <2>8. Faithful(Idle, rows')
    BY BareFaithful DEF Idle
  <2>9. req'[s] = Idle \/ req'[s] = r
    BY <1>0, <2>2 DEF Become, TypeOK
  <2>10. lapsed' = lapsed
    BY <1>9 DEF Sweep
  <2> HIDE DEF r
  <2>11. Faithful(req'[s], rows')
    BY <2>7, <2>8, <2>9
  <2>12. Keeps(<<e[1], e[2]>>, rows)
    BY <2>4 DEF Keeps
  <2>13. QED
    BY <2>2, <2>3, <2>4, <2>10, <2>11, <2>12, StoreFaithful
<1>10. CASE PinInMemory(s) \/ PinCount(s) \/ PinExists(s) \/ PinInsert(s)
  <2>1. req[s] \in PinStage /\ rows' = rows /\ lapsed' = lapsed
    BY <1>0, <1>10, StageOf DEF PinInMemory, PinCount, PinExists, PinInsert
  <2>2. PICK p \in {"pinExists", "pinInsert"} : Become(s, Idle) \/ Become(s, [req[s] EXCEPT !.pc = p])
    BY <1>10 DEF PinInMemory, PinCount, PinExists, PinInsert, AddPin
  <2> DEFINE r == [req[s] EXCEPT !.pc = p]
  <2>3. r.pc = p
    BY <2>1 DEF PinStage
  <2>4. Faithful(Idle, rows) /\ Faithful(r, rows)
    <3> HIDE DEF r
    <3>1. Faithful(Idle, rows)
      BY BareFaithful DEF Idle
    <3>2. Faithful(r, rows)
      BY <2>3, BareFaithful
    <3>3. QED
      BY <3>1, <3>2
  <2>5. QED
    BY <1>0, <2>1, <2>2, <2>4, BecomeFaithful
<1>11. QED
  BY <1>1, <1>2, <1>3, <1>4, <1>5, <1>6, <1>7, <1>8, <1>9, <1>10 DEF Proceed

LEMMA HiddenKept ==
  ASSUME Serial, Inv, HiddenInv, [Next]_vars
  PROVE  HiddenInv' /\ Advances
<1>1. CASE \E s \in Slots : Arrive(s) \/ Proceed(s)
  BY <1>1, ArriveFaithful, ProceedFaithful
<1>2. CASE Lapse \/ UNCHANGED vars \/ \E u \in Users, ch \in Channels, id \in Msgs : Unpin(u, ch, id)
  <2>1. rows' = rows /\ req' = req /\ (lapsed => lapsed')
    BY <1>2 DEF Lapse, vars, Unpin
  <2>2. QED
    BY <2>1 DEF HiddenInv, Advances, Continues
<1>3. CASE Restart
  <2>1. rows' = rows /\ lapsed' = lapsed /\ \A s \in Slots : req'[s] = Idle
    BY <1>3 DEF Restart
  <2>2. Faithful(Idle, rows')
    BY BareFaithful DEF Idle
  <2>3. QED
    BY <2>1, <2>2 DEF HiddenInv, Advances, Continues
<1>4. QED
  BY <1>1, <1>2, <1>3 DEF Next

\* What a listing hides of a row that keeps the invariant: a tombstone, or what has expired.
LEMMA HiddenRows ==
  ASSUME NEW row, Buried(row), Visible(row).type = "tombstone"
  PROVE  row.content.type = "tombstone" \/ Expired(row)
  BY DEF Visible, Buried

\* service.ts, toVisible over every update: when requests run one at a time, content
\* that listings have stopped serving is never served again, across edits, deletions,
\* acknowledgements, forwards, sweeps, the lapse of time and restarts.
THEOREM HiddenForever ==
  ASSUME Serial
  PROVE  Spec => HiddenStays
<1> DEFINE Stays == \A i \in DOMAIN rows :
             Visible(rows[i]).type = "tombstone" => Visible(rows[i])'.type = "tombstone"
<1>1. Init => HiddenInv
  BY BareFaithful DEF Init, HiddenInv, Idle
<1>2. Inv /\ HiddenInv /\ [Next]_vars => HiddenInv' /\ Advances
  BY HiddenKept
<1>3. Inv /\ Inv' /\ HiddenInv /\ HiddenInv' /\ Advances => Stays
  <2> SUFFICES ASSUME Inv, Inv', HiddenInv, HiddenInv', Advances, NEW i \in DOMAIN rows,
                      Visible(rows[i]).type = "tombstone"
               PROVE  Visible(rows[i])'.type = "tombstone"
    OBVIOUS
  <2>1. rows[i].content.type = "tombstone" \/ Expired(rows[i])
    BY HiddenRows DEF HiddenInv
  <2>2. i \in DOMAIN rows' /\ Continues(rows'[i].content, rows[i].content) /\ (lapsed => lapsed')
    BY DEF Advances
  <2>3. rows'[i].content.type = "tombstone" \/ Expired(rows[i])'
    BY <2>1, <2>2 DEF Continues, Expired
  <2>4. rows'[i] \in Row
    BY <2>2 DEF Inv, TypeOK
  <2>5. Tombstone(rows'[i], "deleted").content.type = "tombstone"
        /\ Tombstone(rows'[i], "expired").content.type = "tombstone"
    BY <2>4 DEF Tombstone, Row
  <2>6. QED
    BY <2>3, <2>5 DEF Visible, Expired
<1>4. QED
  BY <1>1, <1>2, <1>3, Invariance, PTL DEF Spec, HiddenStays
=============================================================================
