------------------------------ MODULE Messages ------------------------------
(***************************************************************************)
(* The message service (apps/server/src/domain/messages) with the gateway's *)
(* acknowledge-then-flush handler.  Every service operation is an async     *)
(* function: each persistence call is one atomic step, and between two of   *)
(* them any other request may run.  A request in flight occupies a slot,    *)
(* which holds the stage it has reached and what it read before its last    *)
(* await -- in particular the snapshot of a row that a later update writes. *)
(***************************************************************************)
EXTENDS Integers, FiniteSets

CONSTANTS
  Users, Channels, Msgs, ClientIds, Texts,
  Contents,   \* bound: the contents clients send
  Slots,      \* bound: requests the server has in flight at once
  Mode,       \* [Channels -> {"normal", "e2e"}]
  Access,     \* [Channels -> SUBSET Users], canAccessChannel
  Managers,   \* [Channels -> SUBSET Users], canManageChannel
  Backend,    \* "memory" or "drizzle", env.PERSISTENCE
  MaxPins,    \* the pin cap, 50 in the code
  Ops,        \* bound: the operations clients call in this instance
  Crashes,    \* bound: may the server process restart?
  None

AllOps == {"send", "reply", "edit", "delete", "forward", "ack", "cleanup", "pin", "unpin"}

Text    == [type : {"text"}, text : Texts]
Cipher  == [type : {"ciphertext"}, readOnce : BOOLEAN, expires : BOOLEAN]
Tomb    == [type : {"tombstone"}, reason : {"deleted", "expired", "read_once_consumed"}]
Content == Text \cup Cipher \cup Tomb

ASSUME ConstantsAssumption ==
  /\ Contents \subseteq Content
  /\ Mode \in [Channels -> {"normal", "e2e"}]
  /\ Access \in [Channels -> SUBSET Users]
  /\ Managers \in [Channels -> SUBSET Users]
  /\ Backend \in {"memory", "drizzle"}
  /\ MaxPins \in Nat \ {0}
  /\ Ops \subseteq AllOps
  /\ Crashes \in BOOLEAN
  /\ None \notin Msgs

VARIABLES
  rows,       \* stored messages: a function from a subset of Msgs to Row
  byClient,   \* the (sender, clientMsgId) index: unique index, or messagesByClientId
  receipts,   \* recorded read receipts, <<message, reader>>
  pins,       \* [Channels -> SUBSET Msgs]
  lapsed,     \* has the instant in the messages' expiresAt passed?
  pending,    \* store.pendingReadReceipts, process-local
  req,        \* [Slots -> Request]
  announced,  \* history: receipts broadcast in a message.read event
  published   \* history: messages whose message.created reached the bot service

vars == <<rows, byClient, receipts, pins, lapsed, pending, req, announced, published>>

-----------------------------------------------------------------------------
OptMsg == Msgs \cup {None}

Row == [ch : Channels, sender : Users, cid : ClientIds, content : Content,
        state : {"sent", "read", "deleted"}, reply : OptMsg, orig : OptMsg]

Pair == Msgs \X Users

\* What a request in flight holds, by the stage it has reached.
BareStage     == [pc : {"idle", "flush"}]
SendStage     == [pc : {"lookup", "reply", "create", "insert"}, row : Row, fwd : OptMsg]
PublishStage  == [pc : {"publish"}, id : Msgs, row : Row, fwd : OptMsg]
ReceiptStage  == [pc : {"receipt", "queue"}, id : Msgs, row : Row, user : Users]
WriteStage    == [pc : {"write"}, id : Msgs, row : Row, next : {"idle", "flush"}]
SweepStage    == [pc : {"sweep"}, todo : SUBSET (Msgs \X Row)]
AnnounceStage == [pc : {"announce"}, batch : SUBSET Pair]
PinStage      == [pc : {"pin", "pinExists", "pinInsert"}, id : Msgs, ch : Channels]

Request == BareStage \cup SendStage \cup PublishStage \cup ReceiptStage
             \cup WriteStage \cup SweepStage \cup AnnounceStage \cup PinStage

Idle == [pc |-> "idle"]

Tombstone(row, reason) ==
  [row EXCEPT !.content = [type |-> "tombstone", reason |-> reason], !.state = "deleted"]

Expired(row) == row.content.type = "ciphertext" /\ row.content.expires /\ lapsed

\* The content a listing serves for a row.
Visible(row) ==
  CASE row.state = "deleted" /\ row.content.type # "tombstone" -> Tombstone(row, "deleted").content
    [] row.state # "deleted" /\ Expired(row)                   -> Tombstone(row, "expired").content
    [] OTHER                                                   -> row.content

\* Mutant: the normal-channel half of the check is forgotten.
ModeAccepts_NormalUnchecked(ch, content) == Mode[ch] = "e2e" => content.type = "ciphertext"

\* The plaintext/ciphertext separation between channel modes.
ModeAccepts(ch, content) ==
  IF Mode[ch] = "e2e" THEN content.type = "ciphertext" ELSE content.type # "ciphertext"

\* What a message is deduplicated by.
Key(row) == <<row.sender, row.cid>>

Become(s, r) == req' = [req EXCEPT ![s] = r]

Exists(id) == id \in DOMAIN rows

-----------------------------------------------------------------------------
(* Sending *)

\* Mutant: the attribution is written into the copy the forward sent, which is not the
\* message send returned when the client id was already taken.
Answer_WritesDraft(s, id, row, fwd) ==
  Become(s, IF fwd = None THEN Idle
            ELSE [pc |-> "write", id |-> id, row |-> [req[s].row EXCEPT !.orig = fwd], next |-> "idle"])

\* send returned a message: the request ends, unless it is a forward, which
\* then writes its attribution into a copy of the row that send returned.
Answer(s, id, row, fwd) ==
  Become(s, IF fwd = None THEN Idle
            ELSE [pc |-> "write", id |-> id, row |-> [row EXCEPT !.orig = fwd], next |-> "idle"])

\* Mutant: forwards skip the bot event.
Created_ForwardsUnpublished(s, id, row, fwd) ==
  IF Mode[req[s].row.ch] = "normal" /\ fwd = None
  THEN Become(s, [pc |-> "publish", id |-> id, row |-> row, fwd |-> fwd])
  ELSE Answer(s, id, row, fwd)

\* persistence.create resolved: bots hear of it if the channel the client named, which
\* need not be that of a stored message with the same key, is a normal one.
Created(s, id, row, fwd) ==
  IF Mode[req[s].row.ch] = "normal"
  THEN Become(s, [pc |-> "publish", id |-> id, row |-> row, fwd |-> fwd])
  ELSE Answer(s, id, row, fwd)

\* findByClient: a key already stored returns its message, otherwise go on.
LookUp(s, draft, fwd) ==
  LET id == byClient[Key(draft)] IN
  IF id # None THEN Answer(s, id, rows[id], fwd)
  ELSE Become(s, [pc |-> IF draft.reply = None THEN "create" ELSE "reply",
                  row |-> draft, fwd |-> fwd])

Draft(u, ch, c, content, reply) ==
  [ch |-> ch, sender |-> u, cid |-> c, content |-> content,
   state |-> "sent", reply |-> reply, orig |-> None]

Sending == {s \in Slots : req[s].pc \in {"lookup", "reply", "create", "insert"}}

\* Bound: a fresh message id is left for every send in flight.
Room == Cardinality(DOMAIN rows) + Cardinality(Sending) < Cardinality(Msgs)

\* A client sends, or retries a send: access and mode are checked, then the key.
Send(s, u, ch, c, content, reply) ==
  /\ req[s] = Idle
  /\ u \in Access[ch] /\ ModeAccepts(ch, content)
  /\ Room \/ byClient[<<u, c>>] # None
  /\ LookUp(s, Draft(u, ch, c, content, reply), None)
  /\ UNCHANGED <<rows, byClient, receipts, pins, lapsed, pending, announced, published>>

\* A forward reads its source, then sends a copy of its content as it was read.
Forward(s, u, id, ch, c) ==
  /\ req[s] = Idle
  /\ Exists(id) /\ u \in Access[rows[id].ch] \cap Access[ch]
  /\ ModeAccepts(ch, rows[id].content)
  /\ Room \/ byClient[<<u, c>>] # None
  /\ Become(s, [pc  |-> "lookup",
                row |-> Draft(u, ch, c, rows[id].content, None),
                fwd |-> IF rows[id].orig = None THEN id ELSE rows[id].orig])
  /\ UNCHANGED <<rows, byClient, receipts, pins, lapsed, pending, announced, published>>

ForwardLookUp(s) ==
  /\ req[s].pc = "lookup"
  /\ LookUp(s, req[s].row, req[s].fwd)
  /\ UNCHANGED <<rows, byClient, receipts, pins, lapsed, pending, announced, published>>

\* Mutant: the target's channel is not compared.
ReplyTargetOk_AnyChannel(row) == Exists(row.reply) /\ rows[row.reply].state # "deleted"

\* The reply target must exist, be in the same channel and not be deleted.
ReplyTargetOk(row) ==
  /\ Exists(row.reply)
  /\ rows[row.reply].ch = row.ch
  /\ rows[row.reply].state # "deleted"

CheckReply(s) ==
  /\ req[s].pc = "reply"
  /\ Become(s, IF ReplyTargetOk(req[s].row) THEN [req[s] EXCEPT !.pc = "create"] ELSE Idle)
  /\ UNCHANGED <<rows, byClient, receipts, pins, lapsed, pending, announced, published>>

\* The row and its index entry are stored together.
Insert(s, m) ==
  /\ m \notin DOMAIN rows
  /\ rows' = [i \in DOMAIN rows \cup {m} |-> IF i = m THEN req[s].row ELSE rows[i]]
  /\ byClient' = [byClient EXCEPT ![Key(req[s].row)] = m]
  /\ Created(s, m, req[s].row, req[s].fwd)
  /\ UNCHANGED <<receipts, pins, lapsed, pending, announced, published>>

\* The key is taken: Drizzle's insert conflicts, the in-memory create finds it.
CreateConflict(s) ==
  /\ req[s].pc = "create"
  /\ LET id == byClient[Key(req[s].row)] IN
       /\ id # None
       /\ Created(s, id, rows[id], req[s].fwd)
  /\ UNCHANGED <<rows, byClient, receipts, pins, lapsed, pending, announced, published>>

\* Mutant: no unique index on (sender_id, client_msg_id).
KeyFree_NoUniqueIndex(s) == TRUE

KeyFree(s) == byClient[Key(req[s].row)] = None

\* Drizzle: INSERT ... ON CONFLICT DO NOTHING checks and inserts in one step.
CreateRow(s, m) ==
  /\ Backend = "drizzle" /\ req[s].pc = "create" /\ KeyFree(s)
  /\ Insert(s, m)

\* In memory, create awaits its own findByClient before it stores the row.
CreateCheck(s) ==
  /\ Backend = "memory" /\ req[s].pc = "create" /\ KeyFree(s)
  /\ Become(s, [req[s] EXCEPT !.pc = "insert"])
  /\ UNCHANGED <<rows, byClient, receipts, pins, lapsed, pending, announced, published>>

CreateStore(s, m) == req[s].pc = "insert" /\ Insert(s, m)

\* botService.publishEvent queues message.created for the channel's bots.
Publish(s) ==
  /\ req[s].pc = "publish"
  /\ published' = published \cup {req[s].id}
  /\ Answer(s, req[s].id, req[s].row, req[s].fwd)
  /\ UNCHANGED <<rows, byClient, receipts, pins, lapsed, pending, announced>>

-----------------------------------------------------------------------------
(* Updating a stored message from a snapshot of it *)

\* Read the row, compute the new one, and hand it to persistence.update.
Rewrite(s, id, row, next) ==
  Become(s, [pc |-> "write", id |-> id, row |-> row, next |-> next])

\* Mutant: only ciphertext is refused.
Editable_Tombstones(row) == row.content.type # "ciphertext"

\* Only text can be edited: neither ciphertext nor a tombstone.
Editable(row) == row.content.type = "text"

Edit(s, u, id, text) ==
  /\ req[s] = Idle
  /\ Exists(id) /\ rows[id].sender = u /\ Editable(rows[id])
  /\ Rewrite(s, id, [rows[id] EXCEPT !.content = [type |-> "text", text |-> text]], "idle")
  /\ UNCHANGED <<rows, byClient, receipts, pins, lapsed, pending, announced, published>>

SoftDelete(s, u, id) ==
  /\ req[s] = Idle
  /\ Exists(id) /\ rows[id].sender = u
  /\ Rewrite(s, id, Tombstone(rows[id], "deleted"), "idle")
  /\ UNCHANGED <<rows, byClient, receipts, pins, lapsed, pending, announced, published>>

\* What an acknowledgement writes back.
AckedRow(row) ==
  IF row.content.type = "ciphertext" /\ row.content.readOnce
  THEN Tombstone(row, "read_once_consumed")
  ELSE [row EXCEPT !.state = "read"]

\* Mutant: the acknowledgement handler forgets to flush.
AfterAck_NoFlush == "idle"

\* The gateway's message.ack handler flushes as soon as ackRead has returned.
AfterAck == "flush"

\* message.ack: the sender's own acknowledgement records no receipt.
AckRead(s, u, id) ==
  /\ req[s] = Idle
  /\ Exists(id) /\ u \in Access[rows[id].ch]
  /\ IF rows[id].sender = u
     THEN Rewrite(s, id, AckedRow(rows[id]), AfterAck)
     ELSE Become(s, [pc |-> "receipt", id |-> id, row |-> AckedRow(rows[id]), user |-> u])
  /\ UNCHANGED <<rows, byClient, receipts, pins, lapsed, pending, announced, published>>

Receipt(s) == <<req[s].id, req[s].user>>

\* Mutant: a repeated acknowledgement is queued again.
FirstReceipt_Always(s) == TRUE

FirstReceipt(s) == Receipt(s) \notin receipts

\* persistence.receipt answers whether this reader's receipt is the first.
RecordReceipt(s) ==
  /\ req[s].pc = "receipt"
  /\ receipts' = receipts \cup {Receipt(s)}
  /\ IF FirstReceipt(s)
     THEN Become(s, [req[s] EXCEPT !.pc = "queue"])
     ELSE Rewrite(s, req[s].id, req[s].row, AfterAck)
  /\ UNCHANGED <<rows, byClient, pins, lapsed, pending, announced, published>>

QueueReceipt(s) ==
  /\ req[s].pc = "queue"
  /\ pending' = pending \cup {Receipt(s)}
  /\ Rewrite(s, req[s].id, req[s].row, AfterAck)
  /\ UNCHANGED <<rows, byClient, receipts, pins, lapsed, announced, published>>

\* Drizzle's UPDATE sets the mutable columns, the in-memory map takes the whole row.
Stored(old, new) ==
  IF Backend = "memory" THEN new
  ELSE [old EXCEPT !.content = new.content, !.state = new.state, !.orig = new.orig]

Write(s) ==
  /\ req[s].pc = "write"
  /\ rows' = [rows EXCEPT ![req[s].id] = Stored(@, req[s].row)]
  /\ Become(s, [pc |-> req[s].next])
  /\ UNCHANGED <<byClient, receipts, pins, lapsed, pending, announced, published>>

\* flushReadReceipts empties the queue before its first await ...
Flush(s) ==
  /\ req[s].pc = "flush"
  /\ pending' = {}
  /\ Become(s, [pc |-> "announce", batch |-> pending])
  /\ UNCHANGED <<rows, byClient, receipts, pins, lapsed, announced, published>>

\* ... and the gateway broadcasts message.read for what it took.
Announce(s) ==
  /\ req[s].pc = "announce"
  /\ announced' = announced \cup req[s].batch
  /\ Become(s, Idle)
  /\ UNCHANGED <<rows, byClient, receipts, pins, lapsed, pending, published>>

\* listExpired: Drizzle selects rows still in state "sent", memory all but deleted ones.
Expirable ==
  {id \in DOMAIN rows : /\ Expired(rows[id])
                        /\ IF Backend = "drizzle" THEN rows[id].state = "sent"
                                                  ELSE rows[id].state # "deleted"}

CleanupExpired(s) ==
  /\ req[s] = Idle /\ Expirable # {}
  /\ Become(s, [pc |-> "sweep",
                todo |-> {<<id, Tombstone(rows[id], "expired")>> : id \in Expirable}])
  /\ UNCHANGED <<rows, byClient, receipts, pins, lapsed, pending, announced, published>>

\* Promise.all: the updates of one sweep land one by one, in any order.
Sweep(s) ==
  /\ req[s].pc = "sweep"
  /\ \E e \in req[s].todo :
       /\ rows' = [rows EXCEPT ![e[1]] = Stored(@, e[2])]
       /\ Become(s, IF req[s].todo = {e} THEN Idle ELSE [req[s] EXCEPT !.todo = @ \ {e}])
  /\ UNCHANGED <<byClient, receipts, pins, lapsed, pending, announced, published>>

-----------------------------------------------------------------------------
(* Pins *)

PinMessage(s, u, ch, id) ==
  /\ req[s] = Idle
  /\ u \in Managers[ch]
  /\ Exists(id) /\ rows[id].ch = ch /\ rows[id].state # "deleted"
  /\ Become(s, [pc |-> "pin", id |-> id, ch |-> ch])
  /\ UNCHANGED <<rows, byClient, receipts, pins, lapsed, pending, announced, published>>

AddPin(s) ==
  /\ pins' = [pins EXCEPT ![req[s].ch] = @ \cup {req[s].id}]
  /\ Become(s, Idle)

\* Mutant: an off-by-one at the cap.
AtCap_OffByOne(ch) == Cardinality(pins[ch]) > MaxPins

AtCap(ch) == Cardinality(pins[ch]) >= MaxPins

\* The in-memory backend decides and adds in one step.
PinInMemory(s) ==
  /\ Backend = "memory" /\ req[s].pc = "pin"
  /\ IF AtCap(req[s].ch) /\ req[s].id \notin pins[req[s].ch]
     THEN Become(s, Idle) /\ UNCHANGED pins
     ELSE AddPin(s)
  /\ UNCHANGED <<rows, byClient, receipts, lapsed, pending, announced, published>>

\* Drizzle counts, then at the cap looks for the pin, and then inserts it.
PinCount(s) ==
  /\ Backend = "drizzle" /\ req[s].pc = "pin"
  /\ Become(s, [req[s] EXCEPT !.pc = IF AtCap(req[s].ch) THEN "pinExists" ELSE "pinInsert"])
  /\ UNCHANGED <<rows, byClient, receipts, pins, lapsed, pending, announced, published>>

PinExists(s) ==
  /\ req[s].pc = "pinExists"
  /\ Become(s, IF req[s].id \in pins[req[s].ch] THEN [req[s] EXCEPT !.pc = "pinInsert"] ELSE Idle)
  /\ UNCHANGED <<rows, byClient, receipts, pins, lapsed, pending, announced, published>>

PinInsert(s) ==
  /\ req[s].pc = "pinInsert"
  /\ AddPin(s)
  /\ UNCHANGED <<rows, byClient, receipts, lapsed, pending, announced, published>>

Unpin(u, ch, id) ==
  /\ u \in Managers[ch] /\ id \in pins[ch]
  /\ pins' = [pins EXCEPT ![ch] = @ \ {id}]
  /\ UNCHANGED <<rows, byClient, receipts, lapsed, pending, req, announced, published>>

-----------------------------------------------------------------------------
(* Time, restarts, and the whole system *)

\* Observable only once some content can expire.
Lapse ==
  /\ \E c \in Contents \cap Cipher : c.expires
  /\ ~ lapsed /\ lapsed' = TRUE
  /\ UNCHANGED <<rows, byClient, receipts, pins, pending, req, announced, published>>

\* A restart over PostgreSQL: requests in flight and the receipt queue are lost,
\* tables stay.  (A restart in memory mode is a fresh Init.)
Restart ==
  /\ Crashes /\ Backend = "drizzle"
  /\ pending' = {}
  /\ req' = [s \in Slots |-> Idle]
  /\ UNCHANGED <<rows, byClient, receipts, pins, lapsed, announced, published>>

Init ==
  /\ rows = [i \in {} |-> None]
  /\ byClient = [k \in Users \X ClientIds |-> None]
  /\ receipts = {} /\ pending = {} /\ announced = {} /\ published = {}
  /\ pins = [ch \in Channels |-> {}]
  /\ lapsed = FALSE
  /\ req = [s \in Slots |-> Idle]

Targets == IF "reply" \in Ops THEN OptMsg ELSE {None}

\* A client's request arrives in slot s.
Arrive(s) ==
  \/ /\ "send" \in Ops
     /\ \E u \in Users, ch \in Channels, c \in ClientIds, content \in Contents, reply \in Targets :
          Send(s, u, ch, c, content, reply)
  \/ /\ "forward" \in Ops
     /\ \E u \in Users, id \in Msgs, ch \in Channels, c \in ClientIds : Forward(s, u, id, ch, c)
  \/ "edit" \in Ops /\ \E u \in Users, id \in Msgs, text \in Texts : Edit(s, u, id, text)
  \/ "delete" \in Ops /\ \E u \in Users, id \in Msgs : SoftDelete(s, u, id)
  \/ "ack" \in Ops /\ \E u \in Users, id \in Msgs : AckRead(s, u, id)
  \/ "cleanup" \in Ops /\ CleanupExpired(s)
  \/ /\ "pin" \in Ops
     /\ \E u \in Users, ch \in Channels, id \in Msgs : PinMessage(s, u, ch, id)

\* The request in slot s takes its next step.
Proceed(s) ==
  \/ ForwardLookUp(s) \/ CheckReply(s) \/ CreateConflict(s) \/ CreateCheck(s)
  \/ \E m \in Msgs : CreateRow(s, m) \/ CreateStore(s, m)
  \/ Publish(s) \/ RecordReceipt(s) \/ QueueReceipt(s) \/ Write(s) \/ Flush(s) \/ Announce(s)
  \/ Sweep(s) \/ PinInMemory(s) \/ PinCount(s) \/ PinExists(s) \/ PinInsert(s)

Next ==
  \/ \E s \in Slots : Arrive(s) \/ Proceed(s)
  \/ "unpin" \in Ops /\ \E u \in Users, ch \in Channels, id \in Msgs : Unpin(u, ch, id)
  \/ Lapse
  \/ Restart

Spec == Init /\ [][Next]_vars

\* The event loop runs every request it has accepted to its end.
FairSpec == Spec /\ \A s \in Slots : WF_vars(Proceed(s))

-----------------------------------------------------------------------------
(* Properties *)

\* Every variable, and every stage a request can be in, has its type.
TypeOK ==
  /\ DOMAIN rows \subseteq Msgs /\ rows \in [DOMAIN rows -> Row]
  /\ byClient \in [Users \X ClientIds -> OptMsg]
  /\ receipts \subseteq Pair /\ pending \subseteq Pair /\ announced \subseteq Pair
  /\ pins \in [Channels -> SUBSET Msgs]
  /\ lapsed \in BOOLEAN
  /\ req \in [Slots -> Request]
  /\ published \subseteq Msgs

\* However sends, retries and forwards interleave, a sender's clientMsgId names at
\* most one stored message (the unique index the service relies on for idempotency).
OneRowPerClientId ==
  \A i, j \in DOMAIN rows :
    Key(rows[i]) = Key(rows[j]) => i = j

\* The content types a channel's mode allows its rows.
RowLegal(row) ==
  row.content.type \in
    (IF Mode[row.ch] = "e2e" THEN {"ciphertext", "tombstone"} ELSE {"text", "tombstone"})

\* No plaintext is ever stored in an e2e channel and no ciphertext in a normal one,
\* by a send, a forward across channels, or an update written from an old snapshot.
ModeSeparation == \A i \in DOMAIN rows : RowLegal(rows[i])

\* The reply target, if any, is stored in the same channel.
RepliesTo(row) == row.reply # None => Exists(row.reply) /\ rows[row.reply].ch = row.ch

\* A reply refers to a stored message of its own channel, although the target was
\* looked up some awaits before the reply was inserted.
ReplyInChannel == \A i \in DOMAIN rows : RepliesTo(rows[i])

\* The receipts a request is about to queue, or has taken from the queue.
Queueing(s)   == IF req[s].pc = "queue" THEN {Receipt(s)} ELSE {}
Announcing(s) == IF req[s].pc = "announce" THEN req[s].batch ELSE {}

\* A reader of a message is counted in at most one message.read event: a receipt is
\* queued once, and no two concurrent flushes take it.
ReceiptOnce ==
  /\ pending \cap announced = {}
  /\ \A s \in Slots :
       /\ Queueing(s) \cap (pending \cup announced) = {}
       /\ Announcing(s) \cap (pending \cup announced) = {}
       /\ \A t \in Slots :
            /\ Queueing(s) \cap Announcing(t) = {}
            /\ s # t => /\ Queueing(s) \cap Queueing(t) = {}
                       /\ Announcing(s) \cap Announcing(t) = {}

\* A channel never holds more pins than the cap.
PinCap == \A ch \in Channels : Cardinality(pins[ch]) <= MaxPins

\* The store as a log of identities, and the promise that it only grows, that keys
\* are never reused and that no update, restart or forward changes who wrote what.
Log == {[id |-> i, ch |-> rows[i].ch, sender |-> rows[i].sender, cid |-> rows[i].cid] : i \in DOMAIN rows}
Abstract == INSTANCE MessageLog WITH log <- Log
ImplementsLog == Abstract!Spec

\* Content that listings have stopped serving (deleted, consumed or expired) is never
\* served again, when requests run one at a time.
HiddenStays ==
  [][\A i \in DOMAIN rows :
       Visible(rows[i]).type = "tombstone" => Visible(rows[i])'.type = "tombstone"]_vars

\* A recorded receipt reaches the channel in some message.read event, whichever
\* request flushes it (unless the process dies: the queue is not persisted).
ReceiptsAnnounced == \A p \in Pair : p \in receipts ~> p \in announced

\* Bots hear of every message stored in a normal channel, forwards and the loser of
\* two concurrent sends included (unless the process dies between store and publish).
BotsHear ==
  \A m \in Msgs : (Exists(m) /\ Mode[rows[m].ch] = "normal") ~> m \in published

-----------------------------------------------------------------------------
(* The inductive invariant behind the safety properties *)

\* The index points at stored rows; PostgreSQL's unique index points at all of them.
IndexSound ==
  /\ \A k \in Users \X ClientIds : byClient[k] # None =>
       byClient[k] \in DOMAIN rows /\ Key(rows[byClient[k]]) = k
  /\ Backend = "drizzle" => \A i \in DOMAIN rows : byClient[Key(rows[i])] = i

SameIdentity(r, q) ==
  r.ch = q.ch /\ r.sender = q.sender /\ r.cid = q.cid /\ r.reply = q.reply

\* The copies of rows a request holds, with the ids they belong to.
Snapshots(r) ==
  CASE r.pc \in {"publish", "receipt", "queue", "write"} -> {<<r.id, r.row>>}
    [] r.pc = "sweep" -> r.todo
    [] OTHER -> {}

\* However stale a snapshot is, it is of a stored row, names the same author and
\* place, and respects the channel's mode.
SnapshotOk(e) ==
  e[1] \in DOMAIN rows /\ SameIdentity(e[2], rows[e[1]]) /\ RowLegal(e[2])

RequestOk(r) ==
  /\ \A e \in Snapshots(r) : SnapshotOk(e)
  /\ r.pc \in {"lookup", "reply", "create", "insert"} => RowLegal(r.row)
  /\ r.pc \in {"create", "insert"} => RepliesTo(r.row)
  /\ r.pc = "insert" => Backend = "memory"

RequestsOk == \A s \in Slots : RequestOk(req[s])

\* Whatever is queued, taken or announced has been recorded, and only once.
ReceiptsAccounted ==
  /\ ReceiptOnce
  /\ pending \cup announced \subseteq receipts
  /\ \A s \in Slots : Queueing(s) \cup Announcing(s) \subseteq receipts

Inv ==
  TypeOK /\ IndexSound /\ ModeSeparation /\ ReplyInChannel /\ RequestsOk /\ ReceiptsAccounted
=============================================================================
