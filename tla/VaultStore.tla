----------------------------- MODULE VaultStore -----------------------------
(***************************************************************************)
(* The server's record tables of one vault (rizzy-domain-vault): signed    *)
(* ops with or without their body, retained snapshots with their clamped   *)
(* version vector and store sequence, the compaction queue, and the        *)
(* account's revocation standing that decides which authors are accepted.  *)
(*                                                                         *)
(* Every write runs in one transaction under the account lock.  db is what *)
(* is committed and what every reader sees; w is what the open transaction *)
(* has written so far; tx says which handler holds the lock and where it   *)
(* is.  One step is one record of a request or one iteration of a loop, so *)
(* a crash, a storage error or a cancelled request can fall between any    *)
(* two of them (Abort).                                                    *)
(*                                                                         *)
(* The key tables of the vault (self-grant, item-key wraps) are not here.  *)
(* Records that fail signature, hash or header checks (intake.rs) and ops  *)
(* past their certificate's expiry are refused before any table is read:   *)
(* Op and Snap hold the records that pass.                                 *)
(***************************************************************************)
EXTENDS Compaction

\* Devices are the account's durable devices (certificate kinds 1 to 3).
CONSTANTS Items,          \* item ids
          SnapIds,        \* snapshot ids
          MaxSeq,         \* bound: highest device_seq a record names
          MaxEpoch,       \* bound: highest vault_key_epoch
          MaxStore,       \* bound: snapshots stored in one history
          MaxRecords,     \* bound: records one request carries (proto limits)
          Retirable,      \* devices the account suspends, revokes or lets expire
          NoItem          \* tx.item when no compaction runs

ASSUME BoundsAssumption == /\ MaxSeq \in Nat /\ MaxEpoch \in Nat
                           /\ MaxStore \in Nat
                           /\ MaxRecords \in Nat
ASSUME RetirableAssumption == Retirable \subseteq Devices
ASSUME NoItemAssumption == NoItem \notin Items

VARIABLES db,             \* the committed tables
          w,              \* the tables as the open transaction sees them
          tx,             \* the open write transaction
          standing,       \* author status of each device (auth domain)
          cutoff,         \* last_accepted_device_seq of a revoked device
          expired         \* devices whose certificate the clock has passed

vars == <<db, w, tx, standing, cutoff, expired>>
auth == <<standing, cutoff, expired>>

Seqs   == 0..MaxSeq
Epochs == 0..MaxEpoch

Op == [dev: Devices, seq: Seqs, prev: Seqs, item: Items, ep: Epochs]

Snap == [id: SnapIds, author: Devices, item: Items,
         covered: [Devices -> Seqs], ep: Epochs]

Row == [id: SnapIds, author: Devices, item: Items,
        covered: [Devices -> Seqs], ep: Epochs,
        store: Nat \ {0}, clamped: [Devices -> Seqs]]

Tables == [ops: SUBSET Op, bodies: SUBSET Op, snaps: SUBSET Row,
           next: Nat \ {0}, queue: SUBSET Items, epoch: Epochs]

Kinds == {"none", "upload", "heal_ops", "heal_snaps", "compact_r1", "compact_r3"}

Tx == [kind: Kinds, rejected: BOOLEAN, fresh: SUBSET Op,
       item: Items \cup {NoItem}, tested: Nat, seen: Nat]

NoTx == [kind |-> "none", rejected |-> FALSE, fresh |-> {},
         item |-> NoItem, tested |-> 0, seen |-> 0]

(***************************************************************************)
(* Reading the tables                                                      *)
(***************************************************************************)

IsHead(ops, d, h) ==
  /\ \A o \in ops : o.dev = d => o.seq <= h
  /\ h = 0 \/ \E o \in ops : o.dev = d /\ o.seq = h

\* repo::heads: MAX(device_seq) per device.
heads(t) == [d \in Devices |-> CHOOSE h \in Seqs : IsHead(t.ops, d, h)]

HasHeads(t) == \A d \in Devices : \E h \in Seqs : IsHead(t.ops, d, h)

item_snapshots(t, i) == {s \in t.snaps : s.item = i}

Held(t, i) == {o \in t.bodies : o.item = i}

Bodiless(t, i) == {o \in t.ops \ t.bodies : o.item = i}

Revoked == {d \in Devices : standing[d] = "revoked"}

(***************************************************************************)
(* The rules of one record (store.rs)                                      *)
(***************************************************************************)

OpDiffers(t, o) == \E p \in t.ops : p.dev = o.dev /\ p.seq = o.seq /\ p # o

SnapSame(t, r) == \E s \in t.snaps : /\ s.id = r.id
                                     /\ s.author = r.author
                                     /\ s.item = r.item
                                     /\ s.covered = r.covered
                                     /\ s.ep = r.ep

SnapDiffers(t, r) == (\E s \in t.snaps : s.id = r.id) /\ ~SnapSame(t, r)

\* Mutant: only a revoked author is looked at.
op_author_allows_suspended(o) ==
  standing[o.dev] # "revoked" \/ o.seq <= cutoff[o.dev]

op_author_allows(o) ==
  \/ standing[o.dev] = "active"
  \/ standing[o.dev] = "revoked" /\ o.seq <= cutoff[o.dev]

op_stale_exempt(o) == standing[o.dev] = "revoked" /\ o.seq <= cutoff[o.dev]

chain_check(t, o) == o.prev < o.seq /\ o.prev = heads(t)[o.dev]

snapshot_allowed(t, r) ==
  /\ standing[r.author] # "suspended"
  /\ check_snapshot(r.author, r.covered, heads(t), Revoked, cutoff, expired)

store_op(t, o, withBody) ==
  [t EXCEPT !.ops = @ \cup {o},
            !.bodies = IF withBody THEN @ \cup {o} ELSE @]

\* Mutant: the version vector is persisted as signed.
NewRowUnclamped(t, r) == [id |-> r.id, author |-> r.author, item |-> r.item,
                          covered |-> r.covered, ep |-> r.ep, store |-> t.next,
                          clamped |-> r.covered]

\* The row of a snapshot: its store sequence, and its VV clamped at the heads
\* of this point of the transaction.
NewRow(t, r) == [id |-> r.id, author |-> r.author, item |-> r.item,
                 covered |-> r.covered, ep |-> r.ep, store |-> t.next,
                 clamped |-> clamp(r.covered, heads(t))]

\* Mutant: the item is announced on the bus and not queued.
store_snapshot_unqueued(t, r) ==
  [ops |-> t.ops, bodies |-> t.bodies, epoch |-> t.epoch,
   snaps |-> t.snaps \cup {NewRow(t, r)},
   next |-> t.next + 1,
   queue |-> t.queue]

store_snapshot(t, r) ==
  [ops |-> t.ops, bodies |-> t.bodies, epoch |-> t.epoch,
   snaps |-> t.snaps \cup {NewRow(t, r)},
   next |-> t.next + 1,
   queue |-> t.queue \cup {r.item}]

OpAcceptable(t, o) ==
  ~OpDiffers(t, o) /\ op_author_allows(o) /\ chain_check(t, o)

SnapAcceptable(t, r) == ~SnapDiffers(t, r) /\ snapshot_allowed(t, r)

(***************************************************************************)
(* Upload (upload.rs).  A record already stored is acknowledged and        *)
(* changes nothing.  The first refused record ends the processing; what    *)
(* was stored before it is committed.                                      *)
(***************************************************************************)

Begin(kind, item) ==
  /\ tx.kind = "none"
  /\ tx' = [NoTx EXCEPT !.kind = kind, !.item = item]
  /\ UNCHANGED <<db, w, auth>>

BeginUpload == Begin("upload", NoItem)

upload_op(o) ==
  /\ tx.kind = "upload" /\ ~tx.rejected /\ tx.seen < MaxRecords
  /\ o \notin w.ops
  /\ IF OpAcceptable(w, o) /\ (o.ep >= w.epoch \/ op_stale_exempt(o))
     THEN w' = store_op(w, o, TRUE) /\ tx' = [tx EXCEPT !.seen = @ + 1]
     ELSE w' = w /\ tx' = [tx EXCEPT !.rejected = TRUE]
  /\ UNCHANGED <<db, auth>>

upload_snapshot(r) ==
  /\ tx.kind = "upload" /\ ~tx.rejected /\ tx.seen < MaxRecords
  /\ ~SnapSame(w, r)
  /\ w.next <= MaxStore
  /\ IF SnapAcceptable(w, r) /\ r.ep >= w.epoch
     THEN w' = store_snapshot(w, r) /\ tx' = [tx EXCEPT !.seen = @ + 1]
     ELSE w' = w /\ tx' = [tx EXCEPT !.rejected = TRUE]
  /\ UNCHANGED <<db, auth>>

CommitUpload ==
  /\ tx.kind = "upload"
  /\ db' = w
  /\ tx' = NoTx
  /\ UNCHANGED <<w, auth>>

(***************************************************************************)
(* Restore healing (heal_in): all ops first, a body optional, then all     *)
(* snapshots, clamped after the request's headers; any refusal, or a       *)
(* header stored without body and left uncovered, rolls everything back.   *)
(***************************************************************************)

\* Mutant: the refusal is answered and the transaction's writes stay.
RollbackKeepsWrites == tx' = NoTx /\ UNCHANGED <<db, w, auth>>

Rollback == w' = db /\ tx' = NoTx /\ UNCHANGED <<db, auth>>

BeginHeal == Begin("heal_ops", NoItem)

\* Mutant: a header without body is not remembered for the cover check.
heal_op_forgets(o, withBody) ==
  /\ tx.kind = "heal_ops" /\ tx.seen < MaxRecords
  /\ o \notin w.ops
  /\ IF OpAcceptable(w, o)
     THEN /\ w' = store_op(w, o, withBody)
          /\ tx' = [tx EXCEPT !.seen = @ + 1]
          /\ UNCHANGED <<db, auth>>
     ELSE Rollback

heal_op(o, withBody) ==
  /\ tx.kind = "heal_ops" /\ tx.seen < MaxRecords
  /\ o \notin w.ops
  /\ IF OpAcceptable(w, o)
     THEN /\ w' = store_op(w, o, withBody)
          /\ tx' = [tx EXCEPT !.seen = @ + 1,
                              !.fresh = IF withBody THEN @ ELSE @ \cup {o}]
          /\ UNCHANGED <<db, auth>>
     ELSE Rollback

HealRecordsDone ==
  /\ tx.kind = "heal_ops"
  /\ tx' = [tx EXCEPT !.kind = "heal_snaps"]
  /\ UNCHANGED <<db, w, auth>>

heal_snapshot(r) ==
  /\ tx.kind = "heal_snaps" /\ tx.seen < MaxRecords
  /\ ~SnapSame(w, r)
  /\ w.next <= MaxStore
  /\ IF SnapAcceptable(w, r)
     THEN /\ w' = store_snapshot(w, r)
          /\ tx' = [tx EXCEPT !.seen = @ + 1]
          /\ UNCHANGED <<db, auth>>
     ELSE Rollback

FreshCovered ==
  \A i \in Items : check_healing_request(item_snapshots(w, i),
                                         {o \in tx.fresh : o.item = i})

CommitHeal ==
  /\ tx.kind = "heal_snaps"
  /\ IF FreshCovered
     THEN db' = w /\ tx' = NoTx /\ UNCHANGED <<w, auth>>
     ELSE Rollback

(***************************************************************************)
(* The worker's compact_item: R1's deletions, then R3's test of each older *)
(* snapshot, oldest first, against the ones still retained; the item       *)
(* leaves the queue in the same transaction.                               *)
(***************************************************************************)

\* run_compaction lists the queue in a transaction of its own, and a worker
\* that lost the leader lock finishes its batch: the item was queued when some
\* worker listed it (since its first snapshot) and need not be queued now.
BeginCompact(i) == item_snapshots(db, i) # {} /\ Begin("compact_r1", i)

CompactR1 ==
  /\ tx.kind = "compact_r1"
  /\ w' = [w EXCEPT !.bodies = @ \ r1_deletions(item_snapshots(w, tx.item),
                                                Held(w, tx.item))]
  /\ tx' = [tx EXCEPT !.kind = "compact_r3"]
  /\ UNCHANGED <<db, auth>>

Untested(S) == {s \in S : ~IsTwoNewest(S, s) /\ s.store > tx.tested}

r3_test(s) ==
  LET S == item_snapshots(w, tx.item)
  IN /\ tx.kind = "compact_r3"
     /\ s \in Untested(S)
     /\ \A u \in Untested(S) : s.store <= u.store
     /\ w' = IF Needed(S, s, Bodiless(w, tx.item))
             THEN w ELSE [w EXCEPT !.snaps = @ \ {s}]
     /\ tx' = [tx EXCEPT !.tested = s.store]
     /\ UNCHANGED <<db, auth>>

CommitCompact ==
  /\ tx.kind = "compact_r3"
  /\ Untested(item_snapshots(w, tx.item)) = {}
  /\ w' = [w EXCEPT !.queue = @ \ {tx.item}]
  /\ db' = w'
  /\ tx' = NoTx
  /\ UNCHANGED auth

\* A crash, a storage error or a dropped request: the transaction rolls back.
Abort == tx.kind # "none" /\ Rollback

(***************************************************************************)
(* The auth domain's writes, each one transaction under the same lock:     *)
(* suspension (revocation phase 1), its lift, the revocation at H, the     *)
(* highest device_seq the server holds from the device in any vault (so at *)
(* least this vault's head), and the rotation of the vault key.            *)
(***************************************************************************)

suspend_device(d) ==
  /\ tx.kind = "none"
  /\ standing[d] = "active"
  /\ standing' = [standing EXCEPT ![d] = "suspended"]
  /\ UNCHANGED <<db, w, tx, cutoff, expired>>

unsuspend_device(d) ==
  /\ tx.kind = "none"
  /\ standing[d] = "suspended"
  /\ standing' = [standing EXCEPT ![d] = "active"]
  /\ UNCHANGED <<db, w, tx, cutoff, expired>>

\* check_cutoff: the rotator's cursor is exactly the heads, and no retained
\* clamp exceeds it.
check_cutoff(cursor) ==
  /\ cursor = heads(db)
  /\ \A s \in db.snaps : leq(s.clamped, cursor)

RotateTo(cursor, e) ==
  /\ check_cutoff(cursor)
  /\ e > db.epoch
  /\ db' = [db EXCEPT !.epoch = e]
  /\ w' = db'

apply_rotation(cursor, e) ==
  /\ tx.kind = "none"
  /\ RotateTo(cursor, e)
  /\ UNCHANGED <<tx, auth>>

\* Mutant: H is taken from the request unchecked.
RevokeAtAny(d, h) ==
  /\ standing' = [standing EXCEPT ![d] = "revoked"]
  /\ cutoff' = [cutoff EXCEPT ![d] = h]

RevokeAt(d, h) ==
  /\ h >= heads(db)[d]
  /\ standing' = [standing EXCEPT ![d] = "revoked"]
  /\ cutoff' = [cutoff EXCEPT ![d] = h]

RevokeWithRotation(d, h, cursor, e) ==
  /\ tx.kind = "none"
  /\ standing[d] = "suspended"
  /\ RevokeAt(d, h)
  /\ RotateTo(cursor, e)
  /\ UNCHANGED <<tx, expired>>

\* Without a rotation the code takes only the shape of a self-revocation (one
\* new durable device, one revoked), and asks for no suspension first.
SelfRevoke(d, h) ==
  /\ tx.kind = "none"
  /\ standing[d] # "revoked"
  /\ RevokeAt(d, h)
  /\ UNCHANGED <<db, w, tx, expired>>

\* The clock passes a certificate's expiry.  A handler reads the clock once,
\* so it never sees this inside its transaction.
Expire(d) ==
  /\ tx.kind = "none"
  /\ d \notin expired
  /\ expired' = expired \cup {d}
  /\ UNCHANGED <<db, w, tx, standing, cutoff>>

EmptyTables == [ops |-> {}, bodies |-> {}, snaps |-> {}, next |-> 1,
                queue |-> {}, epoch |-> 0]

Init ==
  /\ db = EmptyTables
  /\ w = EmptyTables
  /\ tx = NoTx
  /\ standing = [d \in Devices |-> "active"]
  /\ cutoff = [d \in Devices |-> 0]
  /\ expired = {}

Upload ==
  \/ BeginUpload
  \/ \E o \in Op : upload_op(o)
  \/ \E r \in Snap : upload_snapshot(r)
  \/ CommitUpload

Heal ==
  \/ BeginHeal
  \/ \E o \in Op, b \in BOOLEAN : heal_op(o, b)
  \/ HealRecordsDone
  \/ \E r \in Snap : heal_snapshot(r)
  \/ CommitHeal

Compact ==
  \/ \E i \in Items : BeginCompact(i)
  \/ CompactR1
  \/ \E s \in w.snaps : r3_test(s)
  \/ CommitCompact

AuthStep ==
  \/ \E d \in Retirable : suspend_device(d)
  \/ \E d \in Retirable : unsuspend_device(d)
  \/ \E e \in Epochs : apply_rotation(heads(db), e)
  \/ \E d \in Retirable, h \in Seqs, e \in Epochs :
       RevokeWithRotation(d, h, heads(db), e)
  \/ \E d \in Retirable, h \in Seqs : SelfRevoke(d, h)
  \/ \E d \in Retirable : Expire(d)

Next == Upload \/ Heal \/ Compact \/ Abort \/ AuthStep

Spec == Init /\ [][Next]_vars

(***************************************************************************)
(* Properties                                                              *)
(***************************************************************************)

\* Every variable has its type, and outside a transaction the working tables
\* are the committed ones.
TypeOK ==
  /\ db \in Tables
  /\ w \in Tables
  /\ tx \in Tx
  /\ standing \in [Devices -> {"active", "suspended", "revoked"}]
  /\ cutoff \in [Devices -> Seqs]
  /\ expired \in SUBSET Devices
  /\ tx.kind = "none" => w = db

\* ADR 0021 section 8, server property 1: a committed header without body
\* always has a retained snapshot of its item that covers it, whatever R1
\* deleted, R3 dropped and healing requests stored.
BodilessCovered ==
  \A o \in db.ops \ db.bodies : Covered(item_snapshots(db, o.item), o)

\* A retained clamp never exceeds the heads, so no snapshot ever covers an op
\* stored after it (ADR 0021 section 8, server property 2), and the second
\* half of the rotation's check_cutoff can never be what refuses a rotation.
ClampsBelow(t) == \A s \in t.snaps : leq(s.clamped, heads(t))
ClampsBelowHeads == ClampsBelow(db)

\* The ops of one device form one linked chain: a dot has one record, and
\* vault_prev_seq names the stored op just below (chain_check across uploads,
\* healing requests, rollbacks and revocations).
Linked(ops) ==
  \A o \in ops :
    /\ \A p \in ops : p.dev = o.dev /\ p.seq = o.seq => p = o
    /\ \A p \in ops : p.dev = o.dev /\ p.seq < o.seq => p.seq <= o.prev
    /\ o.prev = 0 \/ \E p \in ops : p.dev = o.dev /\ p.seq = o.prev
ChainLinked == Linked(db.ops)

\* The queue is the record of truth (compact.rs): an item that is not queued
\* has nothing left for R1 or R3, so a lost wake-up or a dead worker never
\* loses work.
QueueHoldsWork(t) ==
  \A i \in Items \ t.queue :
    PlanEmpty(item_snapshots(t, i), Held(t, i), Bodiless(t, i))
WorkIsQueued == QueueHoldsWork(db)

\* A revoked device has no op past its last_accepted_device_seq.
WithinCutoffs(t) ==
  \A o \in t.ops : standing[o.dev] = "revoked" => o.seq <= cutoff[o.dev]
NothingPastCutoff == WithinCutoffs(db)

\* Compaction keeps two authors: a body that goes leaves covers by two
\* authors, and a header that has lost its body and has them never falls back
\* to fewer (R1 and R3, within one commit and across commits).
TwoAuthorsKept ==
  [][\A o \in db'.ops \ db'.bodies :
       (o \in db.bodies \/ (o \in db.ops /\ TwoAuthors(item_snapshots(db, o.item), o)))
         => TwoAuthors(item_snapshots(db', o.item), o)]_vars

\* While a device stays suspended nobody can move its head, so the H that
\* suspend_device returned is still the head when the revocation arrives.
SuspendedHeadFrozen ==
  [][\A d \in Devices :
       standing[d] = "suspended" /\ standing'[d] = "suspended"
         => heads(db')[d] = heads(db)[d]]_vars

\* The store implements AppendOnlyVault: what is committed is one chain per
\* device that only grows at its end and under the account's rules, and every
\* op of it can be read, from its body or from a retained snapshot.
Readable ==
  {o \in db.ops : o \in db.bodies \/ Covered(item_snapshots(db, o.item), o)}
Vault == INSTANCE AppendOnlyVault WITH ops <- db.ops, readable <- Readable,
                                       status <- standing
ImplementsVault == Vault!Spec

(***************************************************************************)
(* The inductive invariant: the properties above for the tables of the     *)
(* open transaction as well, what the transaction may still owe (a header  *)
(* stored without body and not yet covered), how its tables relate to the  *)
(* committed ones, and how far R3 has come.                                *)
(***************************************************************************)

\* A store sequence names one row, and the next one is unused.
StoreSeqsUnique(t) ==
  \A s \in t.snaps : s.store < t.next /\ \A u \in t.snaps : u.store = s.store => u = s

TablesInv(t) ==
  /\ HasHeads(t)
  /\ t.bodies \subseteq t.ops
  /\ ClampsBelow(t)
  /\ StoreSeqsUnique(t)
  /\ Linked(t.ops)
  /\ WithinCutoffs(t)

OwedCovers ==
  /\ \A o \in w.ops \ w.bodies :
       o \in tx.fresh \/ Covered(item_snapshots(w, o.item), o)
  /\ tx.fresh # {} => tx.kind \in {"heal_ops", "heal_snaps"}

\* w is a later version of db that keeps its headers and its two authors.
Extends ==
  /\ db.ops \subseteq w.ops
  /\ \A o \in w.ops \ w.bodies :
       (o \in db.bodies \/ (o \in db.ops /\ TwoAuthors(item_snapshots(db, o.item), o)))
         => TwoAuthors(item_snapshots(w, o.item), o)
  /\ \A d \in Devices : standing[d] = "suspended" => heads(w)[d] = heads(db)[d]

CompactProgress ==
  /\ tx.kind \in {"compact_r1", "compact_r3"} => tx.item \in Items
  /\ tx.kind = "compact_r1" => tx.tested = 0
  /\ tx.kind = "compact_r3" =>
       LET S == item_snapshots(w, tx.item)
       IN /\ r1_deletions(S, Held(w, tx.item)) = {}
          /\ \A s \in S : \/ IsTwoNewest(S, s)
                         \/ s.store > tx.tested
                         \/ Needed(S, s, Bodiless(w, tx.item))

IInv ==
  /\ TypeOK
  /\ TablesInv(db) /\ TablesInv(w)
  /\ BodilessCovered /\ OwedCovers
  /\ Extends
  /\ QueueHoldsWork(db) /\ QueueHoldsWork(w)
  /\ CompactProgress
=============================================================================
